---------------------------- MODULE BatchPipeline ----------------------------
(***************************************************************************)
(* The server's batch executor at work among the requests of its clients.  *)
(* One process runs the batches of all markets: what it does between two   *)
(* awaits is one step, a request that calls the chain synchronously is one *)
(* step, and everything else may happen in between.  A transaction that    *)
(* was sent may land later than its answer, or without one; the process    *)
(* may crash and then knows only what had been saved.                      *)
(*                                                                         *)
(* Settlements and intents are required on the chain, as in production.    *)
(* The chain is the little of it the pipeline can see: the contracts have  *)
(* modules of their own.                                                   *)
(***************************************************************************)
EXTENDS BatchMatcher

CONSTANTS
  Markets,
  Orders,          \* the orders clients may submit, by name
  MarketOf, Terms, \* the market and the terms of each
  Replaces,        \* order -> the order it may be submitted in place of
  NoBatch,         \* the batch of a market that is not running
  MaxMishaps       \* bound: answers lost or wrong, failures of the prover, crashes

-----------------------------------------------------------------------------
(* The server's own book of the protocol, held in memory: the orders it    *)
(* knows with their lifecycle, the positions in the order of the local     *)
(* tree, the batches it has committed and the notes they spent.  Its       *)
(* operations are operators from a store to the store after them; a        *)
(* refusal of the code is an operator of its own.                          *)
(*                                                                         *)
(* An order commitment is a sequence: <<o>> for the order a client named o *)
(* and Append(c, n) for the residual of c after n of it were filled.       *)

Statuses == {"open", "cancelled", "filled", "partially-filled"}

EmptyStore ==
  [orders |-> <<>>, positions |-> <<>>, settled |-> {}, spent |-> {}]

Known(st) == DOMAIN st.orders

With(orders, c, order) == [d \in DOMAIN orders \cup {c} |-> IF d = c THEN order ELSE orders[d]]

OpenOrders(st, market) ==
  {c \in Known(st) : st.orders[c].status = "open" /\ st.orders[c].market = market}

-----------------------------------------------------------------------------
(* Orders.                                                                 *)

\* A note locks one order that is not cancelled, and none once it is spent.
CanAddIntent(st, c, terms) ==
  /\ c \notin Known(st)
  /\ terms.note \notin st.spent
  /\ \A d \in Known(st) :
       Len(d) = 1 /\ st.orders[d].terms.note = terms.note => st.orders[d].status = "cancelled"

AddIntent(st, c, market, terms, place) ==
  [st EXCEPT !.orders = With(@, c, [market |-> market, terms |-> terms, sequence |-> place,
                                    status |-> "open", residual |-> <<>>])]

\* An order that rolled over is cancelled through its residual.
IsCancellable(st, c) ==
  /\ c \in Known(st)
  /\ st.orders[c].status \notin {"filled", "cancelled"}
  /\ ~(st.orders[c].status = "partially-filled" /\ st.orders[c].residual # <<>>)

CancelOrder(st, c) == [st EXCEPT !.orders[c].status = "cancelled"]

-----------------------------------------------------------------------------
(* What the matcher is given: the open orders of a selection, by sequence. *)

Sequenced(st, S) ==
  SetToSortSeq(S, LAMBDA a, b : st.orders[a].sequence < st.orders[b].sequence)

BookOf(st, ids) == [n \in DOMAIN ids |-> st.orders[ids[n]].terms]

ResidualId(ids, match, n) == Append(ids[n], match.filled[n])

\* A position is named by the order it is of and its place among the fills.
Openings(ids, match) ==
  FlattenSeq([k \in DOMAIN match.executions |->
    <<<<ids[match.executions[k].long], 2 * k - 1>>, <<ids[match.executions[k].short], 2 * k>>>>])

\* The order that is filled in part is replaced by its residual, in the place
\* it had in the sequence.
ResidualOrders(st, ids, match) ==
  LET source(c) == CHOOSE n \in DOMAIN match.residuals : ResidualId(ids, match, n) = c
  IN  [c \in {ResidualId(ids, match, n) : n \in DOMAIN match.residuals} |->
         [source |-> ids[source(c)], terms |-> match.residuals[source(c)],
          sequence |-> st.orders[ids[source(c)]].sequence]]

Updates(ids, match) ==
  LET place(c) == CHOOSE n \in DOMAIN ids : ids[n] = c
  IN  [c \in {ids[n] : n \in {n \in DOMAIN ids : match.filled[n] > 0}} |->
         IF place(c) \in DOMAIN match.residuals THEN ResidualId(ids, match, place(c)) ELSE <<>>]

\* The settlement a matched selection becomes.
SettlementOf(st, market, batch, ids) ==
  LET match   == Match(BookOf(st, ids))
      updates == Updates(ids, match)
  IN  [market |-> market, batch |-> batch, updates |-> updates,
       openings |-> Openings(ids, match),
       spent |-> {st.orders[c].terms.note : c \in DOMAIN updates},
       residuals |-> ResidualOrders(st, ids, match)]

-----------------------------------------------------------------------------
(* Committing a settlement.                                                *)

\* Every order the settlement updates is still open in its market, and no
\* residual it adds is known.
IsSettleable(st, settlement) ==
  /\ DOMAIN settlement.updates \subseteq OpenOrders(st, settlement.market)
  /\ DOMAIN settlement.residuals \cap Known(st) = {}

\* Every residual continues the order whose update names it, at that order's
\* priority and with a note of its own, and every update's residual is there.
ResidualsContinue(st, settlement) ==
  /\ DOMAIN settlement.residuals
       = {settlement.updates[c] : c \in DOMAIN settlement.updates} \ {<<>>}
  /\ \A c \in DOMAIN settlement.residuals :
       LET residual == settlement.residuals[c]
       IN  /\ residual.source \in DOMAIN settlement.updates
           /\ settlement.updates[residual.source] = c
           /\ residual.sequence = st.orders[residual.source].sequence
           /\ residual.terms.note \notin settlement.spent

CanAddSettlement(st, settlement) ==
  /\ settlement.batch \notin st.settled
  /\ settlement.spent \cap st.spent = {}
  /\ IsSettleable(st, settlement)
  /\ ResidualsContinue(st, settlement)

AfterUpdates(orders, settlement) ==
  [c \in DOMAIN orders |->
     IF c \notin DOMAIN settlement.updates THEN orders[c]
     ELSE LET residual == settlement.updates[c]
          IN  [orders[c] EXCEPT !.status = IF residual = <<>> THEN "filled" ELSE "partially-filled",
                                !.residual = residual]]

WithResiduals(orders, settlement) ==
  [c \in DOMAIN orders \cup DOMAIN settlement.residuals |->
     IF c \in DOMAIN orders THEN orders[c]
     ELSE [market |-> settlement.market, terms |-> settlement.residuals[c].terms,
           sequence |-> settlement.residuals[c].sequence, status |-> "open", residual |-> <<>>]]

AddSettlement(st, settlement) ==
  [st EXCEPT !.positions = @ \o settlement.openings,
             !.spent = @ \cup settlement.spent,
             !.orders = WithResiduals(AfterUpdates(@, settlement), settlement),
             !.settled = @ \cup {settlement.batch}]

-----------------------------------------------------------------------------
VARIABLES
  store,     \* the protocol store in memory
  saved,     \* the newest of its snapshots in the database
  run,       \* market -> the batch execution in progress
  cooling,   \* batches that failed less than a cooldown ago
  registry,  \* chain: the intents and what became of them
  sequence,  \* chain: the last submission sequence given
  tree,      \* chain: the leaves of the position tree
  landed,    \* chain: the settled batches
  inFlight,  \* settle transactions that were sent and may still land
  mishaps

chainVars == <<registry, sequence, tree, landed, inFlight>>
vars == <<store, saved, run, cooling, chainVars, mishaps>>

NoSettlement == [batch |-> NoBatch]

Resting == [step |-> "idle", batch |-> NoBatch, root |-> <<>>, chosen |-> {},
            settlement |-> NoSettlement]

Steps == {"idle", "starting", "rootAsked", "liquidity", "chosen", "proving", "proved",
          "settledAsked", "relaying", "settling", "confirming", "committing", "finalizing"}

PipelineTypeOK ==
  /\ \A c \in Known(store) :
       /\ store.orders[c].status \in Statuses
       /\ store.orders[c].sequence \in 1..sequence
  /\ DOMAIN run = Markets /\ \A m \in Markets : run[m].step \in Steps
  /\ \A c \in DOMAIN registry : registry[c].status \in {"active", "cancelled", "filled"}
  /\ mishaps \in 0..MaxMishaps

PipelineInit ==
  /\ store = EmptyStore /\ saved = EmptyStore
  /\ run = [m \in Markets |-> Resting]
  /\ cooling = {}
  /\ registry = <<>> /\ sequence = 0 /\ tree = <<>> /\ landed = {} /\ inFlight = {}
  /\ mishaps = 0

-----------------------------------------------------------------------------
(* The chain.                                                              *)

IsActiveIntent(c) == c \in DOMAIN registry /\ registry[c].status = "active"

\* settle accepts a recorded proof once, for intents that are all active.
ChainAccepts(s) ==
  /\ \A t \in landed : t.batch # s.batch
  /\ \A c \in DOMAIN s.updates : IsActiveIntent(c)
  /\ DOMAIN s.residuals \cap DOMAIN registry = {}

TransactionLands(s) ==
  /\ s \in inFlight /\ ChainAccepts(s)
  /\ registry' = [c \in DOMAIN registry \cup DOMAIN s.residuals |->
                    CASE c \in DOMAIN s.updates -> [registry[c] EXCEPT !.status = "filled"]
                      [] c \in DOMAIN s.residuals -> [status |-> "active", sequence |-> s.residuals[c].sequence]
                      [] OTHER -> registry[c]]
  /\ tree' = tree \o s.openings
  /\ landed' = landed \cup {s}
  /\ inFlight' = inFlight \ {s}
  /\ UNCHANGED <<store, saved, run, cooling, sequence, mishaps>>

\* A transaction nobody waits for may also never land.
TransactionExpires(s) ==
  /\ s \in inFlight /\ \A m \in Markets : run[m].settlement # s
  /\ inFlight' = inFlight \ {s}
  /\ UNCHANGED <<store, saved, run, cooling, registry, sequence, tree, landed, mishaps>>

-----------------------------------------------------------------------------
(* Requests.  "outcome" says whether the transaction landed and whether    *)
(* the relayer, after its retries, says so.                                *)

Mishap == mishaps < MaxMishaps /\ mishaps' = mishaps + 1

Fault(outcome) ==
  IF outcome = "done" THEN UNCHANGED mishaps ELSE Mishap

Outcomes == {"done", "notSent", "unreported"}

\* A relay that fails because the intent is registered already, by an earlier
\* attempt, counts as done; a failed relay with a failed lookup is an error.
SubmitTo(st, intents, o, outcome) ==
  LET c     == <<o>>
      known == c \in DOMAIN intents
      after == IF outcome = "notSent" \/ known THEN intents
               ELSE With(intents, c, [status |-> "active", sequence |-> sequence + 1])
  IN  /\ registry' = after
      /\ sequence' = IF after = intents THEN sequence ELSE sequence + 1
      /\ store' = IF outcome = "done" /\ CanAddIntent(st, c, Terms[o])
                  THEN AddIntent(st, c, MarketOf[o], Terms[o], after[c].sequence)
                  ELSE st

Submit(o, outcome) ==
  /\ Fault(outcome)
  /\ <<o>> \notin Known(store)
  /\ SubmitTo(store, registry, o, outcome)
  /\ UNCHANGED <<saved, run, cooling, tree, landed, inFlight>>

Cancelled(intents, c) == [intents EXCEPT ![c].status = "cancelled"]

\* Mutant: the store cancels without waiting for the registry.
Cancel_StoreFirst(c, outcome) ==
  /\ Fault(outcome)
  /\ IsCancellable(store, c) /\ IsActiveIntent(c)
  /\ registry' = IF outcome = "notSent" THEN registry ELSE Cancelled(registry, c)
  /\ store' = CancelOrder(store, c)
  /\ UNCHANGED <<saved, run, cooling, sequence, tree, landed, inFlight>>

\* The registry cancels before the store does; a cancellation that is not
\* reported as submitted, or that the registry refuses, changes nothing here.
Cancel(c, outcome) ==
  /\ Fault(outcome)
  /\ IsCancellable(store, c) /\ IsActiveIntent(c)
  /\ registry' = IF outcome = "notSent" THEN registry ELSE Cancelled(registry, c)
  /\ store' = IF outcome = "done" THEN CancelOrder(store, c) ELSE store
  /\ UNCHANGED <<saved, run, cooling, sequence, tree, landed, inFlight>>

\* The old order is cancelled, then the new one submitted: the second may fail
\* and leaves the client with neither.
Replace(o, outcome) ==
  /\ o \in DOMAIN Replaces /\ <<o>> \notin Known(store)
  /\ LET old == <<Replaces[o]>>
     IN  /\ IsCancellable(store, old) /\ IsActiveIntent(old)
         /\ SubmitTo(CancelOrder(store, old), Cancelled(registry, old), o, outcome)
  /\ Fault(outcome)
  /\ UNCHANGED <<saved, run, cooling, tree, landed, inFlight>>

-----------------------------------------------------------------------------
(* The executor.                                                           *)

OpenClientOrders(m) == OpenOrders(store, m)

\* Mutant: a batch is named after its market.
BatchId_OfMarket(m) == <<m>>

\* A batch is named after the open orders of its market, so that what failed
\* is not tried again before its cooldown unless the orders change.
BatchId(m) == <<m, OpenClientOrders(m)>>

IsRunning == \E m \in Markets : run[m].step # "idle"

MarketsToRun == {m \in Markets : OpenClientOrders(m) # {} /\ BatchId(m) \notin cooling}

executorFrame == <<registry, sequence, tree, landed>>

\* The timer starts all markets together and starts none before all have ended.
Tick ==
  /\ ~IsRunning /\ MarketsToRun # {}
  /\ run' = [m \in Markets |-> IF m \in MarketsToRun
                               THEN [Resting EXCEPT !.step = "starting", !.batch = BatchId(m)]
                               ELSE run[m]]
  /\ UNCHANGED <<store, saved, cooling, inFlight, mishaps, executorFrame>>

Advance(m, step) == run' = [run EXCEPT ![m].step = step]

End(m) == run' = [run EXCEPT ![m] = Resting]

\* A run that fails cools its batch down; one that finds the orders gone is
\* skipped and does not.
Fail(m) ==
  /\ End(m) /\ cooling' = cooling \cup {run[m].batch}
  /\ UNCHANGED <<store, saved, inFlight, executorFrame>>

Skip(m) == End(m) /\ UNCHANGED <<store, saved, cooling, inFlight, mishaps, executorFrame>>

\* Every progress report is flushed before the run goes on.
Flushed == saved = store

\* The local root is taken before the chain is asked for its own.
AskRoot(m) ==
  /\ run[m].step = "starting" /\ Flushed
  /\ run' = [run EXCEPT ![m].step = "rootAsked", ![m].root = store.positions]
  /\ UNCHANGED <<store, saved, cooling, inFlight, mishaps, executorFrame>>

RootAnswers(m) ==
  /\ run[m].step = "rootAsked"
  /\ IF run[m].root = tree
     THEN Advance(m, "liquidity") /\ UNCHANGED <<store, saved, cooling, inFlight, executorFrame>>
     ELSE Fail(m)
  /\ UNCHANGED mishaps

\* After the oracle, the maker's liquidity and the funding sample.
ChooseOrders(m) ==
  /\ run[m].step = "liquidity" /\ Flushed
  /\ CASE Cardinality(OpenOrders(store, m)) >= 2 ->
            /\ run' = [run EXCEPT ![m].step = "chosen", ![m].chosen = OpenOrders(store, m)]
            /\ UNCHANGED <<store, saved, cooling, inFlight, executorFrame>>
       [] Cardinality(OpenOrders(store, m)) = 1 -> Fail(m)
       [] OTHER -> End(m) /\ UNCHANGED <<store, saved, cooling, inFlight, executorFrame>>
  /\ UNCHANGED mishaps

\* The matcher takes what is still open of the chosen orders.
MatchOrders(m) ==
  /\ run[m].step = "chosen" /\ Flushed
  /\ LET ids == Sequenced(store, run[m].chosen \cap OpenOrders(store, m))
     IN  CASE ids = <<>> -> End(m) /\ UNCHANGED <<store, saved, cooling, inFlight, executorFrame>>
           [] ids # <<>> /\ Refusal(BookOf(store, ids)) # "" -> Fail(m)
           [] OTHER ->
                /\ run' = [run EXCEPT ![m].step = "proving",
                                      ![m].settlement = SettlementOf(store, m, run[m].batch, ids)]
                /\ UNCHANGED <<store, saved, cooling, inFlight, executorFrame>>
  /\ UNCHANGED mishaps

ProofIsMade(m) ==
  /\ run[m].step = "proving"
  /\ Advance(m, "proved")
  /\ UNCHANGED <<store, saved, cooling, inFlight, mishaps, executorFrame>>

\* A proof batch whose orders are no longer all open is discarded.
AssertOrdersActive(m) ==
  /\ run[m].step = "proved" /\ Flushed
  /\ IF \A c \in DOMAIN run[m].settlement.updates : store.orders[c].status = "open"
     THEN Advance(m, "settledAsked") /\ UNCHANGED <<store, saved, cooling, inFlight, mishaps, executorFrame>>
     ELSE Skip(m)

IsSettledOnchain(s) == s \in landed

\* Mutant: the settlement is taken to be on the chain.
SettledAnswers_Assumed(m) ==
  /\ run[m].step = "settledAsked"
  /\ Advance(m, "committing")
  /\ UNCHANGED <<store, saved, cooling, inFlight, mishaps, executorFrame>>

\* A settlement that is on the chain already is confirmed without a relay.
SettledAnswers(m) ==
  /\ run[m].step = "settledAsked"
  /\ Advance(m, IF IsSettledOnchain(run[m].settlement) THEN "committing" ELSE "relaying")
  /\ UNCHANGED <<store, saved, cooling, inFlight, mishaps, executorFrame>>

\* The proof is recorded, then the settlement is sent.
SendSettlement(m) ==
  /\ run[m].step = "relaying"
  /\ Advance(m, "settling") /\ inFlight' = inFlight \cup {run[m].settlement}
  /\ UNCHANGED <<store, saved, cooling, mishaps, executorFrame>>

RelayReports(m) ==
  /\ run[m].step = "settling" /\ IsSettledOnchain(run[m].settlement)
  /\ Advance(m, "confirming")
  /\ UNCHANGED <<store, saved, cooling, inFlight, mishaps, executorFrame>>

\* The chain refuses the transaction.
RelayIsRefused(m) ==
  /\ run[m].step = "settling" /\ ~ChainAccepts(run[m].settlement)
  /\ ~IsSettledOnchain(run[m].settlement)
  /\ End(m) /\ cooling' = cooling \cup {run[m].batch}
  /\ inFlight' = inFlight \ {run[m].settlement}
  /\ UNCHANGED <<store, saved, mishaps, executorFrame>>

\* A second look at the chain decides; what it does not confirm is an error.
ConfirmSettlement(m) ==
  /\ run[m].step = "confirming"
  /\ IF IsSettledOnchain(run[m].settlement)
     THEN Advance(m, "committing") /\ UNCHANGED <<store, saved, cooling, inFlight, executorFrame>>
     ELSE Fail(m)
  /\ UNCHANGED mishaps

\* Mutant: the commit insists on the open orders the batch was named after.
CommitSettlement_SameBook(m) ==
  /\ run[m].step = "committing" /\ Flushed
  /\ IF CanAddSettlement(store, run[m].settlement) /\ run[m].batch = BatchId(m)
     THEN /\ store' = AddSettlement(store, run[m].settlement)
          /\ Advance(m, "finalizing")
          /\ UNCHANGED <<saved, cooling, inFlight, executorFrame>>
     ELSE Fail(m)
  /\ UNCHANGED mishaps

CommitSettlement(m) ==
  /\ run[m].step = "committing" /\ Flushed
  /\ IF CanAddSettlement(store, run[m].settlement)
     THEN /\ store' = AddSettlement(store, run[m].settlement)
          /\ Advance(m, "finalizing")
          /\ UNCHANGED <<saved, cooling, inFlight, executorFrame>>
     ELSE Fail(m)
  /\ UNCHANGED mishaps

FinalizeSettlement(m) ==
  /\ run[m].step = "finalizing" /\ Flushed
  /\ Skip(m)

\* Reading the chain, proving and relaying may fail, a relay also after its
\* transaction was sent: "required" settlements then end without a second look.
FaultySteps == {"rootAsked", "proving", "relaying", "settling", "confirming"}

StepFails(m) ==
  /\ run[m].step \in FaultySteps /\ Mishap
  /\ Fail(m)

\* A failed batch is tried again after 30 or 60 seconds.
CooldownEnds(b) ==
  /\ b \in cooling
  /\ cooling' = cooling \ {b}
  /\ UNCHANGED <<store, saved, run, inFlight, mishaps, executorFrame>>

-----------------------------------------------------------------------------
(* Saving and crashing.                                                    *)

\* The snapshot that was queued last is written.
Save ==
  /\ saved # store
  /\ saved' = store
  /\ UNCHANGED <<store, run, cooling, inFlight, mishaps, executorFrame>>

\* The runs, the cooldowns and what was not saved are lost.
Crash ==
  /\ Mishap
  /\ store' = saved
  /\ run' = [m \in Markets |-> Resting]
  /\ cooling' = {}
  /\ UNCHANGED <<saved, chainVars>>

-----------------------------------------------------------------------------
RunStep(m) ==
  \/ AskRoot(m) \/ RootAnswers(m) \/ ChooseOrders(m) \/ ProofIsMade(m)
  \/ AssertOrdersActive(m) \/ SettledAnswers(m) \/ SendSettlement(m) \/ RelayReports(m)
  \/ RelayIsRefused(m) \/ ConfirmSettlement(m) \/ CommitSettlement(m) \/ FinalizeSettlement(m)

PipelineNext ==
  \/ \E o \in Orders, outcome \in Outcomes : Submit(o, outcome) \/ Replace(o, outcome)
  \/ \E c \in Known(store), outcome \in Outcomes : Cancel(c, outcome)
  \/ Tick
  \/ \E m \in Markets : RunStep(m) \/ MatchOrders(m) \/ StepFails(m)
  \/ \E b \in cooling : CooldownEnds(b)
  \/ \E s \in inFlight : TransactionLands(s) \/ TransactionExpires(s)
  \/ Save \/ Crash

\* The timer fires, what is awaited answers, snapshots are written, cooldowns
\* pass and a transaction the chain accepts lands.  (The fairness of
\* MatchOrders is written out: nothing but it and a crash leaves "chosen".)
PipelineFairness ==
  /\ WF_vars(Tick) /\ WF_vars(Save)
  /\ \A m \in Markets : WF_vars(RunStep(m))
  /\ \A m \in Markets : []<>~(run[m].step = "chosen" /\ Flushed)
  /\ WF_vars(\E b \in cooling : CooldownEnds(b))
  /\ WF_vars(\E s \in inFlight : TransactionLands(s))

PipelineSpec == PipelineInit /\ [][PipelineNext]_vars /\ PipelineFairness

-----------------------------------------------------------------------------
\* What a store calls cancelled is cancelled on the chain, what it calls filled
\* was filled by a batch that settled there, and every order it knows is
\* registered at its place.
FollowsChain(st) ==
  /\ \A c \in Known(st) :
       /\ c \in DOMAIN registry
       /\ st.orders[c].status = "cancelled" => registry[c].status = "cancelled"
       /\ st.orders[c].status \in {"filled", "partially-filled"} => registry[c].status = "filled"
       /\ st.orders[c].sequence = registry[c].sequence
  /\ st.settled \subseteq {s.batch : s \in landed}

\* The store is never ahead of the chain, before or after a crash.
StoreFollowsChain == FollowsChain(store) /\ FollowsChain(saved)
=============================================================================
