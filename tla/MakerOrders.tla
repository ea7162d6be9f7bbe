----------------------------- MODULE MakerOrders -----------------------------
(***************************************************************************)
(* The server's side of the vault maker: at the start of every batch it    *)
(* answers the open orders of clients with orders of its own, backed by    *)
(* notes of the vault; a settled batch spends the notes; a trader's close  *)
(* closes the vault's position with it.                                    *)
(*                                                                         *)
(* What happens between two awaits is one step.  The settlement itself is  *)
(* one step here: how it can fail half way is BatchPipeline's subject.     *)
(*                                                                         *)
(* The notes that the maker trades with and the allocations of vault       *)
(* principal behind them are as MongoDB holds them: the server, the        *)
(* operator's maker manager and their restarts share these two collections *)
(* and nothing else but the chain.  A note is named by where it comes      *)
(* from: the deposit of an allocation, the change of another note, or the  *)
(* close of a maker position.  There is one vault, one series, one maker   *)
(* and one asset.                                                          *)
(***************************************************************************)
EXTENDS BatchMatcher

CONSTANTS
  None,
  Orders, Terms,   \* the orders clients may submit: side, limit, size, margin
  Outs,            \* what a closed position of the vault may be worth
  MaxMishaps       \* bound: failed or unanswered transactions, crashes, liquidations

VARIABLES
  notes,      \* note -> its document
  allocations,  \* allocation -> its document
  orders,     \* order -> its terms, status and place in the submission sequence
  positions,  \* the positions of the protocol store in memory
  saved,      \* the positions as last flushed: what other processes read
  server,     \* the batch run in progress
  closing,    \* trader position -> how far its close is
  inPool,     \* chain: notes with a commitment in the shielded pool
  spentNotes, \* chain: notes whose nullifier is spent
  ended,      \* chain: positions that were closed
  mishaps

Deposited(a)    == <<"deposit", a>>
ChangeOf(n, o)  == <<"change", n, o>>
OutputOf(p)     == <<"output", p>>

NoteStatuses == {"pending", "available", "locked", "draining", "withdrawing", "spent"}

\* The statuses that keep an allocation from being closed.
ActiveStatuses == NoteStatuses \ {"spent"}

\* by, source: the maker order the note is locked by and the order it answers;
\* settled: the vault settlement that returned what was recovered is known.
NewNote(amount, allocation) ==
  [amount |-> amount, status |-> "pending", allocation |-> allocation, by |-> None, source |-> None,
   parent |-> None, closes |-> None, closed |-> FALSE, recovered |-> FALSE, settled |-> FALSE]

NewAllocation(amount) ==
  [amount |-> amount, remaining |-> amount, registered |-> 0, notes |-> {}, status |-> "outstanding"]

Stored(docs, id, doc) == [x \in DOMAIN docs \cup {id} |-> IF x = id THEN doc ELSE docs[x]]

\* What is new in "added" joins what is there.
Joined(docs, added) ==
  [x \in DOMAIN docs \cup DOMAIN added |-> IF x \in DOMAIN docs THEN docs[x] ELSE added[x]]

NotesOf(ns, a) == {n \in DOMAIN ns : ns[n].allocation = a}

AmountOf(ns, S) == FoldSet(LAMBDA n, total : ns[n].amount + total, 0, S)

\* The remaining principal of the allocations that are not closed.
RecordedPrincipal(as) ==
  FoldSet(LAMBDA a, total : as[a].remaining + total, 0, {a \in DOMAIN as : as[a].status # "closed"})

-----------------------------------------------------------------------------
(* Locking.                                                                *)

Locked(ns, n, order, source) ==
  [ns EXCEPT ![n].status = "locked", ![n].by = order, ![n].source = source]

Unlocked(ns, n) ==
  [ns EXCEPT ![n].status = "available", ![n].by = None, ![n].source = None]

HasMakerFor(ns, source) ==
  \E n \in DOMAIN ns : ns[n].status = "locked" /\ ns[n].source = source

\* The unspent part of a note whose order traded: spendable at once.
ChangeNote(ns, n, margin) ==
  [NewNote(ns[n].amount - margin, ns[n].allocation) EXCEPT !.status = "available", !.parent = n]

-----------------------------------------------------------------------------
(* Which notes may trade.                                                  *)

\* Every ancestor was spent and was worth as much, and the first of them is
\* registered with the allocation.
Rooted(ns, as, n) ==
  LET rooted[m \in DOMAIN ns] ==
        IF ns[m].parent = None THEN m \in as[ns[m].allocation].notes
        ELSE LET parent == ns[m].parent
             IN  /\ parent \in DOMAIN ns /\ ns[parent].status = "spent"
                 /\ ns[parent].allocation = ns[m].allocation
                 /\ ns[parent].amount >= ns[m].amount
                 /\ rooted[parent]
  IN  rooted[n]

\* The notes of outstanding allocations, as long as the principal recorded for
\* these is out on the chain, without those of an allocation that holds more
\* than its remaining principal.
Eligible(ns, as, principal) ==
  LET candidates == {a \in DOMAIN as :
                       /\ as[a].status = "outstanding"
                       /\ 0 < as[a].remaining /\ as[a].remaining <= principal
                       /\ as[a].registered <= as[a].amount}
      total    == FoldSet(LAMBDA a, sum : as[a].remaining + sum, 0, candidates)
      eligible == {n \in DOMAIN ns : /\ ns[n].status = "available"
                                     /\ ns[n].allocation \in candidates
                                     /\ Rooted(ns, as, n)}
      within(a) == AmountOf(ns, eligible \cap NotesOf(ns, a)) <= as[a].remaining
  IN  IF total > principal THEN {} ELSE {n \in eligible : within(ns[n].allocation)}

\* How the margin and the size of an order are spread over notes: one of just
\* the amount, else the smallest that covers it, else all of the smaller ones
\* from the largest on, the last for what is left.
Selection(ns, S, margin, size) ==
  LET covering == {n \in S : ns[n].amount >= margin}
      smallest == CHOOSE n \in covering : \A m \in covering : ns[n].amount <= ns[m].amount
      spread   == FoldLeft(LAMBDA plan, n :
                             IF plan.left = 0 THEN plan
                             ELSE LET part == Lesser(ns[n].amount, plan.left)
                                  IN  [left  |-> plan.left - part,
                                       parts |-> Append(plan.parts, [note |-> n, margin |-> part])],
                           [left |-> margin, parts |-> <<>>],
                           SetToSortSeq(S, LAMBDA a, b : ns[a].amount > ns[b].amount))
      sizeOf(k) == (size * spread.parts[k].margin) \div margin
      rest      == size - FoldLeft(LAMBDA sum, k : sum + sizeOf(k), 0,
                                   [k \in 1..(Len(spread.parts) - 1) |-> k])
      sized     == [k \in DOMAIN spread.parts |->
                      [note |-> spread.parts[k].note, margin |-> spread.parts[k].margin,
                       size |-> IF k = Len(spread.parts) THEN rest ELSE sizeOf(k)]]
  IN  CASE covering # {} -> <<[note |-> smallest, margin |-> margin, size |-> size]>>
        [] covering = {} /\ spread.left # 0 -> <<>>
        [] OTHER -> SelectSeq(sized, LAMBDA part : part.size > 0)

-----------------------------------------------------------------------------
(* The manager's writes.                                                   *)

\* Variant of DrainingNotes: the change that an order leaves later is forgotten.
DrainingNotes_DepositsOnly(ns, a) ==
  [n \in DOMAIN ns |-> IF ns[n].allocation = a /\ ns[n].status = "available" /\ ns[n].parent = None
                       THEN [ns[n] EXCEPT !.status = "draining"] ELSE ns[n]]

DrainingNotes(ns, a) ==
  [n \in DOMAIN ns |-> IF ns[n].allocation = a /\ ns[n].status = "available"
                       THEN [ns[n] EXCEPT !.status = "draining"] ELSE ns[n]]

\* A pending output becomes a note to recover once its close is known.
FinalizedOutput(ns, n) == [ns EXCEPT ![n].status = "draining", ![n].closed = TRUE]

Recovered(ns, n) == [ns EXCEPT ![n].status = "spent", ![n].recovered = TRUE]

\* Variant of Returnable: the outputs of closed positions are left to receipts.
Returnable_NoOutputs(ns, a) == {n \in NotesOf(ns, a) : ns[n].recovered /\ ns[n].closes = None}

\* What was recovered and not yet returned to the vault.
Returnable(ns, a) == {n \in NotesOf(ns, a) : ns[n].recovered /\ ~ns[n].settled}

\* An allocation with notes in use is not closed.
CanClose(ns, a) == \A n \in NotesOf(ns, a) : ns[n].status \notin ActiveStatuses

ClosedAllocation(as, a) == [as EXCEPT ![a].status = "closed", ![a].remaining = 0]

-----------------------------------------------------------------------------
(* The server.                                                             *)

bookVars  == <<orders, positions, saved>>
poolVars  == <<inPool, spentNotes, ended>>
orderVars == <<bookVars, server, closing, poolVars, mishaps>>

Resting == [step |-> "idle", notes |-> <<>>, allocations |-> <<>>, principal |-> 0, todo |-> {},
            source |-> None, plan |-> <<>>, filled |-> {}]

ServerSteps == {"idle", "backing", "choosing", "claiming", "matching", "finalizing"}

OrdersTypeOK ==
  /\ \A o \in DOMAIN orders : orders[o].status \in {"open", "cancelled", "filled", "partially-filled"}
  /\ \A p \in DOMAIN positions : positions[p].status \in {"open", "closed", "liquidated"}
  /\ DOMAIN saved \subseteq DOMAIN positions
  /\ server.step \in ServerSteps /\ server.todo \subseteq Orders
  /\ \A p \in DOMAIN closing : p \in DOMAIN positions /\ closing[p] \in {"inserted", "stored"}
  /\ \A n \in DOMAIN notes : notes[n].status \in NoteStatuses /\ notes[n].amount > 0
  /\ mishaps \in 0..MaxMishaps

OrdersInit ==
  /\ notes = <<>> /\ allocations = <<>>
  /\ orders = <<>> /\ positions = <<>> /\ saved = <<>>
  /\ server = Resting /\ closing = <<>>
  /\ inPool = {} /\ spentNotes = {} /\ ended = {}
  /\ mishaps = 0

Mishap == mishaps < MaxMishaps /\ mishaps' = mishaps + 1

Fault(outcome) == IF outcome = "done" THEN UNCHANGED mishaps ELSE Mishap

IsMaker(o) == orders[o].owner = "maker"

IsOpen(o) == o \in DOMAIN orders /\ orders[o].status = "open"

Submitted(os, o, owner, terms, note) ==
  [p \in DOMAIN os \cup {o} |->
     IF p = o THEN [owner |-> owner, side |-> terms.side, limit |-> terms.limit, size |-> terms.size,
                    margin |-> terms.margin, note |-> note, status |-> "open",
                    sequence |-> Cardinality(DOMAIN os) + 1]
     ELSE os[p]]

-----------------------------------------------------------------------------
(* Clients.                                                                *)

Submit(o) ==
  /\ o \notin DOMAIN orders
  /\ orders' = Submitted(orders, o, "client", Terms[o], o)
  /\ UNCHANGED <<notes, allocations, positions, saved, server, closing, poolVars, mishaps>>

Cancel(o) ==
  /\ IsOpen(o)
  /\ orders' = [orders EXCEPT ![o].status = "cancelled"]
  /\ UNCHANGED <<notes, allocations, positions, saved, server, closing, poolVars, mishaps>>

-----------------------------------------------------------------------------
(* Answering the open orders of clients.                                   *)

\* A locked note whose source order is no longer open and whose own order did
\* not trade.
Orphaned(n) ==
  /\ notes[n].status = "locked"
  /\ ~IsOpen(notes[n].source)
  /\ notes[n].by \in DOMAIN orders => orders[notes[n].by].status # "filled"

\* An order that traded in part was rolled over and is not cancelled.
IsRolledOver(o) == o \in DOMAIN orders /\ orders[o].status = "partially-filled"

CancelledFor(ns) ==
  [o \in DOMAIN orders |-> IF \E n \in ns : notes[n].by = o
                           THEN [orders[o] EXCEPT !.status = "cancelled"] ELSE orders[o]]

\* The run begins: orphaned notes are freed, their orders cancelled in the
\* store, the notes read, and the clients' open orders listed.  An orphan whose
\* order cannot be cancelled ends the run before a note is written.
StartRun ==
  LET orphans == {n \in DOMAIN notes : Orphaned(n)}
      stuck   == {n \in orphans : IsRolledOver(notes[n].by)}
      freed   == [n \in DOMAIN notes |-> IF n \in orphans THEN Unlocked(notes, n)[n] ELSE notes[n]]
      clients == {o \in Orders : IsOpen(o)}
  IN  /\ server.step = "idle"
      /\ IF stuck = {}
         THEN /\ notes' = freed /\ orders' = CancelledFor(orphans)
              /\ server' = [Resting EXCEPT !.step = IF clients = {} THEN "matching" ELSE "backing",
                                           !.notes = IF clients = {} THEN <<>> ELSE freed, !.todo = clients]
         ELSE \E seen \in SUBSET (orphans \ stuck) :
                orders' = CancelledFor(seen) /\ UNCHANGED <<notes, server>>
      /\ UNCHANGED <<allocations, positions, saved, closing, poolVars, mishaps>>

ReadBacking(principal) ==
  /\ server.step = "backing"
  /\ server' = [server EXCEPT !.step = "choosing", !.allocations = allocations, !.principal = principal]
  /\ UNCHANGED <<notes, allocations, bookVars, closing, poolVars, mishaps>>

\* The next open order that no locked note answers is given a plan.
ChooseNotes(o) ==
  /\ server.step = "choosing" /\ server.plan = <<>> /\ o \in server.todo
  /\ server' = [server EXCEPT
       !.todo = @ \ {o}, !.source = o,
       !.plan = IF HasMakerFor(server.notes, o) THEN <<>>
                ELSE Selection(server.notes, Eligible(server.notes, server.allocations, server.principal),
                               Terms[o].margin, Terms[o].size)]
  /\ UNCHANGED <<notes, allocations, bookVars, closing, poolVars, mishaps>>

AllAnswered ==
  /\ server.step = "choosing" /\ server.plan = <<>> /\ server.todo = {}
  /\ server' = [Resting EXCEPT !.step = "matching"]
  /\ UNCHANGED <<notes, allocations, bookVars, closing, poolVars, mishaps>>

NextPart == [server EXCEPT !.step = "choosing", !.plan = Tail(@)]

\* The order is proved; then its allocation is looked up, and after that the
\* note claimed.
FindAllocation ==
  /\ server.step = "choosing" /\ server.plan # <<>>
  /\ server' = IF allocations[notes[Head(server.plan).note].allocation].status = "outstanding"
               THEN [server EXCEPT !.step = "claiming"]
               ELSE NextPart
  /\ UNCHANGED <<notes, allocations, bookVars, closing, poolVars, mishaps>>

\* Variant of IsClaimable: any note that no order of its own holds.
IsClaimable_Unlocked(n) == n \in DOMAIN notes /\ notes[n].status # "locked"

IsClaimable(n) == n \in DOMAIN notes /\ notes[n].status = "available"

Opposite(side) == IF side = "long" THEN "short" ELSE "long"

\* A claimed note stays locked when its order cannot be registered: a run
\* frees it once its source is no longer open.
ClaimNote(outcome) ==
  LET part  == Head(server.plan)
      n     == part.note
      o     == server.source
      order == <<o, n>>
      terms == [side |-> Opposite(Terms[o].side), limit |-> Terms[o].limit,
                size |-> part.size, margin |-> part.margin]
  IN  /\ server.step = "claiming"
      /\ IF ~IsClaimable(n)
         THEN outcome = "done" /\ server' = NextPart /\ UNCHANGED <<notes, orders>>
         ELSE /\ notes' = Locked(notes, n, order, o)
              /\ IF outcome = "done"
                 THEN /\ orders' = Submitted(orders, order, "maker", terms, n)
                      /\ server' = [NextPart EXCEPT !.notes = Locked(@, n, order, o)]
                 ELSE orders' = orders /\ server' = Resting
      /\ Fault(outcome)
      /\ UNCHANGED <<allocations, positions, saved, closing, poolVars>>

-----------------------------------------------------------------------------
(* The batch.                                                              *)

OpenInSequence ==
  SetToSortSeq({o \in DOMAIN orders : IsOpen(o)},
               LAMBDA a, b : orders[a].sequence < orders[b].sequence)

RestOf(o) == <<"rest", o>>

\* The two positions of execution k of a match, numbered on from those there.
PositionsOf(ids, match) ==
  LET first == Cardinality(DOMAIN positions) \div 2
      opened(k, side) ==
        LET e == match.executions[k]
        IN  [order  |-> ids[IF side = "long" THEN e.long ELSE e.short],
             margin |-> IF side = "long" THEN e.longMargin ELSE e.shortMargin,
             status |-> "open"]
  IN  [p \in {<<first + k, side>> : k \in DOMAIN match.executions, side \in {"long", "short"}} |->
         opened(p[1] - first, p[2])]

\* Only a settlement whose orders are all still open is committed.
Settle(ids, match) ==
  LET place(o) == CHOOSE k \in DOMAIN ids : ids[k] = o
      filled  == {o \in DOMAIN orders : IsOpen(o) /\ \E k \in FilledOrders(match) : ids[k] = o}
      partial == {o \in filled : place(o) \in DOMAIN match.residuals}
      after   == [o \in DOMAIN orders |->
                    IF o \notin filled THEN orders[o]
                    ELSE [orders[o] EXCEPT !.status = IF o \in partial THEN "partially-filled" ELSE "filled"]]
      rests   == [r \in {RestOf(o) : o \in partial} |->
                    LET residual == match.residuals[place(r[2])]
                        rolled   == orders[r[2]]
                    IN  [owner |-> rolled.owner, side |-> rolled.side, limit |-> rolled.limit,
                         size |-> residual.size, margin |-> residual.margin, note |-> residual.note,
                         status |-> "open", sequence |-> rolled.sequence]]
      makers  == {o \in filled : IsMaker(o)}
  IN  /\ orders' = Joined(after, rests)
      /\ positions' = Joined(positions, PositionsOf(ids, match))
      /\ spentNotes' = spentNotes \cup {orders[o].note : o \in makers}
      /\ inPool' = inPool \cup {ChangeOf(orders[o].note, notes[orders[o].note].source) :
                                  o \in {m \in makers : /\ orders[m].note \in DOMAIN notes
                                                        /\ notes[orders[m].note].amount > orders[m].margin}}
      /\ server' = [Resting EXCEPT !.step = "finalizing", !.filled = filled]

MatchBatch ==
  LET ids  == OpenInSequence
      book == [k \in DOMAIN ids |-> orders[ids[k]]]
  IN  /\ server.step = "matching"
      /\ IF Refusal(book) = "" THEN Settle(ids, Match(book))
         ELSE server' = Resting /\ UNCHANGED <<orders, positions, spentNotes, inPool>>
      /\ UNCHANGED <<notes, allocations, saved, closing, ended, mishaps>>

\* The notes of the orders that traded are spent and their change is kept.
FinalizeSettlement ==
  LET traded == {n \in DOMAIN notes : notes[n].by # None /\ notes[n].by \in server.filled}
      hasChange(n) == notes[n].source # None /\ notes[n].amount > orders[notes[n].by].margin
      spent  == [n \in DOMAIN notes |->
                   IF n \in traded THEN [notes[n] EXCEPT !.status = "spent"] ELSE notes[n]]
      change == [c \in {ChangeOf(n, notes[n].source) : n \in {m \in traded : hasChange(m)}} |->
                   ChangeNote(notes, c[2], orders[notes[c[2]].by].margin)]
  IN  /\ server.step = "finalizing"
      /\ notes' = Joined(spent, change)
      /\ server' = Resting
      /\ UNCHANGED <<allocations, bookVars, closing, poolVars, mishaps>>

\* The store is saved in the background and at the end of a run.
Flush ==
  /\ saved # positions
  /\ saved' = positions
  /\ UNCHANGED <<notes, allocations, orders, positions, server, closing, poolVars, mishaps>>

\* A crash that loses what was not saved is left to BatchPipeline.
ServerCrashes ==
  /\ server.step # "idle" \/ closing # <<>>
  /\ saved = positions /\ Mishap
  /\ server' = Resting /\ closing' = <<>>
  /\ UNCHANGED <<notes, allocations, bookVars, poolVars>>

-----------------------------------------------------------------------------
(* Closing a trader's position with the vault's.                           *)

PairOf(p) == <<p[1], Opposite(p[2])>>

IsMakerPosition(ps, p) == p \in DOMAIN ps /\ IsMaker(ps[p].order)

Without(f, p) == [q \in DOMAIN f \ {p} |-> f[q]]

\* The note that a position of the vault was opened with.
NotesBehind(p) ==
  {n \in DOMAIN notes : /\ notes[n].status = "spent" /\ ~notes[n].recovered
                        /\ notes[n].by = positions[p].order}

\* Every refusal of vaultMakerPairForTrader and of the insertion: the pair must
\* be open, opened with one note of an open allocation, and not be closing.
CanCloseWithPair(p) ==
  LET q == PairOf(p)
  IN  /\ p \in DOMAIN positions /\ ~IsMakerPosition(positions, p) /\ positions[p].status = "open"
      /\ IsMakerPosition(positions, q) /\ positions[q].status = "open"
      /\ Cardinality(NotesBehind(q)) = 1
      /\ \A n \in NotesBehind(q) :
           /\ allocations[notes[n].allocation].status # "closed"
           /\ Rooted(notes, allocations, n)
           /\ positions[q].margin <= notes[n].amount
      /\ OutputOf(q) \notin DOMAIN notes

PrepareClose(p, out) ==
  LET q == PairOf(p)
      n == CHOOSE m \in NotesBehind(q) : TRUE
  IN  /\ CanCloseWithPair(p) /\ p \notin DOMAIN closing
      /\ notes' = Stored(notes, OutputOf(q),
                    [NewNote(out, notes[n].allocation) EXCEPT !.parent = n, !.closes = q])
      /\ closing' = Stored(closing, p, "inserted")
      /\ UNCHANGED <<allocations, bookVars, server, poolVars, mishaps>>

\* The pair is settled in one transaction and recorded; or it is refused and
\* the output forgotten; or it lands unreported, or nobody knows, and the
\* output is kept; or it lands after the output was forgotten.
RelayClose(p, outcome) ==
  LET pair   == {p, PairOf(p)}
      output == OutputOf(PairOf(p))
      landed == outcome \in {"done", "unreported", "late"}
  IN  /\ p \in DOMAIN closing /\ closing[p] = "inserted"
      /\ landed => pair \cap ended = {}
      /\ outcome = "done" => \A q \in pair : positions[q].status = "open"
      /\ ended' = IF landed THEN ended \cup pair ELSE ended
      /\ inPool' = IF landed THEN inPool \cup {output} ELSE inPool
      /\ positions' = IF outcome = "done"
                      THEN [q \in DOMAIN positions |->
                              IF q \in pair THEN [positions[q] EXCEPT !.status = "closed"] ELSE positions[q]]
                      ELSE positions
      /\ closing' = IF outcome = "done" THEN [closing EXCEPT ![p] = "stored"] ELSE Without(closing, p)
      /\ notes' = IF outcome \in {"refused", "late"} THEN Without(notes, output) ELSE notes
      /\ Fault(outcome)
      /\ UNCHANGED <<allocations, orders, saved, server, spentNotes>>

\* After the flush; the manager may have been faster.
FinalizeClose(p) ==
  LET output == OutputOf(PairOf(p))
  IN  /\ p \in DOMAIN closing /\ closing[p] = "stored" /\ saved = positions
      /\ closing' = Without(closing, p)
      /\ notes' = IF notes[output].status = "pending" THEN FinalizedOutput(notes, output) ELSE notes
      /\ UNCHANGED <<allocations, bookVars, server, poolVars, mishaps>>

\* A liquidation ends one position of a pair and leaves the other.
Liquidate(p) ==
  /\ p \in DOMAIN positions \ ended /\ positions[p].status = "open" /\ Mishap
  /\ positions' = [positions EXCEPT ![p].status = "liquidated"]
  /\ ended' = ended \cup {p}
  /\ UNCHANGED <<notes, allocations, orders, saved, server, closing, inPool, spentNotes>>

CloseOutcomes == {"done", "refused", "unreported", "unknown", "late"}

OrderStep(principal) ==
  \/ \E o \in Orders : Submit(o) \/ Cancel(o) \/ ChooseNotes(o)
  \/ StartRun \/ ReadBacking(principal) \/ AllAnswered \/ FindAllocation
  \/ \E outcome \in {"done", "failed"} : ClaimNote(outcome)
  \/ MatchBatch \/ FinalizeSettlement \/ Flush \/ ServerCrashes
  \/ \E p \in DOMAIN positions :
       \/ \E out \in Outs : PrepareClose(p, out)
       \/ \E outcome \in CloseOutcomes : RelayClose(p, outcome)
       \/ FinalizeClose(p) \/ Liquidate(p)

=============================================================================
