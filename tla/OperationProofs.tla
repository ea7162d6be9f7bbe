--------------------------- MODULE OperationProofs ---------------------------
(***************************************************************************)
(* Proofs about what works beside the server, for any orders, amounts,     *)
(* jobs and circuits: the notes that the vault maker's open orders rest on *)
(* are reserved for them; what a matching job answers was proved; a        *)
(* deployment that is recorded is wired; and what the trade ticket sizes   *)
(* the matcher trades.                                                     *)
(***************************************************************************)
EXTENDS VaultManager, MatcherJobs, Deployment, OrderSizing, FiniteSums, SequenceTheorems,
        FiniteSetTheorems, TLAPS

-----------------------------------------------------------------------------
(* The invariant.                                                          *)

NoteFields  == {"amount", "status", "allocation", "by", "source", "recovered", "closed", "settled"}
OrderFields == {"owner", "note", "status"}

\* The fields that the steps read, which are those that every write gives.
ShapesOK ==
  /\ \A n \in DOMAIN notes : NoteFields \subseteq DOMAIN notes[n]
  /\ \A o \in DOMAIN orders : OrderFields \subseteq DOMAIN orders[o]
  /\ DOMAIN server = DOMAIN Resting /\ DOMAIN mgr = DOMAIN Off

\* A note that came out of a position is never traded with; what is spent and
\* no note of the maker's came out of a position or was rolled over; a maker
\* order rests on a note of the maker's that it may trade with, or on what was
\* rolled over.
NamesOK ==
  /\ \A n \in DOMAIN notes : n[1] \in {"deposit", "change", "output"}
  /\ \A n \in DOMAIN notes : notes[n].status \in {"available", "locked"} => n[1] # "output"
  /\ \A n \in spentNotes : n \in DOMAIN notes \/ n[1] \in {"output", "rest"}
  /\ \A o \in DOMAIN orders : IsMaker(o) =>
       \/ orders[o].note \in DOMAIN notes /\ orders[o].note[1] # "output"
       \/ orders[o].note[1] = "rest"

Traded(os, o) == o \in DOMAIN os /\ os[o].status \in {"filled", "partially-filled"}

\* A note that is free is not spent, and a locked one only by its own order; the
\* orders that a run has settled are not open.
LocksOK ==
  /\ \A n \in DOMAIN notes : notes[n].status = "available" => n \notin spentNotes
  /\ \A n \in DOMAIN notes : notes[n].status = "locked" =>
       notes[n].by[2] = n /\ (n \in spentNotes => Traded(orders, notes[n].by))
  /\ server.step = "finalizing" => \A o \in server.filled : Traded(orders, o)

NoteInv == ReservedOnce /\ ShapesOK /\ NamesOK /\ LocksOK

\* A note that the manager takes away is no longer traded with.
Retired(n) ==
  \/ n[1] = "output"
  \/ n \in DOMAIN notes /\ notes[n].status \in {"draining", "withdrawing", "spent"}

\* The note of a deposit, before the deposit landed.
Unlanded(n) ==
  /\ n \in DOMAIN notes /\ n[1] = "deposit" /\ n \notin spentNotes
  /\ notes[n].status = "pending" /\ notes[n].by = None

\* What a pass withdraws is retired; an allocation is named by its funding
\* interval, and so is its deposit, which is not there before it is prepared.
PassOK ==
  /\ \A n \in mgr.queue : Retired(n)
  /\ mgr.step \in {"withdrawal", "recovering"} => mgr.note \in mgr.queue
  /\ mgr.step \in {"recording", "depositing"} =>
       mgr.alloc \in Nat /\ mgr.alloc <= funded /\ Deposited(mgr.alloc) \notin DOMAIN notes
  /\ mgr.step = "landing" => Unlanded(mgr.note)

IntervalsOK ==
  /\ mgr.epoch \in Nat /\ clock \in Nat /\ funded \in Nat
  /\ \A a \in DOMAIN allocations : a \in Nat /\ a <= funded
  /\ \A n \in DOMAIN notes : n[1] = "deposit" =>
       n[2] \in Nat /\ n[2] <= funded /\ notes[n].allocation = n[2]

ReservationInv == NoteInv /\ PassOK /\ IntervalsOK

-----------------------------------------------------------------------------
(* Steps of the server.                                                    *)

\* Steps that touch neither notes nor orders.
LEMMA NotesLeftAlone ==
    ASSUME NoteInv, UNCHANGED <<notes, orders, spentNotes>>, ShapesOK',
           server'.step # "finalizing" \/ server' = server
    PROVE  NoteInv'
<1>1. UNCHANGED <<notes, orders, spentNotes>>
  OBVIOUS
<1>2. ReservedOnce'
  BY <1>1 DEF NoteInv, ReservedOnce, IsMaker, IsOpen
<1>3. NamesOK'
  BY <1>1 DEF NoteInv, NamesOK, IsMaker
<1>4. LocksOK'
  BY <1>1 DEF NoteInv, LocksOK, Traded
<1> QED BY <1>2, <1>3, <1>4 DEF NoteInv

LEMMA SubmitReserves ==
    ASSUME NoteInv, NEW o \in Orders, Submit(o), UNCHANGED mgr
    PROVE  NoteInv'
<1> USE DEF NoteInv, Submit, Submitted
<1>1. ShapesOK'
  BY DEF ShapesOK, OrderFields
<1>2. ReservedOnce'
  BY DEF ReservedOnce, IsMaker, IsOpen, ShapesOK, poolVars
<1>3. NamesOK'
  BY DEF NamesOK, IsMaker, poolVars
<1>4. LocksOK'
  BY DEF LocksOK, Traded, poolVars
<1> QED BY <1>1, <1>2, <1>3, <1>4

LEMMA CancelReserves ==
    ASSUME NoteInv, NEW o \in Orders, Cancel(o), UNCHANGED mgr
    PROVE  NoteInv'
<1> USE DEF NoteInv, Cancel
<1>1. ShapesOK'
  BY DEF ShapesOK, OrderFields
<1>2. ReservedOnce'
  BY DEF ReservedOnce, IsMaker, IsOpen, ShapesOK, OrderFields, poolVars
<1>3. NamesOK'
  BY DEF NamesOK, IsMaker, ShapesOK, OrderFields, poolVars
<1>4. LocksOK'
  BY DEF LocksOK, Traded, IsOpen, ShapesOK, OrderFields, poolVars
<1> QED BY <1>1, <1>2, <1>3, <1>4

\* Steps of a run that only read, the flush of the store, and a crash.
LEMMA ReadingReserves ==
    ASSUME NoteInv, UNCHANGED mgr,
           \/ \E out : ReadBacking(out)
           \/ \E o : ChooseNotes(o)
           \/ AllAnswered \/ FindAllocation \/ Flush \/ ServerCrashes
    PROVE  NoteInv'
<1>1. UNCHANGED <<notes, orders, spentNotes>>
  BY DEF ReadBacking, ChooseNotes, AllAnswered, FindAllocation, Flush, ServerCrashes, bookVars, poolVars
<1>2. DOMAIN server' = DOMAIN server \/ server' = Resting \/ server' = [Resting EXCEPT !.step = "matching"]
  BY DEF ReadBacking, ChooseNotes, AllAnswered, FindAllocation, NextPart, Flush, ServerCrashes
<1>3. ShapesOK'
  BY <1>1, <1>2 DEF NoteInv, ShapesOK, Resting
<1>4. server'.step # "finalizing" \/ server' = server
  <2> USE DEF NoteInv, ShapesOK, Resting
  <2>1. CASE \E out : ReadBacking(out)
    BY <2>1 DEF ReadBacking
  <2>2. CASE \E o : ChooseNotes(o)
    BY <2>2 DEF ChooseNotes
  <2>3. CASE FindAllocation
    BY <2>3 DEF FindAllocation, NextPart
  <2> QED BY <2>1, <2>2, <2>3 DEF AllAnswered, Flush, ServerCrashes
<1> QED BY <1>1, <1>3, <1>4, NotesLeftAlone

\* An orphan was not traded with, and an order that a note is taken from is
\* cancelled with it.
LEMMA StartRunReserves ==
    ASSUME NoteInv, StartRun, UNCHANGED mgr
    PROVE  NoteInv'
<1> DEFINE orphans == {n \in DOMAIN notes : Orphaned(n)}
           stuck   == {n \in orphans : IsRolledOver(notes[n].by)}
           freed   == [n \in DOMAIN notes |-> IF n \in orphans THEN Unlocked(notes, n)[n] ELSE notes[n]]
<1>1. PICK seen \in SUBSET orphans :
        /\ orders' = CancelledFor(seen)
        /\ \A n \in seen : ~IsRolledOver(notes[n].by)
        /\ notes' = notes \/ (notes' = freed /\ seen = orphans)
  <2>1. CASE stuck = {}
    <3>1. notes' = freed /\ orders' = CancelledFor(orphans)
      BY <2>1 DEF StartRun
    <3> QED BY <2>1, <3>1
  <2>2. CASE stuck # {}
    <3>1. \E seen \in SUBSET (orphans \ stuck) : orders' = CancelledFor(seen) /\ notes' = notes
      BY <2>2 DEF StartRun
    <3> QED BY <3>1
  <2> QED BY <2>1, <2>2
<1>2. UNCHANGED spentNotes /\ server'.step # "finalizing" /\ DOMAIN server' = DOMAIN server
  BY DEF StartRun, poolVars, Resting, NoteInv, ShapesOK
<1>3. /\ DOMAIN notes' = DOMAIN notes
      /\ \A n \in DOMAIN notes : DOMAIN notes'[n] = DOMAIN notes[n]
      /\ \A n \in DOMAIN notes : notes'[n] # notes[n] =>
           n \in orphans /\ n \in seen /\ notes'[n].status = "available"
  <2>1. \A n \in DOMAIN notes : {"status", "by", "source"} \subseteq DOMAIN notes[n]
    BY DEF NoteInv, ShapesOK, NoteFields
  <2>2. CASE notes' = freed /\ seen = orphans
    <3>1. \A n \in DOMAIN notes : n \in orphans =>
            DOMAIN freed[n] = DOMAIN notes[n] /\ freed[n].status = "available"
      BY <2>1 DEF Unlocked
    <3>2. \A n \in DOMAIN notes : n \notin orphans => freed[n] = notes[n]
      OBVIOUS
    <3> HIDE DEF orphans
    <3> QED BY <2>2, <3>1, <3>2
  <2> QED BY <1>1, <2>2
<1>4. /\ DOMAIN orders' = DOMAIN orders
      /\ \A o \in DOMAIN orders : /\ DOMAIN orders'[o] = DOMAIN orders[o]
                                  /\ orders'[o].owner = orders[o].owner
                                  /\ orders'[o].note = orders[o].note
      /\ \A o \in DOMAIN orders : orders'[o] # orders[o] =>
           orders'[o].status = "cancelled" /\ \E n \in seen : notes[n].by = o
      /\ \A n \in seen : notes[n].by \in DOMAIN orders => orders'[notes[n].by].status = "cancelled"
  BY <1>1 DEF CancelledFor, NoteInv, ShapesOK, OrderFields
<1>5. \A n \in seen : n \in DOMAIN notes /\ notes[n].status = "locked" /\ ~Traded(orders, notes[n].by)
  BY <1>1 DEF Orphaned, IsRolledOver, Traded
<1>6. \A n \in seen : n \notin spentNotes /\ notes[n].by[2] = n
  BY <1>5 DEF NoteInv, LocksOK
<1> HIDE DEF orphans, stuck, freed
<1>7. ShapesOK'
  BY <1>2, <1>3, <1>4 DEF NoteInv, ShapesOK
<1>8. ReservedOnce'
  <2> SUFFICES ASSUME NEW o \in DOMAIN orders', IsMaker(o)', IsOpen(o)', orders'[o].note \in DOMAIN notes'
               PROVE  LET n == orders'[o].note
                      IN  notes'[n].status = "locked" /\ notes'[n].by = o /\ n \notin spentNotes'
    BY DEF ReservedOnce
  <2>1. orders'[o] = orders[o]
    BY <1>4 DEF IsOpen
  <2>2. LET n == orders[o].note
        IN  n \in DOMAIN notes /\ notes[n].status = "locked" /\ notes[n].by = o /\ n \notin spentNotes
    BY <1>3, <1>4, <2>1 DEF NoteInv, ReservedOnce, IsMaker, IsOpen
  <2>3. orders[o].note \notin seen
    BY <1>4, <2>1, <2>2 DEF IsOpen
  <2> QED BY <1>2, <1>3, <2>1, <2>2, <2>3
<1>9. NamesOK'
  <2>1. \A n \in DOMAIN notes : notes'[n].status \in {"available", "locked"} => n[1] # "output"
    BY <1>3, <1>5 DEF NoteInv, NamesOK
  <2> QED BY <1>2, <1>3, <1>4, <2>1 DEF NoteInv, NamesOK, IsMaker
<1>10. LocksOK'
  <2>1. ASSUME NEW n \in DOMAIN notes', notes'[n].status = "locked"
        PROVE  notes'[n].by[2] = n /\ (n \in spentNotes' => Traded(orders', notes'[n].by))
    <3>1. notes'[n] = notes[n]
      BY <1>3, <2>1
    <3>2. notes[n].by[2] = n /\ (n \in spentNotes => Traded(orders, notes[n].by))
      BY <1>3, <2>1, <3>1 DEF NoteInv, LocksOK
    <3>3. ASSUME n \in spentNotes PROVE orders'[notes[n].by] = orders[notes[n].by]
      BY <1>4, <1>5, <1>6, <3>2, <3>3 DEF Traded
    <3> QED BY <1>2, <1>4, <3>1, <3>2, <3>3 DEF Traded
  <2>2. ASSUME NEW n \in DOMAIN notes', notes'[n].status = "available" PROVE n \notin spentNotes'
    BY <1>2, <1>3, <1>6, <2>2 DEF NoteInv, LocksOK
  <2> QED BY <1>2, <2>1, <2>2 DEF LocksOK
<1> QED BY <1>7, <1>8, <1>9, <1>10 DEF NoteInv

\* A claimed note was free: nobody else's order rests on it.
LEMMA ClaimReserves ==
    ASSUME NoteInv, NEW outcome, ClaimNote(outcome), UNCHANGED mgr
    PROVE  NoteInv'
<1> DEFINE n == Head(server.plan).note
           order == <<server.source, n>>
<1>1. UNCHANGED spentNotes
  BY DEF ClaimNote, poolVars
<1>2. server'.step # "finalizing" /\ DOMAIN server' = DOMAIN server
  <2>1. \/ server' = NextPart \/ server' = Resting
        \/ server' = [NextPart EXCEPT !.notes = Locked(@, n, order, server.source)]
    BY DEF ClaimNote
  <2>2. DOMAIN server = {"step", "notes", "allocations", "principal", "todo", "source", "plan", "filled"}
    BY DEF NoteInv, ShapesOK, Resting
  <2>3. NextPart.step = "choosing" /\ DOMAIN NextPart = DOMAIN server
    BY <2>2 DEF NextPart
  <2> HIDE DEF order, n
  <2> QED BY <2>1, <2>2, <2>3 DEF Resting
<1>3. CASE UNCHANGED <<notes, orders>>
  <2>1. ShapesOK'
    BY <1>2, <1>3 DEF NoteInv, ShapesOK
  <2> QED BY <1>1, <1>2, <1>3, <2>1, NotesLeftAlone
<1>4. CASE /\ IsClaimable(n) /\ notes' = Locked(notes, n, order, server.source)
           /\ \/ orders' = orders
              \/ \E terms : orders' = Submitted(orders, order, "maker", terms, n)
  <2> HIDE DEF n
  <2>1. /\ DOMAIN notes' = DOMAIN notes /\ n \in DOMAIN notes
        /\ \A m \in DOMAIN notes : DOMAIN notes'[m] = DOMAIN notes[m]
        /\ \A m \in DOMAIN notes : m # n => notes'[m] = notes[m]
        /\ notes[n].status = "available" /\ notes'[n].status = "locked" /\ notes'[n].by = order
    BY <1>4 DEF Locked, IsClaimable, NoteInv, ShapesOK, NoteFields
  <2>2. /\ \A o \in DOMAIN orders' \ {order} : o \in DOMAIN orders /\ orders'[o] = orders[o]
        /\ \A o \in DOMAIN orders \ {order} : o \in DOMAIN orders'
        /\ orders' # orders =>
             /\ order \in DOMAIN orders' /\ OrderFields \subseteq DOMAIN orders'[order]
             /\ orders'[order].note = n
    BY <1>4 DEF Submitted, OrderFields
  <2>3. n \notin spentNotes /\ n[1] # "output" /\ order[2] = n
    BY <2>1 DEF NoteInv, LocksOK, NamesOK
  <2> HIDE DEF order
  <2>4. ShapesOK'
    BY <1>2, <2>1, <2>2 DEF NoteInv, ShapesOK
  <2>5. ReservedOnce'
    <3> SUFFICES ASSUME NEW o \in DOMAIN orders', IsMaker(o)', IsOpen(o)', orders'[o].note \in DOMAIN notes'
                 PROVE  LET m == orders'[o].note
                        IN  notes'[m].status = "locked" /\ notes'[m].by = o /\ m \notin spentNotes'
      BY DEF ReservedOnce
    <3>1. CASE o = order /\ orders' # orders
      BY <1>1, <2>1, <2>2, <2>3, <3>1
    <3>2. CASE ~(o = order /\ orders' # orders)
      <4>1. o \in DOMAIN orders /\ orders'[o] = orders[o]
        BY <2>2, <3>2
      <4>2. LET m == orders[o].note
            IN  notes[m].status = "locked" /\ notes[m].by = o /\ m \notin spentNotes
        BY <2>1, <4>1 DEF NoteInv, ReservedOnce, IsMaker, IsOpen
      <4> QED BY <1>1, <2>1, <4>1, <4>2
    <3> QED BY <3>1, <3>2
  <2>6. NamesOK'
    <3>1. \A o \in DOMAIN orders' : IsMaker(o)' =>
            \/ orders'[o].note \in DOMAIN notes' /\ orders'[o].note[1] # "output"
            \/ orders'[o].note[1] = "rest"
      BY <2>1, <2>2, <2>3 DEF NoteInv, NamesOK, IsMaker
    <3> QED BY <1>1, <2>1, <2>3, <3>1 DEF NoteInv, NamesOK
  <2>7. LocksOK'
    <3>1. ASSUME NEW m \in DOMAIN notes', notes'[m].status = "locked"
          PROVE  notes'[m].by[2] = m /\ (m \in spentNotes' => Traded(orders', notes'[m].by))
      <4>1. CASE m = n
        BY <1>1, <2>1, <2>3, <4>1
      <4>2. CASE m # n
        <5>1. notes'[m] = notes[m] /\ notes[m].by[2] = m /\ (m \in spentNotes => Traded(orders, notes[m].by))
          BY <2>1, <3>1, <4>2 DEF NoteInv, LocksOK
        <5>2. notes[m].by # order
          BY <2>3, <4>2, <5>1
        <5> QED BY <1>1, <2>2, <5>1, <5>2 DEF Traded
      <4> QED BY <4>1, <4>2
    <3>2. ASSUME NEW m \in DOMAIN notes', notes'[m].status = "available" PROVE m \notin spentNotes'
      BY <1>1, <2>1, <3>2 DEF NoteInv, LocksOK
    <3> QED BY <1>2, <3>1, <3>2 DEF LocksOK
  <2> QED BY <2>4, <2>5, <2>6, <2>7 DEF NoteInv
<1>5. \/ UNCHANGED <<notes, orders>>
      \/ /\ IsClaimable(n) /\ notes' = Locked(notes, n, order, server.source)
         /\ \/ orders' = orders
            \/ \E terms : orders' = Submitted(orders, order, "maker", terms, n)
  BY DEF ClaimNote
<1> QED BY <1>3, <1>4, <1>5

\* What a batch rolls over is no note of the maker's.
LEMMA RolledOver ==
    ASSUME NEW picked, NEW k \in DOMAIN Match(picked).residuals
    PROVE  Match(picked).residuals[k].note[1] = "rest"
<1>1. Match(picked).residuals = ResidualsOf(picked, Crossing(picked))
  BY DEF Match
<1> QED BY <1>1 DEF ResidualsOf

\* The notes that a settlement spends are the filled orders', which are open no
\* more.
LEMMA SettleReserves ==
    ASSUME NoteInv, NEW ids, NEW picked, Settle(ids, Match(picked)), UNCHANGED <<notes, mgr>>
    PROVE  NoteInv'
<1> DEFINE match == Match(picked)
           place(o) == CHOOSE k \in DOMAIN ids : ids[k] = o
           filled  == {o \in DOMAIN orders : IsOpen(o) /\ \E k \in FilledOrders(match) : ids[k] = o}
           partial == {o \in filled : place(o) \in DOMAIN match.residuals}
           after   == [o \in DOMAIN orders |->
                         IF o \notin filled THEN orders[o]
                         ELSE [orders[o] EXCEPT !.status = IF o \in partial THEN "partially-filled" ELSE "filled"]]
           restOf(r) == LET residual == match.residuals[place(r[2])]
                            rolled   == orders[r[2]]
                        IN  [owner |-> rolled.owner, side |-> rolled.side, limit |-> rolled.limit,
                             size |-> residual.size, margin |-> residual.margin, note |-> residual.note,
                             status |-> "open", sequence |-> rolled.sequence]
           rests   == [r \in {RestOf(o) : o \in partial} |-> restOf(r)]
           makers  == {o \in filled : IsMaker(o)}
<1>1. /\ orders' = Joined(after, rests)
      /\ spentNotes' = spentNotes \cup {orders[o].note : o \in makers}
      /\ server' = [Resting EXCEPT !.step = "finalizing", !.filled = filled]
  BY DEF Settle
<1>2. \A o \in filled : o \in DOMAIN orders /\ orders[o].status = "open"
  BY DEF IsOpen
<1>3. \A r \in DOMAIN rests : /\ OrderFields \subseteq DOMAIN rests[r]
                              /\ rests[r].note[1] = "rest"
  <2> SUFFICES ASSUME NEW r \in DOMAIN rests
               PROVE  OrderFields \subseteq DOMAIN rests[r] /\ rests[r].note[1] = "rest"
    <3> HIDE DEF rests
    <3> QED OBVIOUS
  <2>0. PICK o \in partial : r = RestOf(o)
    OBVIOUS
  <2>1. RestOf(o)[2] = o /\ place(o) \in DOMAIN match.residuals
    BY DEF RestOf
  <2>2. match.residuals[place(o)].note[1] = "rest"
    BY <2>1, RolledOver
  <2>3. rests[r] = restOf(RestOf(o))
    <3> HIDE DEF restOf
    <3> QED BY <2>0
  <2>4. restOf(RestOf(o)).note = match.residuals[place(o)].note
    BY <2>1
  <2> HIDE DEF rests
  <2>5. OrderFields \subseteq DOMAIN restOf(RestOf(o))
    BY DEF OrderFields
  <2> QED BY <2>2, <2>3, <2>4, <2>5
<1>4. /\ DOMAIN after = DOMAIN orders
      /\ \A o \in DOMAIN orders :
           /\ DOMAIN after[o] = DOMAIN orders[o]
           /\ after[o].owner = orders[o].owner /\ after[o].note = orders[o].note
      /\ \A o \in DOMAIN orders \ filled : after[o] = orders[o]
      /\ \A o \in filled : after[o].status \in {"filled", "partially-filled"}
  <2>1. \A o \in DOMAIN orders : OrderFields \subseteq DOMAIN orders[o]
    BY DEF NoteInv, ShapesOK
  <2> HIDE DEF partial
  <2> QED BY <2>1 DEF OrderFields
<1> HIDE DEF rests, after
<1>5. /\ DOMAIN orders \subseteq DOMAIN orders'
      /\ \A o \in DOMAIN orders : orders'[o] = after[o]
      /\ \A o \in DOMAIN orders' \ DOMAIN orders : o \in DOMAIN rests /\ orders'[o] = rests[o]
  BY <1>1, <1>4 DEF Joined
<1> HIDE DEF filled
<1>6. ASSUME NEW o \in makers, orders[o].note \in DOMAIN notes
      PROVE  notes[orders[o].note].status = "locked" /\ notes[orders[o].note].by = o
  BY <1>2, <1>6 DEF NoteInv, ReservedOnce, IsOpen
<1>7. ShapesOK'
  <2>1. \A o \in DOMAIN orders' : OrderFields \subseteq DOMAIN orders'[o]
    BY <1>3, <1>4, <1>5 DEF NoteInv, ShapesOK
  <2> QED BY <1>1, <2>1 DEF NoteInv, ShapesOK, Resting
<1>8. ReservedOnce'
  <2> SUFFICES ASSUME NEW o \in DOMAIN orders', IsMaker(o)', IsOpen(o)', orders'[o].note \in DOMAIN notes
               PROVE  LET n == orders'[o].note
                      IN  notes[n].status = "locked" /\ notes[n].by = o /\ n \notin spentNotes'
    BY DEF ReservedOnce
  <2>1. CASE o \in DOMAIN orders
    <3>1. o \notin filled /\ orders'[o] = orders[o]
      BY <1>4, <1>5, <2>1 DEF IsOpen
    <3>2. LET n == orders[o].note
          IN  notes[n].status = "locked" /\ notes[n].by = o /\ n \notin spentNotes
      BY <2>1, <3>1 DEF NoteInv, ReservedOnce, IsMaker, IsOpen
    <3> QED BY <1>1, <1>6, <3>1, <3>2
  <2>2. CASE o \notin DOMAIN orders
    BY <1>3, <1>5, <2>2 DEF NoteInv, NamesOK
  <2> QED BY <2>1, <2>2
<1>9. NamesOK'
  <2>1. \A o \in DOMAIN orders : IsMaker(o) =>
          \/ orders[o].note \in DOMAIN notes /\ orders[o].note[1] # "output"
          \/ orders[o].note[1] = "rest"
    BY DEF NoteInv, NamesOK
  <2>2. \A n \in spentNotes' : n \in DOMAIN notes \/ n[1] \in {"output", "rest"}
    BY <1>1, <1>2, <2>1 DEF NoteInv, NamesOK
  <2>3. \A o \in DOMAIN orders' : IsMaker(o)' =>
          \/ orders'[o].note \in DOMAIN notes /\ orders'[o].note[1] # "output"
          \/ orders'[o].note[1] = "rest"
    BY <1>3, <1>4, <1>5, <2>1 DEF IsMaker
  <2> QED BY <2>2, <2>3 DEF NoteInv, NamesOK
<1>10. LocksOK'
  <2>1. \A o \in filled : Traded(orders', o)
    BY <1>2, <1>4, <1>5 DEF Traded
  <2>2. \A o : Traded(orders, o) => Traded(orders', o)
    BY <1>4, <1>5, <2>1 DEF Traded
  <2>3. ASSUME NEW n \in DOMAIN notes, n \in spentNotes'
        PROVE  n \in spentNotes \/ \E o \in filled : notes[n].status = "locked" /\ notes[n].by = o
    BY <1>1, <1>6, <2>3
  <2>4. ASSUME NEW n \in DOMAIN notes', notes'[n].status = "locked"
        PROVE  notes'[n].by[2] = n /\ (n \in spentNotes' => Traded(orders', notes'[n].by))
    <3>1. notes[n].by[2] = n /\ (n \in spentNotes => Traded(orders, notes[n].by))
      BY <2>4 DEF NoteInv, LocksOK
    <3> QED BY <2>1, <2>2, <2>3, <3>1
  <2>5. ASSUME NEW n \in DOMAIN notes', notes'[n].status = "available" PROVE n \notin spentNotes'
    BY <2>3, <2>5 DEF NoteInv, LocksOK
  <2>6. server'.filled = filled
    BY <1>1 DEF Resting
  <2> QED BY <2>1, <2>4, <2>5, <2>6 DEF LocksOK
<1> QED BY <1>7, <1>8, <1>9, <1>10 DEF NoteInv

LEMMA MatchReserves ==
    ASSUME NoteInv, MatchBatch, UNCHANGED mgr
    PROVE  NoteInv'
<1> DEFINE ids  == OpenInSequence
           picked == [k \in DOMAIN ids |-> orders[ids[k]]]
<1>1. CASE Settle(ids, Match(picked))
  <2>1. notes' = notes
    BY DEF MatchBatch
  <2> HIDE DEF ids, picked
  <2> QED BY <1>1, <2>1, SettleReserves
<1>2. CASE server' = Resting /\ UNCHANGED <<orders, spentNotes>>
  <2>1. UNCHANGED <<notes, orders, spentNotes>> /\ server'.step # "finalizing"
    BY <1>2 DEF MatchBatch, Resting
  <2>2. ShapesOK'
    BY <1>2, <2>1 DEF NoteInv, ShapesOK
  <2> QED BY <2>1, <2>2, NotesLeftAlone
<1> QED BY <1>1, <1>2 DEF MatchBatch

\* The notes of the orders that traded are spent, their change is free.
LEMMA FinalizeReserves ==
    ASSUME NoteInv, FinalizeSettlement, UNCHANGED mgr
    PROVE  NoteInv'
<1> DEFINE traded == {n \in DOMAIN notes : notes[n].by # None /\ notes[n].by \in server.filled}
           hasChange(n) == notes[n].source # None /\ notes[n].amount > orders[notes[n].by].margin
           spent  == [n \in DOMAIN notes |->
                        IF n \in traded THEN [notes[n] EXCEPT !.status = "spent"] ELSE notes[n]]
           names  == {ChangeOf(n, notes[n].source) : n \in {m \in traded : hasChange(m)}}
           changeAt(c) == ChangeNote(notes, c[2], orders[notes[c[2]].by].margin)
           change == [c \in names |-> changeAt(c)]
<1>1. /\ notes' = Joined(spent, change) /\ server.step = "finalizing" /\ server' = Resting
      /\ UNCHANGED <<orders, spentNotes>>
  BY DEF FinalizeSettlement, bookVars, poolVars
<1>2. \A c : NoteFields \subseteq DOMAIN changeAt(c) /\ changeAt(c).status = "available"
  BY DEF NoteFields, ChangeNote, NewNote
<1>3. \A c \in DOMAIN change : c[1] = "change" /\ change[c] = changeAt(c)
  BY DEF ChangeOf
<1>4. /\ DOMAIN spent = DOMAIN notes
      /\ \A n \in DOMAIN notes : DOMAIN spent[n] = DOMAIN notes[n]
      /\ \A n \in DOMAIN notes \ traded : spent[n] = notes[n]
      /\ \A n \in traded : spent[n].status = "spent"
  BY DEF NoteInv, ShapesOK, NoteFields
<1>5. \A n \in traded : n \in DOMAIN notes /\ Traded(orders, notes[n].by)
  BY <1>1 DEF NoteInv, LocksOK
<1> HIDE DEF changeAt, change, spent, traded
<1>6. /\ DOMAIN notes \subseteq DOMAIN notes'
      /\ \A n \in DOMAIN notes : notes'[n] = spent[n]
      /\ \A n \in DOMAIN notes' \ DOMAIN notes : n \in DOMAIN change /\ notes'[n] = change[n]
  BY <1>1, <1>4 DEF Joined
<1>7. \A n \in DOMAIN notes' \ DOMAIN notes :
        /\ NoteFields \subseteq DOMAIN notes'[n] /\ notes'[n].status = "available"
        /\ n[1] = "change" /\ n \notin spentNotes
  BY <1>2, <1>3, <1>6 DEF NoteInv, NamesOK
<1>8. ShapesOK'
  BY <1>1, <1>4, <1>6, <1>7 DEF NoteInv, ShapesOK
<1>9. ReservedOnce'
  <2> SUFFICES ASSUME NEW o \in DOMAIN orders, IsMaker(o), IsOpen(o), orders[o].note \in DOMAIN notes'
               PROVE  LET n == orders[o].note
                      IN  notes'[n].status = "locked" /\ notes'[n].by = o /\ n \notin spentNotes
    BY <1>1 DEF ReservedOnce, IsMaker, IsOpen
  <2>1. orders[o].note \in DOMAIN notes
    BY <1>7 DEF NoteInv, NamesOK
  <2>2. LET n == orders[o].note
        IN  notes[n].status = "locked" /\ notes[n].by = o /\ n \notin spentNotes
    BY <2>1 DEF NoteInv, ReservedOnce
  <2>3. orders[o].note \notin traded
    BY <1>5, <2>2 DEF Traded, IsOpen
  <2> QED BY <1>4, <1>6, <2>1, <2>2, <2>3
<1>10. NamesOK'
  <2>1. /\ \A n \in DOMAIN notes' : n[1] \in {"deposit", "change", "output"}
        /\ \A n \in DOMAIN notes' : notes'[n].status \in {"available", "locked"} => n[1] # "output"
    BY <1>4, <1>6, <1>7 DEF NoteInv, NamesOK
  <2>2. \A o \in DOMAIN orders : IsMaker(o) =>
          \/ orders[o].note \in DOMAIN notes' /\ orders[o].note[1] # "output"
          \/ orders[o].note[1] = "rest"
    BY <1>6 DEF NoteInv, NamesOK
  <2> QED BY <1>1, <1>6, <2>1, <2>2 DEF NoteInv, NamesOK, IsMaker
<1>11. LocksOK'
  <2>1. server'.step # "finalizing"
    BY <1>1 DEF Resting
  <2>2. ASSUME NEW n \in DOMAIN notes', notes'[n].status \in {"available", "locked"}
        PROVE  n \in DOMAIN notes => notes'[n] = notes[n]
    BY <1>4, <1>6, <2>2
  <2> QED BY <1>1, <1>7, <2>1, <2>2 DEF NoteInv, LocksOK
<1> QED BY <1>8, <1>9, <1>10, <1>11 DEF NoteInv

-----------------------------------------------------------------------------
(* Steps that write notes which no order rests on.                         *)

SameLock(n) == notes'[n].status = notes[n].status /\ notes'[n].by = notes[n].by

\* A note that may be traded with stays as it is; the others may change their
\* status, but not to one that may be traded with; new notes, and those that
\* are forgotten, came out of positions or are yet to land.
LEMMA OthersWritten ==
    ASSUME NoteInv, UNCHANGED <<orders, server>>, ShapesOK',
           \A n \in DOMAIN notes : n \in DOMAIN notes' \/ n[1] = "output",
           \A n \in DOMAIN notes : notes[n].status = "locked" => SameLock(n),
           \A n \in DOMAIN notes' :
             \/ n \in DOMAIN notes /\ SameLock(n)
             \/ notes'[n].status \notin {"available", "locked"}
             \/ notes'[n].status = "available" /\ n \notin spentNotes' /\ n[1] # "output",
           \A n \in DOMAIN notes' : n[1] \in {"deposit", "change", "output"},
           spentNotes \subseteq spentNotes',
           \A n \in spentNotes' \ spentNotes : Retired(n)
    PROVE  NoteInv'
<1> USE DEF SameLock
<1>1. \A n \in spentNotes' \ spentNotes :
        n \in DOMAIN notes => notes[n].status \notin {"available", "locked"}
  BY DEF Retired, NoteInv, NamesOK
<1>2. \A o \in DOMAIN orders :
        /\ IsMaker(o) /\ IsOpen(o) /\ orders[o].note \in DOMAIN notes'
        => orders[o].note \in DOMAIN notes
  BY DEF NoteInv, NamesOK
<1>3. ReservedOnce'
  <2> SUFFICES ASSUME NEW o \in DOMAIN orders, IsMaker(o), IsOpen(o), orders[o].note \in DOMAIN notes'
               PROVE  LET n == orders[o].note
                      IN  notes'[n].status = "locked" /\ notes'[n].by = o /\ n \notin spentNotes'
    BY DEF ReservedOnce, IsMaker, IsOpen
  <2>1. LET n == orders[o].note
        IN  n \in DOMAIN notes /\ notes[n].status = "locked" /\ notes[n].by = o /\ n \notin spentNotes
    BY <1>2 DEF NoteInv, ReservedOnce
  <2> QED BY <1>1, <2>1
<1>4. NamesOK'
  <2>1. \A n \in spentNotes' : n \in DOMAIN notes' \/ n[1] \in {"output", "rest"}
    BY DEF NoteInv, NamesOK, Retired
  <2>2. \A n \in DOMAIN notes' : notes'[n].status \in {"available", "locked"} => n[1] # "output"
    BY DEF NoteInv, NamesOK
  <2>3. \A o \in DOMAIN orders : IsMaker(o) =>
          \/ orders[o].note \in DOMAIN notes' /\ orders[o].note[1] # "output"
          \/ orders[o].note[1] = "rest"
    BY DEF NoteInv, NamesOK
  <2> QED BY <2>1, <2>2, <2>3 DEF NamesOK, IsMaker
<1>5. LocksOK'
  <2>1. ASSUME NEW n \in DOMAIN notes', notes'[n].status = "available" PROVE n \notin spentNotes'
    <3>1. CASE n \in DOMAIN notes /\ SameLock(n)
      BY <1>1, <2>1, <3>1 DEF NoteInv, LocksOK
    <3> QED BY <2>1, <3>1
  <2>2. ASSUME NEW n \in DOMAIN notes', notes'[n].status = "locked"
        PROVE  notes'[n].by[2] = n /\ (n \in spentNotes' => Traded(orders', notes'[n].by))
    <3>1. n \in DOMAIN notes /\ SameLock(n)
      BY <2>2
    <3>2. n \in spentNotes' => n \in spentNotes
      BY <1>1, <2>2, <3>1
    <3> QED BY <2>2, <3>1, <3>2 DEF NoteInv, LocksOK
  <2>3. server'.step = "finalizing" => \A o \in server'.filled : Traded(orders', o)
    BY DEF NoteInv, LocksOK
  <2> QED BY <2>1, <2>2, <2>3 DEF LocksOK
<1> QED BY <1>3, <1>4, <1>5 DEF NoteInv

LEMMA ClosingReserves ==
    ASSUME NoteInv, UNCHANGED mgr, NEW p,
           \/ \E out : PrepareClose(p, out)
           \/ \E outcome : RelayClose(p, outcome)
           \/ FinalizeClose(p) \/ Liquidate(p)
    PROVE  NoteInv'
<1> DEFINE output == OutputOf(PairOf(p))
<1>1. output[1] = "output"
  BY DEF OutputOf
<1>2. UNCHANGED <<orders, server, spentNotes>>
  BY DEF PrepareClose, RelayClose, FinalizeClose, Liquidate, bookVars, poolVars
<1>3. \/ notes' = notes
      \/ output \notin DOMAIN notes /\ \E note : /\ notes' = Stored(notes, output, note)
                                               /\ NoteFields \subseteq DOMAIN note
                                               /\ note.status = "pending"
      \/ notes' = Without(notes, output)
      \/ notes[output].status = "pending" /\ notes' = FinalizedOutput(notes, output)
  <2>1. ASSUME NEW out, PrepareClose(p, out)
        PROVE  output \notin DOMAIN notes /\ \E note : /\ notes' = Stored(notes, output, note)
                                                     /\ NoteFields \subseteq DOMAIN note
                                                     /\ note.status = "pending"
    <3> DEFINE n == CHOOSE m \in NotesBehind(PairOf(p)) : TRUE
               note == [NewNote(out, notes[n].allocation) EXCEPT !.parent = n, !.closes = PairOf(p)]
    <3>1. notes' = Stored(notes, output, note) /\ output \notin DOMAIN notes
      BY <2>1 DEF PrepareClose, CanCloseWithPair
    <3>2. NoteFields \subseteq DOMAIN note /\ note.status = "pending"
      <4> HIDE DEF n
      <4> QED BY DEF NewNote, NoteFields
    <3> QED BY <3>1, <3>2
  <2>2. ASSUME NEW outcome, RelayClose(p, outcome)
        PROVE  notes' = notes \/ notes' = Without(notes, output)
    BY <2>2 DEF RelayClose
  <2>3. ASSUME FinalizeClose(p)
        PROVE  notes' = notes \/ (notes[output].status = "pending" /\ notes' = FinalizedOutput(notes, output))
    BY <2>3 DEF FinalizeClose
  <2> HIDE DEF output
  <2> QED BY <2>1, <2>2, <2>3 DEF Liquidate
<1> HIDE DEF output
<1>4. \A n \in DOMAIN notes : NoteFields \subseteq DOMAIN notes[n]
  BY DEF NoteInv, ShapesOK
<1>5. output \in DOMAIN notes => notes[output].status \notin {"available", "locked"}
  BY <1>1 DEF NoteInv, NamesOK
<1>6. /\ \A n \in DOMAIN notes \ {output} : n \in DOMAIN notes' /\ notes'[n] = notes[n]
      /\ \A n \in DOMAIN notes' : n \in DOMAIN notes \/ n = output
      /\ output \in DOMAIN notes' => /\ NoteFields \subseteq DOMAIN notes'[output]
                                     /\ notes'[output].status \notin {"available", "locked"}
  <2>1. CASE notes' = notes
    BY <1>4, <1>5, <2>1
  <2>2. CASE \E note : /\ notes' = Stored(notes, output, note)
                       /\ NoteFields \subseteq DOMAIN note /\ note.status = "pending"
    BY <2>2 DEF Stored
  <2>3. CASE notes' = Without(notes, output)
    BY <2>3 DEF Without
  <2>4. CASE notes' = FinalizedOutput(notes, output)
    BY <1>4, <2>4 DEF FinalizedOutput, NoteFields
  <2> QED BY <1>3, <2>1, <2>2, <2>3, <2>4
<1>7. ShapesOK'
  BY <1>2, <1>6 DEF NoteInv, ShapesOK
<1> QED
  <2>1. \A n \in DOMAIN notes' : n[1] \in {"deposit", "change", "output"}
    BY <1>1, <1>6 DEF NoteInv, NamesOK
  <2> QED BY <1>1, <1>2, <1>5, <1>6, <1>7, <2>1, OthersWritten DEF SameLock

-----------------------------------------------------------------------------
(* Steps of the manager.                                                   *)

\* Which of the two collections, the orders and the nullifiers a step of the
\* manager may write.
Reading ==
  \/ StartPass \/ NothingToReconcile \/ (\E q \in DOMAIN saved : Reconcile(q))
  \/ (\E a \in mgr.todo : BeginDrain(a))
  \/ ProposeReceipt \/ ApplyReceipt \/ ConfirmReceipt \/ (\E outcome \in Outcomes : SubmitReceipt(outcome))
  \/ ListAllocations \/ CollectNotes \/ CheckRecovered \/ VerifySettlement \/ Drained
  \/ (\E outcome \in Outcomes : SettleAllocation(outcome))
  \/ PlanFunding \/ (\E outcome \in Outcomes : Allocate(outcome)) \/ RecordAllocation \/ RegisterNote
  \/ ManagerCrashes

LEMMA ManagerFields ==
    ASSUME NoteInv, ManagerStep \/ ManagerCrashes
    PROVE  DOMAIN mgr' = DOMAIN Off
<1>1. DOMAIN mgr = DOMAIN Off
  BY DEF NoteInv, ShapesOK
<1> USE <1>1 DEF To, Failed, Off
<1>2. CASE StartPass \/ NothingToReconcile \/ FinalizeOutput \/ RecordRecovery
  BY <1>2 DEF StartPass, NothingToReconcile, FinalizeOutput, RecordRecovery
<1>3. CASE \E q \in DOMAIN saved : Reconcile(q)
  BY <1>3 DEF Reconcile
<1>4. CASE \E n \in mgr.queue : TakeNote(n)
  BY <1>4 DEF TakeNote
<1>5. CASE \E a \in mgr.todo : BeginDrain(a)
  BY <1>5 DEF BeginDrain
<1>6. CASE ProposeReceipt \/ ApplyReceipt \/ MarkSettled \/ ConfirmReceipt
  BY <1>6 DEF ProposeReceipt, ApplyReceipt, MarkSettled, ConfirmReceipt
<1>7. CASE ListAllocations \/ ReserveNotes \/ CollectNotes \/ CheckRecovered \/ VerifySettlement \/ Drained
  BY <1>7 DEF ListAllocations, ReserveNotes, CollectNotes, CheckRecovered, VerifySettlement, Drained
<1>8. CASE PlanFunding \/ RecordAllocation \/ RegisterNote
  BY <1>8 DEF PlanFunding, RecordAllocation, RegisterNote
<1>9. CASE \E outcome \in Outcomes :
             WithdrawNote(outcome) \/ SubmitReceipt(outcome) \/ SettleAllocation(outcome)
               \/ Allocate(outcome) \/ PrepareDeposit(outcome) \/ LandDeposit(outcome)
  BY <1>9 DEF WithdrawNote, SubmitReceipt, SettleAllocation, Allocate, PrepareDeposit, LandDeposit
<1>10. CASE ManagerCrashes
  BY <1>10 DEF ManagerCrashes
<1> QED BY <1>2, <1>3, <1>4, <1>5, <1>6, <1>7, <1>8, <1>9, <1>10 DEF ManagerStep

LEMMA ManagerReserves ==
    ASSUME NoteInv, PassOK, ManagerStep \/ ManagerCrashes
    PROVE  NoteInv'
<1>1. DOMAIN mgr' = DOMAIN Off
  BY ManagerFields
<1>2. UNCHANGED <<orders, server>>
  BY DEF ManagerStep, ManagerCrashes, StartPass, NothingToReconcile, FinalizeOutput, RecordRecovery,
     Reconcile, TakeNote, BeginDrain, ProposeReceipt, ApplyReceipt, MarkSettled, ConfirmReceipt,
     ListAllocations, ReserveNotes, CollectNotes, CheckRecovered, VerifySettlement, Drained,
     PlanFunding, RecordAllocation, RegisterNote, WithdrawNote, SubmitReceipt, SettleAllocation,
     Allocate, PrepareDeposit, LandDeposit, orderVars, bookVars
<1>3. \A n \in DOMAIN notes : NoteFields \subseteq DOMAIN notes[n]
  BY DEF NoteInv, ShapesOK
<1>4. \A n : Retired(n) /\ n \in DOMAIN notes => notes[n].status \notin {"available", "locked"}
  BY DEF Retired, NoteInv, NamesOK
<1>5. CASE Reading
  <2>1. UNCHANGED <<notes, spentNotes>>
    BY <1>5 DEF Reading, ManagerCrashes, StartPass, NothingToReconcile,
       Reconcile, BeginDrain, ProposeReceipt, ApplyReceipt, ConfirmReceipt,
       ListAllocations, CollectNotes, CheckRecovered, VerifySettlement, Drained,
       PlanFunding, RecordAllocation, RegisterNote, SubmitReceipt, SettleAllocation,
       Allocate, orderVars, poolVars, noteVars
  <2>2. ShapesOK'
    BY <1>1, <1>2, <2>1 DEF NoteInv, ShapesOK
  <2> QED BY <1>2, <2>1, <2>2, NotesLeftAlone
<1>6. CASE FinalizeOutput
  <2>1. spentNotes' = spentNotes
    BY <1>6 DEF FinalizeOutput, orderVars, poolVars
  <2>2. notes' = notes \/ (notes[mgr.note].status = "pending" /\ notes' = FinalizedOutput(notes, mgr.note))
    BY <1>6 DEF FinalizeOutput
  <2>3. /\ DOMAIN notes' = DOMAIN notes
        /\ \A n \in DOMAIN notes :
             /\ DOMAIN notes'[n] = DOMAIN notes[n]
             /\ \/ notes'[n] = notes[n]
                \/ notes[n].status = "pending" /\ notes'[n].status = "draining"
    BY <1>3, <2>2 DEF FinalizedOutput, NoteFields
  <2>4. ShapesOK'
    BY <1>1, <1>2, <2>3 DEF NoteInv, ShapesOK
  <2>5. \A n \in DOMAIN notes' : n[1] \in {"deposit", "change", "output"}
    BY <2>3 DEF NoteInv, NamesOK
  <2> QED BY <1>2, <2>1, <2>3, <2>4, <2>5, OthersWritten DEF SameLock
<1>7. CASE \E n \in mgr.queue : TakeNote(n)
  <2>1. PICK m \in mgr.queue : TakeNote(m)
    BY <1>7
  <2>2. spentNotes' = spentNotes /\ notes' = [notes EXCEPT ![m].status = "withdrawing"]
    BY <2>1 DEF TakeNote, orderVars, poolVars
  <2>3. /\ DOMAIN notes' = DOMAIN notes
        /\ \A n \in DOMAIN notes :
             /\ DOMAIN notes'[n] = DOMAIN notes[n]
             /\ n # m => notes'[n] = notes[n]
             /\ n = m => notes'[n].status = "withdrawing"
    BY <1>3, <2>2 DEF NoteFields
  <2>4. m \in DOMAIN notes => notes[m].status \notin {"available", "locked"}
    BY <1>4 DEF PassOK
  <2>5. ShapesOK'
    BY <1>1, <1>2, <2>3 DEF NoteInv, ShapesOK
  <2>6. \A n \in DOMAIN notes' : n[1] \in {"deposit", "change", "output"}
    BY <2>3 DEF NoteInv, NamesOK
  <2> QED BY <1>2, <2>2, <2>3, <2>4, <2>5, <2>6, OthersWritten DEF SameLock
<1>8. CASE \E outcome \in Outcomes : WithdrawNote(outcome)
  <2>1. /\ notes' = notes /\ mgr.note \in mgr.queue
        /\ spentNotes \subseteq spentNotes' /\ spentNotes' \subseteq spentNotes \cup {mgr.note}
    BY <1>8 DEF WithdrawNote, noteVars, PassOK
  <2>2. Retired(mgr.note)
    BY <2>1 DEF PassOK
  <2>3. ShapesOK'
    BY <1>1, <1>2, <2>1 DEF NoteInv, ShapesOK
  <2>4. \A n \in DOMAIN notes' : n[1] \in {"deposit", "change", "output"}
    BY <2>1 DEF NoteInv, NamesOK
  <2> QED BY <1>2, <2>1, <2>2, <2>3, <2>4, OthersWritten DEF SameLock
<1>9. CASE RecordRecovery
  <2>1. spentNotes' = spentNotes /\ notes' = Recovered(notes, mgr.note) /\ mgr.note \in mgr.queue
    BY <1>9 DEF RecordRecovery, orderVars, poolVars, PassOK
  <2>2. /\ DOMAIN notes' = DOMAIN notes
        /\ \A n \in DOMAIN notes :
             /\ DOMAIN notes'[n] = DOMAIN notes[n]
             /\ n # mgr.note => notes'[n] = notes[n]
             /\ n = mgr.note => notes'[n].status = "spent"
    BY <1>3, <2>1 DEF Recovered, NoteFields
  <2>3. mgr.note \in DOMAIN notes => notes[mgr.note].status \notin {"available", "locked"}
    BY <1>4, <2>1 DEF PassOK
  <2>4. ShapesOK'
    BY <1>1, <1>2, <2>2 DEF NoteInv, ShapesOK
  <2>5. \A n \in DOMAIN notes' : n[1] \in {"deposit", "change", "output"}
    BY <2>2 DEF NoteInv, NamesOK
  <2> QED BY <1>2, <2>1, <2>2, <2>3, <2>4, <2>5, OthersWritten DEF SameLock
<1>10. CASE MarkSettled \/ ReserveNotes
  <2>1. spentNotes' = spentNotes
    BY <1>10 DEF MarkSettled, ReserveNotes, orderVars, poolVars
  <2>2. /\ DOMAIN notes' = DOMAIN notes
        /\ \A n \in DOMAIN notes :
             /\ DOMAIN notes'[n] = DOMAIN notes[n]
             /\ SameLock(n) \/ (notes[n].status = "available" /\ notes'[n].status = "draining")
    <3>1. CASE MarkSettled
      BY <1>3, <3>1 DEF MarkSettled, NoteFields, SameLock
    <3>2. CASE ReserveNotes
      BY <1>3, <3>2 DEF ReserveNotes, DrainingNotes, NoteFields, SameLock
    <3> QED BY <1>10, <3>1, <3>2
  <2>3. ShapesOK'
    BY <1>1, <1>2, <2>2 DEF NoteInv, ShapesOK
  <2>4. \A n \in DOMAIN notes' : n[1] \in {"deposit", "change", "output"}
    BY <2>2 DEF NoteInv, NamesOK
  <2> QED BY <1>2, <2>1, <2>2, <2>3, <2>4, OthersWritten
<1>11. CASE \E outcome \in Outcomes : PrepareDeposit(outcome)
  <2> DEFINE deposit == Deposited(mgr.alloc)
             note == NewNote(allocations[mgr.alloc].amount, mgr.alloc)
  <2>1. spentNotes' = spentNotes /\ deposit \notin DOMAIN notes /\ deposit[1] = "deposit"
    BY <1>11 DEF PrepareDeposit, poolVars, PassOK, Deposited
  <2>2. notes' = notes \/ notes' = Stored(notes, deposit, note)
    BY <1>11 DEF PrepareDeposit
  <2>3. NoteFields \subseteq DOMAIN note /\ note.status = "pending"
    BY DEF NoteFields, NewNote
  <2> HIDE DEF deposit, note
  <2>4. /\ \A n \in DOMAIN notes : n \in DOMAIN notes' /\ notes'[n] = notes[n]
        /\ \A n \in DOMAIN notes' \ DOMAIN notes : n = deposit /\ notes'[n] = note
    BY <2>1, <2>2 DEF Stored
  <2>5. ShapesOK'
    BY <1>1, <1>2, <2>3, <2>4 DEF NoteInv, ShapesOK
  <2>6. \A n \in DOMAIN notes' : n[1] \in {"deposit", "change", "output"}
    BY <2>1, <2>4 DEF NoteInv, NamesOK
  <2> QED BY <1>2, <2>1, <2>3, <2>4, <2>5, <2>6, OthersWritten DEF SameLock
<1>12. CASE \E outcome \in Outcomes : LandDeposit(outcome)
  <2>1. spentNotes' = spentNotes /\ Unlanded(mgr.note)
    BY <1>12 DEF LandDeposit, PassOK
  <2>2. notes' = notes \/ notes' = [notes EXCEPT ![mgr.note].status = "available"]
    BY <1>12 DEF LandDeposit
  <2>3. /\ DOMAIN notes' = DOMAIN notes
        /\ \A n \in DOMAIN notes :
             /\ DOMAIN notes'[n] = DOMAIN notes[n]
             /\ n # mgr.note => notes'[n] = notes[n]
             /\ n = mgr.note => notes'[n] = notes[n] \/ notes'[n].status = "available"
    BY <1>3, <2>2 DEF NoteFields
  <2>4. ShapesOK'
    BY <1>1, <1>2, <2>3 DEF NoteInv, ShapesOK
  <2>5. \A n \in DOMAIN notes' : n[1] \in {"deposit", "change", "output"}
    BY <2>3 DEF NoteInv, NamesOK
  <2> QED BY <1>2, <2>1, <2>3, <2>4, <2>5, OthersWritten DEF SameLock, Unlanded
<1> QED BY <1>5, <1>6, <1>7, <1>8, <1>9, <1>10, <1>11, <1>12 DEF ManagerStep, Reading

-----------------------------------------------------------------------------
(* What a step leaves of the notes that the manager is busy with.          *)

RetiredStatuses == {"draining", "withdrawing", "spent"}

\* A note that is withdrawn stays out of trade, and keeps its allocation.
NotesKept ==
  \A n \in DOMAIN notes : n[1] # "output" =>
    /\ n \in DOMAIN notes' /\ notes'[n].allocation = notes[n].allocation
    /\ notes[n].status \in RetiredStatuses => notes'[n].status \in RetiredStatuses

\* The server neither makes deposits nor spends one that has not landed.
DepositsKept ==
  /\ \A n \in DOMAIN notes' \ DOMAIN notes : n[1] # "deposit"
  /\ \A n : Unlanded(n) => Unlanded(n)'

LEMMA SettledNotes ==
    ASSUME NEW ids, NEW match, Settle(ids, match), NEW n \in spentNotes' \ spentNotes
    PROVE  \E o \in DOMAIN orders : IsOpen(o) /\ IsMaker(o) /\ n = orders[o].note
<1> DEFINE filled == {o \in DOMAIN orders : IsOpen(o) /\ \E k \in FilledOrders(match) : ids[k] = o}
           makers == {o \in filled : IsMaker(o)}
<1>1. spentNotes' = spentNotes \cup {orders[o].note : o \in makers}
  BY DEF Settle
<1> QED BY <1>1

LEMMA ServerKeepsNotes ==
    ASSUME NoteInv, NEW out, OrderStep(out)
    PROVE  NotesKept /\ DepositsKept
<1>1. \A n \in DOMAIN notes : NoteFields \subseteq DOMAIN notes[n]
  BY DEF NoteInv, ShapesOK
<1>2. CASE UNCHANGED <<notes, spentNotes>>
  BY <1>2 DEF NotesKept, DepositsKept, Unlanded
<1>3. CASE StartRun
  <2> DEFINE orphans == {n \in DOMAIN notes : Orphaned(n)}
             freed   == [n \in DOMAIN notes |-> IF n \in orphans THEN Unlocked(notes, n)[n] ELSE notes[n]]
  <2>1. (notes' = freed \/ notes' = notes) /\ spentNotes' = spentNotes
    BY <1>3 DEF StartRun, poolVars
  <2>2. \A n \in DOMAIN notes : n \in orphans => notes[n].status = "locked"
    BY DEF Orphaned
  <2>3. \A n \in DOMAIN notes : Unlocked(notes, n)[n].allocation = notes[n].allocation
    BY <1>1 DEF Unlocked, NoteFields
  <2> HIDE DEF orphans
  <2> QED BY <2>1, <2>2, <2>3 DEF NotesKept, DepositsKept, Unlanded, RetiredStatuses
<1>4. CASE \E outcome : ClaimNote(outcome)
  <2> DEFINE n == Head(server.plan).note
  <2>1. /\ spentNotes' = spentNotes
        /\ \/ notes' = notes
           \/ IsClaimable(n) /\ \E order, source : notes' = Locked(notes, n, order, source)
    BY <1>4 DEF ClaimNote, poolVars
  <2>2. CASE notes' = notes
    BY <2>1, <2>2 DEF NotesKept, DepositsKept, Unlanded
  <2>3. CASE IsClaimable(n) /\ \E order, source : notes' = Locked(notes, n, order, source)
    <3>1. PICK order, source : notes' = Locked(notes, n, order, source)
      BY <2>3
    <3>2. notes[n].status = "available" /\ n \in DOMAIN notes
      BY <2>3 DEF IsClaimable
    <3> HIDE DEF n
    <3>3. /\ DOMAIN notes' = DOMAIN notes
          /\ \A m \in DOMAIN notes : notes'[m].allocation = notes[m].allocation
          /\ \A m \in DOMAIN notes : m # n => notes'[m] = notes[m]
      BY <1>1, <3>1 DEF Locked, NoteFields
    <3> QED BY <2>1, <3>2, <3>3 DEF NotesKept, DepositsKept, Unlanded, RetiredStatuses
  <2> QED BY <2>1, <2>2, <2>3
<1>5. CASE MatchBatch
  <2>1. /\ notes' = notes
        /\ spentNotes' # spentNotes => \E ids, match : Settle(ids, match)
    BY <1>5 DEF MatchBatch
  <2>2. \A n \in spentNotes' \ spentNotes : \E o \in DOMAIN orders : IsOpen(o) /\ IsMaker(o) /\ n = orders[o].note
    BY <2>1, SettledNotes
  <2>3. \A n \in spentNotes' \ spentNotes : n \in DOMAIN notes => notes[n].status = "locked"
    BY <2>2 DEF NoteInv, ReservedOnce
  <2>4. \A n : Unlanded(n) => n \notin spentNotes'
    BY <2>3 DEF Unlanded
  <2> QED BY <2>1, <2>4 DEF NotesKept, DepositsKept, Unlanded
<1>6. CASE FinalizeSettlement
  <2> DEFINE traded == {n \in DOMAIN notes : notes[n].by # None /\ notes[n].by \in server.filled}
             hasChange(n) == notes[n].source # None /\ notes[n].amount > orders[notes[n].by].margin
             spent  == [n \in DOMAIN notes |->
                          IF n \in traded THEN [notes[n] EXCEPT !.status = "spent"] ELSE notes[n]]
             names  == {ChangeOf(n, notes[n].source) : n \in {m \in traded : hasChange(m)}}
             change == [c \in names |-> ChangeNote(notes, c[2], orders[notes[c[2]].by].margin)]
  <2>1. notes' = Joined(spent, change) /\ spentNotes' = spentNotes
    BY <1>6 DEF FinalizeSettlement, poolVars
  <2>2. \A c \in DOMAIN change : c[1] = "change"
    BY DEF ChangeOf
  <2>3. /\ DOMAIN spent = DOMAIN notes
        /\ \A n \in DOMAIN notes : /\ spent[n].allocation = notes[n].allocation
                                   /\ n \in traded => notes[n].by # None /\ spent[n].status = "spent"
                                   /\ n \notin traded => spent[n] = notes[n]
    BY <1>1 DEF NoteFields
  <2> HIDE DEF change, spent, traded
  <2> QED BY <2>1, <2>2, <2>3 DEF Joined, NotesKept, DepositsKept, Unlanded, RetiredStatuses
<1>7. CASE \E p \in DOMAIN positions :
             \/ \E o \in Outs : PrepareClose(p, o)
             \/ \E outcome \in CloseOutcomes : RelayClose(p, outcome)
             \/ FinalizeClose(p) \/ Liquidate(p)
  <2>1. PICK p \in DOMAIN positions :
             \/ \E o \in Outs : PrepareClose(p, o)
             \/ \E outcome \in CloseOutcomes : RelayClose(p, outcome)
             \/ FinalizeClose(p) \/ Liquidate(p)
    BY <1>7
  <2> DEFINE output == OutputOf(PairOf(p))
  <2>2. output[1] = "output"
    BY DEF OutputOf
  <2>3. spentNotes' = spentNotes
    BY <2>1 DEF PrepareClose, RelayClose, FinalizeClose, Liquidate, poolVars
  <2>4. \/ notes' = notes \/ (\E note : notes' = Stored(notes, output, note))
        \/ notes' = Without(notes, output) \/ notes' = FinalizedOutput(notes, output)
    BY <2>1 DEF PrepareClose, RelayClose, FinalizeClose, Liquidate
  <2> HIDE DEF output
  <2>5. /\ \A n \in DOMAIN notes \ {output} : n \in DOMAIN notes' /\ notes'[n] = notes[n]
        /\ \A n \in DOMAIN notes' : n \in DOMAIN notes \/ n = output
    BY <2>4 DEF Stored, Without, FinalizedOutput
  <2> QED BY <2>2, <2>3, <2>5 DEF NotesKept, DepositsKept, Unlanded
<1> QED
  <2>1. CASE ReadBacking(out) \/ AllAnswered \/ FindAllocation \/ Flush \/ ServerCrashes
    BY <1>2, <2>1 DEF ReadBacking, AllAnswered, FindAllocation, Flush, ServerCrashes, poolVars
  <2>2. CASE \E o \in Orders : Submit(o) \/ Cancel(o) \/ ChooseNotes(o)
    BY <1>2, <2>2 DEF Submit, Cancel, ChooseNotes, poolVars
  <2> QED BY <1>3, <1>4, <1>5, <1>6, <1>7, <2>1, <2>2 DEF OrderStep

\* What a pass is at does not change under the server.
LEMMA ServerKeepsPass ==
    ASSUME NoteInv, PassOK, IntervalsOK, NEW out, OrderStep(out),
           UNCHANGED <<mgr, clock, funded>>
    PROVE  PassOK' /\ IntervalsOK'
<1>1. NotesKept /\ DepositsKept
  BY ServerKeepsNotes
<1>2. allocations' = allocations
  BY DEF OrderStep, Submit, Cancel, ChooseNotes, StartRun, ReadBacking, AllAnswered, FindAllocation, ClaimNote,
     MatchBatch, FinalizeSettlement, Flush, ServerCrashes, PrepareClose, RelayClose, FinalizeClose, Liquidate
<1>3. \A n : Retired(n) => Retired(n)'
  BY <1>1 DEF NotesKept, Retired, RetiredStatuses
<1>4. \A a : Deposited(a) \notin DOMAIN notes => Deposited(a) \notin DOMAIN notes'
  BY <1>1 DEF DepositsKept, Deposited
<1>5. PassOK'
  BY <1>1, <1>3, <1>4 DEF PassOK, DepositsKept
<1>6. \A n \in DOMAIN notes' : n[1] = "deposit" =>
        n \in DOMAIN notes /\ notes'[n].allocation = notes[n].allocation
  BY <1>1 DEF NotesKept, DepositsKept
<1>7. IntervalsOK'
  BY <1>2, <1>6 DEF IntervalsOK
<1> QED BY <1>5, <1>7

-----------------------------------------------------------------------------
(* Where a pass goes.                                                      *)

\* A step of the manager keeps what it has retired, keeps the allocation of
\* every note and forgets none; what it adds is a deposit that it prepares.
ManagerNotes ==
  /\ \A n \in DOMAIN notes :
       /\ n \in DOMAIN notes' /\ notes'[n].allocation = notes[n].allocation
       /\ notes[n].status \in RetiredStatuses => notes'[n].status \in RetiredStatuses
  /\ \A n \in DOMAIN notes' \ DOMAIN notes :
       mgr.step = "depositing" /\ n = Deposited(mgr.alloc) /\ notes'[n].allocation = mgr.alloc

LEMMA ManagerKeepsNotes ==
    ASSUME NoteInv, PassOK, ManagerStep \/ ManagerCrashes
    PROVE  ManagerNotes
<1>1. \A n \in DOMAIN notes : NoteFields \subseteq DOMAIN notes[n]
  BY DEF NoteInv, ShapesOK
<1> USE <1>1 DEF ManagerNotes, NoteFields, RetiredStatuses
<1>2. CASE Reading \/ \E outcome \in Outcomes : WithdrawNote(outcome)
  <2>1. notes' = notes
    BY <1>2 DEF Reading, ManagerCrashes, StartPass, NothingToReconcile,
       Reconcile, BeginDrain, ProposeReceipt, ApplyReceipt, ConfirmReceipt,
       ListAllocations, CollectNotes, CheckRecovered, VerifySettlement, Drained,
       PlanFunding, RecordAllocation, RegisterNote, SubmitReceipt, SettleAllocation,
       Allocate, WithdrawNote, noteVars
  <2> QED BY <2>1
<1>3. CASE FinalizeOutput
  BY <1>3 DEF FinalizeOutput, FinalizedOutput
<1>4. CASE \E n \in mgr.queue : TakeNote(n)
  BY <1>4 DEF TakeNote
<1>5. CASE RecordRecovery
  BY <1>5 DEF RecordRecovery, Recovered
<1>6. CASE MarkSettled
  BY <1>6 DEF MarkSettled
<1>7. CASE ReserveNotes
  BY <1>7 DEF ReserveNotes, DrainingNotes
<1>8. CASE \E outcome \in Outcomes : PrepareDeposit(outcome)
  <2> DEFINE deposit == Deposited(mgr.alloc)
             note == NewNote(allocations[mgr.alloc].amount, mgr.alloc)
  <2>1. /\ mgr.step = "depositing" /\ deposit \notin DOMAIN notes
        /\ notes' = notes \/ notes' = Stored(notes, deposit, note)
    BY <1>8 DEF PrepareDeposit, PassOK
  <2>2. note.allocation = mgr.alloc
    BY DEF NewNote
  <2> HIDE DEF deposit, note
  <2>3. /\ \A n \in DOMAIN notes : n \in DOMAIN notes' /\ notes'[n] = notes[n]
        /\ \A n \in DOMAIN notes' \ DOMAIN notes : n = deposit /\ notes'[n] = note
    BY <2>1 DEF Stored
  <2> QED BY <2>1, <2>2, <2>3 DEF deposit
<1>9. CASE \E outcome \in Outcomes : LandDeposit(outcome)
  <2>1. notes' = notes \/ notes' = [notes EXCEPT ![mgr.note].status = "available"]
    BY <1>9 DEF LandDeposit
  <2>2. mgr.note \in DOMAIN notes => notes[mgr.note].status = "pending"
    BY <1>9 DEF LandDeposit, PassOK, Unlanded
  <2> QED BY <2>1, <2>2
<1> QED BY <1>2, <1>3, <1>4, <1>5, <1>6, <1>7, <1>8, <1>9 DEF ManagerStep, Reading

\* The steps of a pass that it is not at rest in.
Holding == {"withdrawal", "recovering", "recording", "depositing", "landing"}

\* A pass stays one of its interval until it ends.
SameInterval == mgr'.epoch \in {0, clock, mgr.epoch}

\* It goes on with what it has, and is at nothing that needs a note.
GoesOn == mgr'.step \notin Holding /\ mgr'.queue \subseteq mgr.queue

LEMMA ToAnother ==
    ASSUME ShapesOK, NEW step, To(step)
    PROVE  /\ mgr'.step = step /\ mgr'.queue = mgr.queue /\ mgr'.note = mgr.note /\ mgr'.alloc = mgr.alloc
           /\ SameInterval
<1>1. {"step", "epoch", "queue", "note", "alloc"} \subseteq DOMAIN mgr
  BY DEF ShapesOK, Off
<1> QED BY <1>1 DEF To, SameInterval

LEMMA AfterFailure ==
    ASSUME ShapesOK, Failed \/ mgr' = Off
    PROVE  GoesOn /\ SameInterval
<1>1. {"step", "epoch", "queue", "note", "draining"} \subseteq DOMAIN mgr
  BY DEF ShapesOK, Off
<1>2. Off.step = "idle" /\ Off.queue = {} /\ Off.epoch = 0
  BY DEF Off
<1> DEFINE next == [mgr EXCEPT !.step = "draining", !.queue = {}, !.note = None, !.draining = FALSE]
<1>3. next.step = "draining" /\ next.queue = {} /\ next.epoch = mgr.epoch
  BY <1>1
<1>4. mgr' = next \/ mgr' = Off
  BY DEF Failed
<1> HIDE DEF next
<1> QED BY <1>2, <1>3, <1>4 DEF GoesOn, SameInterval, Holding

\* Where each step of the manager leaves the pass.
LEMMA PassSteps ==
    ASSUME NoteInv, ManagerStep \/ ManagerCrashes
    PROVE  /\ SameInterval
           /\ \/ GoesOn
              \/ \E q \in DOMAIN saved : mgr'.queue = {OutputOf(q)} /\ mgr'.step \notin Holding
              \/ (\E n \in mgr.queue : TakeNote(n)) /\ mgr'.step = "withdrawal"
                   /\ mgr'.note \in mgr.queue /\ mgr'.queue = mgr.queue
              \/ (\E outcome \in Outcomes : WithdrawNote(outcome)) /\ mgr'.step = "recovering"
                   /\ mgr'.note = mgr.note /\ mgr'.queue = mgr.queue
              \/ CollectNotes /\ mgr'.step \notin Holding
                   /\ mgr'.queue \subseteq {n \in DOMAIN notes : notes[n].status \in RetiredStatuses}
              \/ PlanFunding /\ mgr'.step = "depositing" /\ mgr'.queue = mgr.queue
              \/ (\E outcome \in Outcomes : Allocate(outcome)) /\ mgr'.step = "recording"
                   /\ mgr'.alloc = mgr.epoch /\ mgr'.queue = mgr.queue
              \/ RecordAllocation /\ mgr'.step = "depositing" /\ mgr'.alloc = mgr.alloc /\ mgr'.queue = mgr.queue
              \/ (\E outcome \in Outcomes : PrepareDeposit(outcome)) /\ mgr'.step = "landing"
                   /\ mgr'.note = Deposited(mgr.alloc) /\ mgr'.queue = mgr.queue
<1>1. ShapesOK
  BY DEF NoteInv
<1>2. DOMAIN mgr = {"step", "epoch", "todo", "alloc", "queue", "note", "draining", "expected"}
  BY <1>1 DEF ShapesOK, Off
<1>3. ASSUME NEW step, To(step), step \notin Holding PROVE GoesOn /\ SameInterval
  BY <1>1, <1>3, ToAnother DEF GoesOn
<1>4. CASE StartPass \/ FinalizeOutput \/ ConfirmReceipt \/ VerifySettlement \/ RegisterNote \/ ManagerCrashes
  <2>1. Failed \/ mgr' = Off \/ mgr' = [Off EXCEPT !.step = "reconciling", !.epoch = clock]
    BY <1>4 DEF StartPass, FinalizeOutput, ConfirmReceipt, VerifySettlement, RegisterNote, ManagerCrashes
  <2>2. CASE mgr' = [Off EXCEPT !.step = "reconciling", !.epoch = clock]
    BY <2>2 DEF Off, GoesOn, SameInterval, Holding
  <2> QED BY <1>1, <2>1, <2>2, AfterFailure
<1>5. CASE NothingToReconcile \/ ReserveNotes \/ Drained \/ MarkSettled
  BY <1>3, <1>5 DEF NothingToReconcile, ReserveNotes, Drained, MarkSettled, Holding
<1>6. CASE RecordRecovery
  <2>1. \/ mgr' = [mgr EXCEPT !.step = "withdrawing", !.queue = mgr.queue \ {mgr.note}]
        \/ mgr' = [mgr EXCEPT !.step = "checking", !.queue = {}]
        \/ mgr' = Off
    BY <1>6 DEF RecordRecovery
  <2> QED BY <1>1, <1>2, <2>1, AfterFailure DEF GoesOn, SameInterval, Holding
<1>7. CASE \E q \in DOMAIN saved : Reconcile(q)
  <2>1. PICK q \in DOMAIN saved : Reconcile(q)
    BY <1>7
  <2>2. NextStepOf(notes[OutputOf(q)]) \notin Holding
    BY DEF NextStepOf, Holding
  <2>3. mgr'.queue = {OutputOf(q)} /\ mgr'.step = NextStepOf(notes[OutputOf(q)]) /\ SameInterval
    BY <1>2, <2>1 DEF Reconcile, SameInterval
  <2> QED BY <2>2, <2>3
<1>8. CASE \E n \in mgr.queue : TakeNote(n)
  <2>1. PICK n \in mgr.queue : TakeNote(n)
    BY <1>8
  <2>2. Failed \/ mgr' = [mgr EXCEPT !.step = "withdrawal", !.note = n]
    BY <2>1 DEF TakeNote
  <2>3. CASE mgr' = [mgr EXCEPT !.step = "withdrawal", !.note = n]
    <3>1. mgr'.step = "withdrawal" /\ mgr'.note = n /\ mgr'.queue = mgr.queue /\ SameInterval
      BY <1>2, <2>3 DEF SameInterval
    <3> QED BY <2>1, <3>1
  <2> QED BY <1>1, <2>2, <2>3, AfterFailure
<1>9. CASE \E a \in mgr.todo : BeginDrain(a)
  <2>1. PICK a \in mgr.todo : mgr' = [mgr EXCEPT !.step = "reserving", !.todo = @ \ {a}, !.alloc = a, !.draining = TRUE]
    BY <1>9 DEF BeginDrain
  <2> QED BY <1>2, <2>1 DEF GoesOn, SameInterval, Holding
<1>10. CASE \E outcome \in Outcomes : WithdrawNote(outcome)
  <2>1. To("recovering") \/ Failed
    BY <1>10 DEF WithdrawNote
  <2> QED BY <1>1, <1>10, <2>1, ToAnother, AfterFailure
<1>11. CASE ProposeReceipt \/ ApplyReceipt \/ \E outcome \in Outcomes : SubmitReceipt(outcome)
  <2>1. To("applying") \/ To("submitting") \/ To("marking") \/ mgr' = Off
    BY <1>11 DEF ProposeReceipt, ApplyReceipt, SubmitReceipt
  <2> QED BY <1>1, <1>3, <2>1, AfterFailure DEF Holding
<1>12. CASE \/ CheckRecovered \/ ListAllocations
            \/ \E outcome \in Outcomes : SettleAllocation(outcome)
  <2>1. CASE CheckRecovered
    <3>1. To("settling") \/ Failed
      BY <2>1 DEF CheckRecovered
    <3> QED BY <1>1, <1>3, <3>1, AfterFailure DEF Holding
  <2>2. CASE ListAllocations
    <3>1. \E todo : mgr' = [mgr EXCEPT !.step = "draining", !.todo = todo]
      BY <2>2 DEF ListAllocations
    <3> QED BY <1>2, <3>1 DEF GoesOn, SameInterval, Holding
  <2>3. CASE \E outcome \in Outcomes : SettleAllocation(outcome)
    <3>1. Failed \/ \E expected : mgr' = [mgr EXCEPT !.step = "verifying", !.expected = expected]
      BY <2>3 DEF SettleAllocation
    <3>2. ASSUME NEW expected, mgr' = [mgr EXCEPT !.step = "verifying", !.expected = expected]
          PROVE  GoesOn /\ SameInterval
      BY <1>2, <3>2 DEF GoesOn, SameInterval, Holding
    <3> QED BY <1>1, <3>1, <3>2, AfterFailure
  <2> QED BY <1>12, <2>1, <2>2, <2>3
<1>13. CASE CollectNotes
  <2> DEFINE queue == {n \in NotesOf(notes, mgr.alloc) : notes[n].status \in {"draining", "withdrawing"}}
             step  == IF queue = {} THEN "checking" ELSE "withdrawing"
  <2>1. Failed \/ mgr' = [mgr EXCEPT !.step = step, !.queue = queue]
    BY <1>13 DEF CollectNotes
  <2>2. queue \subseteq {n \in DOMAIN notes : notes[n].status \in RetiredStatuses} /\ step \notin Holding
    BY DEF NotesOf, RetiredStatuses, Holding
  <2>3. ASSUME mgr' = [mgr EXCEPT !.step = step, !.queue = queue]
        PROVE  mgr'.step = step /\ mgr'.queue = queue /\ SameInterval
    <3> HIDE DEF step, queue
    <3> QED BY <1>2, <2>3 DEF SameInterval
  <2> QED BY <1>1, <1>13, <2>1, <2>2, <2>3, AfterFailure
<1>14. CASE PlanFunding
  <2> DEFINE a == CHOOSE x \in Incomplete : TRUE
             linked == NotesOf(notes, a)
             finish == CASE linked = {} -> "depositing"
                         [] \E n \in linked : linked = {n} /\ notes[n].status = "available" -> "registering"
                         [] OTHER -> "idle"
             after == [mgr EXCEPT !.step = finish, !.alloc = a, !.note = Deposited(a)]
             more  == [mgr EXCEPT !.step = "allocating", !.expected = TopUp]
  <2>1. mgr' = Off \/ mgr' = after \/ mgr' = more
    BY <1>14 DEF PlanFunding
  <2>2. finish \in {"depositing", "registering", "idle"}
    OBVIOUS
  <2> HIDE DEF finish, a
  <2>3. /\ after.queue = mgr.queue /\ after.step = finish /\ after.epoch = mgr.epoch
        /\ more.queue = mgr.queue /\ more.step = "allocating" /\ more.epoch = mgr.epoch
    BY <1>2
  <2> HIDE DEF after, more
  <2>4. CASE mgr' = Off
    BY <1>1, <2>4, AfterFailure
  <2>5. CASE mgr' = more
    BY <2>3, <2>5 DEF GoesOn, SameInterval, Holding
  <2>6. CASE mgr' = after /\ finish = "depositing"
    BY <1>14, <2>3, <2>6 DEF SameInterval
  <2>7. CASE mgr' = after /\ finish # "depositing"
    <3>1. GoesOn /\ SameInterval
      BY <2>2, <2>3, <2>7 DEF GoesOn, SameInterval, Holding
    <3> QED BY <3>1
  <2> QED BY <2>1, <2>4, <2>5, <2>6, <2>7
<1>15. CASE \E outcome \in Outcomes : Allocate(outcome)
  <2>1. mgr' = Off \/ mgr' = [mgr EXCEPT !.step = "recording", !.alloc = mgr.epoch]
    BY <1>15 DEF Allocate
  <2>2. ASSUME mgr' = [mgr EXCEPT !.step = "recording", !.alloc = mgr.epoch]
        PROVE  mgr'.step = "recording" /\ mgr'.alloc = mgr.epoch /\ mgr'.queue = mgr.queue /\ SameInterval
    BY <1>2, <2>2 DEF SameInterval
  <2> QED BY <1>1, <1>15, <2>1, <2>2, AfterFailure
<1>16. CASE RecordAllocation
  <2>1. To("depositing")
    BY <1>16 DEF RecordAllocation
  <2> QED BY <1>1, <1>16, <2>1, ToAnother
<1>17. CASE \E outcome \in Outcomes : PrepareDeposit(outcome)
  <2>1. mgr' = Off \/ mgr' = [mgr EXCEPT !.step = "landing", !.note = Deposited(mgr.alloc)]
    BY <1>17 DEF PrepareDeposit
  <2>2. ASSUME mgr' = [mgr EXCEPT !.step = "landing", !.note = Deposited(mgr.alloc)]
        PROVE  /\ mgr'.step = "landing" /\ mgr'.note = Deposited(mgr.alloc) /\ mgr'.queue = mgr.queue
               /\ SameInterval
    BY <1>2, <2>2 DEF SameInterval
  <2> QED BY <1>1, <1>17, <2>1, <2>2, AfterFailure
<1>18. CASE \E outcome \in Outcomes : LandDeposit(outcome)
  <2>1. To("registering") \/ mgr' = Off
    BY <1>18 DEF LandDeposit
  <2> QED BY <1>1, <1>3, <2>1, AfterFailure DEF Holding
<1> QED BY <1>4, <1>5, <1>6, <1>7, <1>8, <1>9, <1>10, <1>11, <1>12, <1>13, <1>14, <1>15, <1>16, <1>17, <1>18
        DEF ManagerStep

\* An allocation that is planned to be finished has no note yet.
LEMMA PlanDeposits ==
    ASSUME ShapesOK, PlanFunding, mgr'.step = "depositing"
    PROVE  mgr'.alloc \in DOMAIN allocations /\ NotesOf(notes, mgr'.alloc) = {}
<1> DEFINE a == CHOOSE x \in Incomplete : TRUE
           linked == NotesOf(notes, a)
           finish == CASE linked = {} -> "depositing"
                       [] \E n \in linked : linked = {n} /\ notes[n].status = "available" -> "registering"
                       [] OTHER -> "idle"
           after == [mgr EXCEPT !.step = finish, !.alloc = a, !.note = Deposited(a)]
           more  == [mgr EXCEPT !.step = "allocating", !.expected = TopUp]
<1>1. DOMAIN mgr = {"step", "epoch", "todo", "alloc", "queue", "note", "draining", "expected"}
  BY DEF ShapesOK, Off
<1>2. mgr' = Off \/ mgr' = more \/ (mgr' = after /\ Cardinality(Incomplete) = 1)
  BY DEF PlanFunding
<1>3. linked # {} => finish # "depositing"
  OBVIOUS
<1> HIDE DEF finish
<1>4. more.step = "allocating" /\ Off.step = "idle"
  BY <1>1 DEF Off
<1>5. after.step = finish /\ after.alloc = a
  <2> HIDE DEF a
  <2> QED BY <1>1
<1> HIDE DEF more, after
<1>6. mgr' = after /\ Cardinality(Incomplete) = 1 /\ finish = "depositing"
  BY <1>2, <1>4, <1>5
<1>7. Incomplete # {}
  BY <1>6, FS_EmptySet
<1>8. a \in DOMAIN allocations
  BY <1>7 DEF Incomplete, Unclosed
<1> HIDE DEF a
<1> QED BY <1>3, <1>5, <1>6, <1>8

\* The intervals that a pass and its allocations are of.
LEMMA IntervalsCounted ==
    ASSUME NoteInv, IntervalsOK, PassOK, ManagerStep \/ ManagerCrashes
    PROVE  /\ mgr'.epoch \in Nat /\ clock' \in Nat
           /\ funded' \in Nat /\ funded <= funded'
           /\ \A a \in DOMAIN allocations' : a \in Nat /\ a <= funded
<1>1. /\ DOMAIN mgr = DOMAIN Off /\ mgr.epoch \in Nat /\ clock \in Nat /\ funded \in Nat
      /\ \A a \in DOMAIN allocations : a \in Nat /\ a <= funded
  BY DEF NoteInv, ShapesOK, IntervalsOK
<1>2. clock' = clock
  BY DEF ManagerStep, ManagerCrashes, StartPass, NothingToReconcile, FinalizeOutput, RecordRecovery,
     Reconcile, TakeNote, BeginDrain, ProposeReceipt, ApplyReceipt, MarkSettled, ConfirmReceipt,
     ListAllocations, ReserveNotes, CollectNotes, CheckRecovered, VerifySettlement, Drained,
     PlanFunding, RecordAllocation, RegisterNote, WithdrawNote, SubmitReceipt, SettleAllocation,
     Allocate, PrepareDeposit, LandDeposit
<1>3. funded' = funded \/ (funded < mgr.epoch /\ funded' = mgr.epoch)
  BY DEF ManagerStep, ManagerCrashes, StartPass, NothingToReconcile, FinalizeOutput, RecordRecovery,
     Reconcile, TakeNote, BeginDrain, ProposeReceipt, ApplyReceipt, MarkSettled, ConfirmReceipt,
     ListAllocations, ReserveNotes, CollectNotes, CheckRecovered, VerifySettlement, Drained,
     PlanFunding, RecordAllocation, RegisterNote, WithdrawNote, SubmitReceipt, SettleAllocation,
     Allocate, PrepareDeposit, LandDeposit
<1>4. mgr'.epoch \in Nat
  BY <1>1, PassSteps DEF SameInterval
<1>5. DOMAIN allocations' = DOMAIN allocations \/ RecordAllocation
  BY DEF ManagerStep, ManagerCrashes, StartPass, NothingToReconcile, FinalizeOutput, RecordRecovery,
     Reconcile, TakeNote, BeginDrain, ProposeReceipt, ApplyReceipt, MarkSettled, ConfirmReceipt,
     ListAllocations, ReserveNotes, CollectNotes, CheckRecovered, VerifySettlement, Drained,
     PlanFunding, RegisterNote, WithdrawNote, SubmitReceipt, SettleAllocation,
     Allocate, PrepareDeposit, LandDeposit, ClosedAllocation, noteVars
<1>6. CASE RecordAllocation
  <2>1. \A a \in DOMAIN allocations' : a \in DOMAIN allocations \/ a = mgr.alloc
    BY <1>6 DEF RecordAllocation, Stored
  <2>2. mgr.alloc \in Nat /\ mgr.alloc <= funded
    BY <1>6 DEF RecordAllocation, PassOK
  <2> QED BY <1>1, <1>2, <1>3, <1>4, <2>1, <2>2
<1> QED BY <1>1, <1>2, <1>3, <1>4, <1>5, <1>6

LEMMA ManagerKeepsPass ==
    ASSUME NoteInv, PassOK, IntervalsOK, ManagerStep \/ ManagerCrashes
    PROVE  PassOK' /\ IntervalsOK'
<1>1. ManagerNotes
  BY ManagerKeepsNotes
<1>2. /\ mgr'.epoch \in Nat /\ clock' \in Nat /\ funded' \in Nat /\ funded <= funded'
      /\ \A a \in DOMAIN allocations' : a \in Nat /\ a <= funded
  BY IntervalsCounted
<1>3. mgr.epoch \in Nat /\ funded \in Nat
  BY DEF IntervalsOK
<1>4. IntervalsOK'
  <2>1. \A n \in DOMAIN notes' : n[1] = "deposit" =>
          n[2] \in Nat /\ n[2] <= funded /\ notes'[n].allocation = n[2]
    BY <1>1 DEF ManagerNotes, IntervalsOK, PassOK, Deposited
  <2>2. \A n \in DOMAIN notes' : n[1] = "deposit" =>
          n[2] \in Nat /\ n[2] <= funded' /\ notes'[n].allocation = n[2]
    BY <1>2, <1>3, <2>1
  <2> QED BY <1>2, <1>3, <2>2 DEF IntervalsOK
<1>5. \A n : Retired(n) => Retired(n)'
  BY <1>1 DEF ManagerNotes, Retired, RetiredStatuses
<1>6. /\ \A n \in mgr'.queue : Retired(n)'
      /\ mgr'.step \in {"withdrawal", "recovering"} => mgr'.note \in mgr'.queue
  <2>1. \A q : Retired(OutputOf(q))
    BY DEF OutputOf, Retired
  <2>2. \A n \in DOMAIN notes : notes[n].status \in RetiredStatuses => Retired(n)
    BY DEF Retired, RetiredStatuses
  <2>3. \A outcome : WithdrawNote(outcome) => mgr.note \in mgr.queue
    BY DEF WithdrawNote, PassOK
  <2>4. \A n \in mgr.queue : Retired(n)
    BY DEF PassOK
  <2> QED BY <1>5, <2>1, <2>2, <2>3, <2>4, PassSteps DEF GoesOn, Holding
<1>7. mgr'.step \in {"recording", "depositing"} =>
        mgr'.alloc \in Nat /\ mgr'.alloc <= funded' /\ Deposited(mgr'.alloc) \notin DOMAIN notes'
  <2> SUFFICES ASSUME mgr'.step \in {"recording", "depositing"}
               PROVE  mgr'.alloc \in Nat /\ mgr'.alloc <= funded' /\ Deposited(mgr'.alloc) \notin DOMAIN notes'
    OBVIOUS
  <2>1. \/ PlanFunding /\ mgr'.step = "depositing"
        \/ (\E outcome \in Outcomes : Allocate(outcome)) /\ mgr'.step = "recording" /\ mgr'.alloc = mgr.epoch
        \/ RecordAllocation /\ mgr'.step = "depositing" /\ mgr'.alloc = mgr.alloc
    BY PassSteps DEF GoesOn, Holding
  <2>2. CASE PlanFunding /\ mgr'.step = "depositing"
    <3>1. mgr'.alloc \in DOMAIN allocations /\ NotesOf(notes, mgr'.alloc) = {}
      BY <2>2, PlanDeposits DEF NoteInv
    <3>2. notes' = notes /\ allocations' = allocations
      BY <2>2 DEF PlanFunding, noteVars
    <3>3. Deposited(mgr'.alloc) \notin DOMAIN notes
      BY <3>1 DEF NotesOf, IntervalsOK, Deposited
    <3> QED BY <1>2, <1>3, <3>1, <3>2, <3>3
  <2>3. CASE (\E outcome \in Outcomes : Allocate(outcome)) /\ mgr'.step = "recording" /\ mgr'.alloc = mgr.epoch
    <3>1. notes' = notes
      BY <2>3 DEF Allocate, noteVars
    <3>2. funded < mgr.epoch /\ funded' = mgr.epoch
      BY <1>3, <2>3 DEF Allocate, Off
    <3>3. Deposited(mgr.epoch) \notin DOMAIN notes
      <4>1. Deposited(mgr.epoch)[1] = "deposit" /\ Deposited(mgr.epoch)[2] = mgr.epoch
        BY DEF Deposited
      <4> QED BY <1>3, <3>2, <4>1 DEF IntervalsOK
    <3> QED BY <1>3, <2>3, <3>1, <3>2, <3>3
  <2>4. CASE RecordAllocation /\ mgr'.step = "depositing" /\ mgr'.alloc = mgr.alloc
    <3>1. notes' = notes /\ mgr.step = "recording"
      BY <2>4 DEF RecordAllocation
    <3>2. mgr.alloc \in Nat /\ mgr.alloc <= funded /\ Deposited(mgr.alloc) \notin DOMAIN notes
      BY <3>1 DEF PassOK
    <3> QED BY <1>2, <1>3, <2>4, <3>1, <3>2
  <2> QED BY <2>1, <2>2, <2>3, <2>4
<1>8. \A n : mgr'.step = "landing" /\ n = mgr'.note => Unlanded(n)'
  <2> SUFFICES ASSUME NEW n, mgr'.step = "landing", n = mgr'.note PROVE Unlanded(n)'
    OBVIOUS
  <2>1. (\E outcome \in Outcomes : PrepareDeposit(outcome)) /\ mgr'.note = Deposited(mgr.alloc)
    BY PassSteps DEF GoesOn, Holding
  <2> DEFINE deposit == Deposited(mgr.alloc)
             note == NewNote(allocations[mgr.alloc].amount, mgr.alloc)
  <2>2. /\ notes' = Stored(notes, deposit, note) /\ spentNotes' = spentNotes
        /\ deposit \notin DOMAIN notes
    BY <2>1 DEF PrepareDeposit, PassOK, Off, poolVars
  <2>3. note.status = "pending" /\ note.by = None /\ deposit[1] = "deposit"
    BY DEF NewNote, Deposited
  <2>4. deposit \notin spentNotes
    BY <2>2, <2>3 DEF NoteInv, NamesOK
  <2> HIDE DEF note
  <2>5. deposit \in DOMAIN notes' /\ notes'[deposit] = note
    BY <2>2 DEF Stored
  <2> HIDE DEF deposit
  <2>6. mgr'.note = deposit
    BY <2>1 DEF deposit
  <2> QED BY <2>2, <2>3, <2>4, <2>5, <2>6 DEF Unlanded
<1>9. PassOK'
  BY <1>6, <1>7, <1>8 DEF PassOK, Unlanded
<1> QED BY <1>4, <1>9

-----------------------------------------------------------------------------
(* The theorem.                                                            *)

LEMMA ReservationInitially ==
    ASSUME Init
    PROVE  ReservationInv
<1>1. /\ notes = <<>> /\ allocations = <<>> /\ orders = <<>> /\ spentNotes = {}
      /\ server = Resting /\ mgr = Off /\ clock = 1 /\ funded = 0
  BY DEF Init, OrdersInit
<1>2. DOMAIN notes = {} /\ DOMAIN allocations = {} /\ DOMAIN orders = {}
  BY <1>1
<1>3. server.step = "idle" /\ mgr.step = "idle" /\ mgr.queue = {} /\ mgr.epoch = 0
  BY <1>1 DEF Resting, Off
<1> QED BY <1>1, <1>2, <1>3 DEF ReservationInv, NoteInv, ReservedOnce, ShapesOK, NamesOK, LocksOK,
        PassOK, IntervalsOK

LEMMA ServerReserves ==
    ASSUME NoteInv, NEW out, OrderStep(out), UNCHANGED mgr
    PROVE  NoteInv'
<1>1. CASE \E o \in Orders : Submit(o) \/ Cancel(o) \/ ChooseNotes(o)
  BY <1>1, SubmitReserves, CancelReserves, ReadingReserves
<1>2. CASE StartRun
  BY <1>2, StartRunReserves
<1>3. CASE ReadBacking(out) \/ AllAnswered \/ FindAllocation \/ Flush \/ ServerCrashes
  BY <1>3, ReadingReserves
<1>4. CASE \E outcome \in {"done", "failed"} : ClaimNote(outcome)
  BY <1>4, ClaimReserves
<1>5. CASE MatchBatch
  BY <1>5, MatchReserves
<1>6. CASE FinalizeSettlement
  BY <1>6, FinalizeReserves
<1>7. CASE \E p \in DOMAIN positions :
             \/ \E o \in Outs : PrepareClose(p, o)
             \/ \E outcome \in CloseOutcomes : RelayClose(p, outcome)
             \/ FinalizeClose(p) \/ Liquidate(p)
  BY <1>7, ClosingReserves
<1> QED BY <1>1, <1>2, <1>3, <1>4, <1>5, <1>6, <1>7 DEF OrderStep

\* A note that an open order of the vault rests on is locked by that order and
\* by no other and is not spent, whatever the server's runs, the traders' closes,
\* the manager's drains, withdrawals and deposits, and the crashes of both do.
THEOREM NotesAreReservedOnce == Spec => []ReservedOnce
<1>1. Init => ReservationInv
  BY ReservationInitially
<1>2. ReservationInv /\ [Next]_vars => ReservationInv'
  <2> SUFFICES ASSUME ReservationInv, [Next]_vars PROVE ReservationInv'
    OBVIOUS
  <2>1. NoteInv /\ PassOK /\ IntervalsOK
    BY DEF ReservationInv
  <2>2. CASE Server
    <3>1. OrderStep(Out) /\ UNCHANGED <<mgr, clock, funded>>
      BY <2>2 DEF Server
    <3>2. NoteInv'
      BY <2>1, <3>1, ServerReserves
    <3>3. PassOK' /\ IntervalsOK'
      BY <2>1, <3>1, ServerKeepsPass
    <3> QED BY <3>2, <3>3 DEF ReservationInv
  <2>3. CASE ManagerStep \/ ManagerCrashes
    <3>1. NoteInv'
      BY <2>1, <2>3, ManagerReserves
    <3>2. PassOK' /\ IntervalsOK'
      BY <2>1, <2>3, ManagerKeepsPass
    <3> QED BY <3>1, <3>2 DEF ReservationInv
  <2>4. ASSUME UNCHANGED <<notes, allocations, orders, spentNotes, server, mgr, funded>>,
               clock' \in Nat
        PROVE  ReservationInv'
    <3>1. UNCHANGED <<notes, allocations, orders, spentNotes, server, mgr, funded>>
      BY <2>4
    <3>2. ShapesOK'
      BY <2>1, <3>1 DEF NoteInv, ShapesOK
    <3>3. NoteInv'
      BY <2>1, <3>1, <3>2, NotesLeftAlone
    <3>4. PassOK'
      BY <2>1, <3>1 DEF PassOK, Retired, Unlanded
    <3>5. IntervalsOK'
      BY <2>1, <2>4, <3>1 DEF IntervalsOK
    <3> QED BY <3>3, <3>4, <3>5 DEF ReservationInv
  <2>5. CASE \E o \in Owners : ClaimRedemption(o) \/ \E n \in Requests : RequestRedemption(o, n)
    <3>1. UNCHANGED <<notes, allocations, orders, spentNotes, server, mgr, clock, funded>>
      BY <2>5 DEF ClaimRedemption, RequestRedemption, noteVars, orderVars, bookVars, poolVars
    <3> QED BY <2>1, <2>4, <3>1 DEF IntervalsOK
  <2>6. CASE NextInterval
    <3>1. UNCHANGED <<notes, allocations, orders, spentNotes, server, mgr, funded>> /\ clock' = clock + 1
      BY <2>6 DEF NextInterval, noteVars, orderVars, bookVars, poolVars
    <3> QED BY <2>1, <2>4, <3>1 DEF IntervalsOK
  <2>7. CASE UNCHANGED vars
    <3>1. UNCHANGED <<notes, allocations, orders, spentNotes, server, mgr, clock, funded>>
      BY <2>7 DEF vars, noteVars, orderVars, bookVars, poolVars
    <3> QED BY <2>1, <2>4, <3>1 DEF IntervalsOK
  <2> QED BY <2>2, <2>3, <2>5, <2>6, <2>7 DEF Next
<1>3. ReservationInv => ReservedOnce
  BY DEF ReservationInv, NoteInv
<1> QED BY <1>1, <1>2, <1>3, PTL DEF Spec

-----------------------------------------------------------------------------
(* The matcher's jobs.                                                     *)

\* What is proved, or being proved, is a draft; a directory never changes the
\* proof it holds, so a job is completed with it.
JobsInv ==
  /\ JobsTypeOK
  /\ \A p \in Processes, j \in Jobs : work[p][j].step = "proving" => work[p][j].draft # NoProof
  /\ \A j \in Jobs : jobs[j].status = "completed" =>
       jobs[j].result # NoProof /\ proofs[BatchOf[j]] = jobs[j].result

Batches == {BatchOf[j] : j \in Jobs}

LEMMA DraftIsProof ==
  ASSUME NEW j \in Jobs, NEW v \in 0..MaxView
  PROVE  Draft(j, v) \in Drafts /\ Draft(j, v) # NoProof
BY JobsAssumption DEF Draft, Drafts, NoProof

\* What the helpers make of a job, and of what a process works on, is typed.
LEMMA JobsAreTyped ==
  /\ \A job \in JobStates : Enqueued(job) \in JobStates /\ FailJob(job) \in JobStates
  /\ \A job \in JobStates, draft \in Drafts \cup {NoProof} : CompleteJob(job, draft) \in JobStates
  /\ \A job \in JobStates : [job EXCEPT !.retry = "due"] \in JobStates
  /\ \A job \in JobStates : [job EXCEPT !.status = "proving", !.attempts = @ + 1] \in JobStates
  /\ NoJob \in JobStates /\ Idle \in WorkStates
<1>1. \A job \in JobStates : Enqueued(job) \in JobStates
  BY DEF Enqueued, JobStates
<1>2. \A job \in JobStates : FailJob(job) \in JobStates
  BY DEF FailJob, JobStates
<1>3. \A job \in JobStates, draft \in Drafts \cup {NoProof} : CompleteJob(job, draft) \in JobStates
  BY DEF CompleteJob, JobStates
<1>4. \A job \in JobStates : [job EXCEPT !.retry = "due"] \in JobStates
  BY DEF JobStates
<1>5. ASSUME NEW job \in JobStates
      PROVE  [job EXCEPT !.status = "proving", !.attempts = @ + 1] \in JobStates
  <2>1. job.attempts + 1 \in Nat
    BY DEF JobStates
  <2> QED BY <2>1 DEF JobStates
<1>6. NoJob \in JobStates /\ Idle \in WorkStates
  BY DEF NoJob, Idle, JobStates, WorkStates
<1> QED BY <1>1, <1>2, <1>3, <1>4, <1>5, <1>6

LEMMA KickedTyped ==
  ASSUME NEW works \in [Jobs -> WorkStates], NEW S
  PROVE  Kicked(works, S) \in [Jobs -> WorkStates]
BY DEF Kicked, WorkStates

\* A kicked process proves only what it proved.
LEMMA KickedProvesNothing ==
  ASSUME NEW works \in [Jobs -> WorkStates], NEW S, NEW j \in Jobs,
         Kicked(works, S)[j].step = "proving"
  PROVE  works[j].step = "proving" /\ Kicked(works, S)[j].draft = works[j].draft
BY DEF Kicked, WorkStates

\* One process's work is replaced, or its work on one job.
LEMMA WorkReplaced ==
  ASSUME NEW works \in [Processes -> [Jobs -> WorkStates]], NEW p \in Processes,
         NEW row \in [Jobs -> WorkStates]
  PROVE  /\ [works EXCEPT ![p] = row] \in [Processes -> [Jobs -> WorkStates]]
         /\ \A r \in Processes, k \in Jobs :
              [works EXCEPT ![p] = row][r][k] = IF r = p THEN row[k] ELSE works[r][k]
<1>1. [works EXCEPT ![p] = row] \in [Processes -> [Jobs -> WorkStates]]
  OBVIOUS
<1>2. \A r \in Processes : [works EXCEPT ![p] = row][r] = IF r = p THEN row ELSE works[r]
  OBVIOUS
<1> QED BY <1>1, <1>2

LEMMA OneWorkReplaced ==
  ASSUME NEW works \in [Processes -> [Jobs -> WorkStates]], NEW p \in Processes, NEW j \in Jobs,
         NEW one \in WorkStates
  PROVE  /\ [works EXCEPT ![p][j] = one] \in [Processes -> [Jobs -> WorkStates]]
         /\ \A r \in Processes, k \in Jobs :
              [works EXCEPT ![p][j] = one][r][k] = IF r = p /\ k = j THEN one ELSE works[r][k]
<1> DEFINE row == [works[p] EXCEPT ![j] = one]
<1>1. row \in [Jobs -> WorkStates] /\ \A k \in Jobs : row[k] = IF k = j THEN one ELSE works[p][k]
  OBVIOUS
<1>2. [works EXCEPT ![p][j] = one] = [works EXCEPT ![p] = row]
  OBVIOUS
<1> HIDE DEF row
<1> QED BY <1>1, <1>2, WorkReplaced

\* One job is replaced.
LEMMA JobReplaced ==
  ASSUME NEW all \in [Jobs -> JobStates], NEW j \in Jobs, NEW job \in JobStates
  PROVE  /\ [all EXCEPT ![j] = job] \in [Jobs -> JobStates]
         /\ \A k \in Jobs : [all EXCEPT ![j] = job][k] = IF k = j THEN job ELSE all[k]
OBVIOUS

\* A process that is kicked, or is done with a job, proves nothing new.
LEMMA KickKeepsProofs ==
  ASSUME JobsInv, NEW p \in Processes, NEW S, NEW r \in Processes, NEW k \in Jobs,
         [work EXCEPT ![p] = Kicked(work[p], S)][r][k].step = "proving"
  PROVE  [work EXCEPT ![p] = Kicked(work[p], S)][r][k].draft # NoProof
<1> DEFINE row == Kicked(work[p], S)
<1>1. work \in [Processes -> [Jobs -> WorkStates]] /\ work[p] \in [Jobs -> WorkStates]
  BY DEF JobsInv, JobsTypeOK
<1>2. row \in [Jobs -> WorkStates]
  BY <1>1, KickedTyped
<1>3. row[k].step = "proving" => work[p][k].step = "proving" /\ row[k].draft = work[p][k].draft
  BY <1>1, KickedProvesNothing
<1> HIDE DEF row
<1>4. [work EXCEPT ![p] = row][r][k] = IF r = p THEN row[k] ELSE work[r][k]
  BY <1>1, <1>2, WorkReplaced
<1> QED BY <1>3, <1>4 DEF row, JobsInv

LEMMA IdleKeepsProofs ==
  ASSUME JobsInv, NEW p \in Processes, NEW j \in Jobs, NEW r \in Processes, NEW k \in Jobs,
         [work EXCEPT ![p][j] = Idle][r][k].step = "proving"
  PROVE  [work EXCEPT ![p][j] = Idle][r][k].draft # NoProof
<1>1. work \in [Processes -> [Jobs -> WorkStates]]
  BY DEF JobsInv, JobsTypeOK
<1>2. Idle \in WorkStates
  BY JobsAreTyped
<1>3. [work EXCEPT ![p][j] = Idle][r][k] = IF r = p /\ k = j THEN Idle ELSE work[r][k]
  BY <1>1, <1>2, OneWorkReplaced
<1>4. Idle.step # "proving"
  BY DEF Idle
<1> QED BY <1>3, <1>4 DEF JobsInv

\* A claim takes one attempt; a start queues what was being proved.
LEMMA ClaimedTyped ==
  ASSUME JobsTypeOK, NEW p \in Processes, NEW j \in Jobs, Claim(p, j)
  PROVE  /\ jobs' \in [Jobs -> JobStates]
         /\ \A k \in Jobs : jobs'[k].status = "completed" => jobs'[k] = jobs[k]
<1> DEFINE job == [jobs[j] EXCEPT !.status = "proving", !.attempts = @ + 1]
<1>0. jobs \in [Jobs -> JobStates]
  BY DEF JobsTypeOK
<1>1. job \in JobStates
  BY <1>0, JobsAreTyped
<1>3. job.status # "completed"
  BY <1>0 DEF JobStates
<1>2. jobs' = jobs \/ jobs' = [jobs EXCEPT ![j] = job]
  BY <1>0 DEF Claim
<1> HIDE DEF job
<1> QED BY <1>0, <1>1, <1>2, <1>3, JobReplaced

LEMMA RequeuedTyped ==
  ASSUME JobsTypeOK, NEW p \in Processes, ProcessStarts(p)
  PROVE  /\ jobs' \in [Jobs -> JobStates]
         /\ \A k \in Jobs : jobs'[k].status = "completed" => jobs'[k] = jobs[k]
<1> DEFINE queued(k) == IF jobs[k].status = "proving"
                        THEN [jobs[k] EXCEPT !.status = "queued"] ELSE jobs[k]
<1>1. \A k \in Jobs : queued(k) \in JobStates /\ (queued(k).status = "completed" => queued(k) = jobs[k])
  BY DEF JobsTypeOK, JobStates
<1>2. jobs' = [k \in Jobs |-> queued(k)]
  BY DEF ProcessStarts
<1> HIDE DEF queued
<1> QED BY <1>1, <1>2

\* Every action leaves the types.
LEMMA JobsTyped ==
  ASSUME JobsInv, [JobsNext]_jobVars
  PROVE  JobsTypeOK'
<1> USE DEF JobsInv, JobsTypeOK
<1>1. CASE UNCHANGED jobVars
  BY <1>1 DEF jobVars
<1>2. ASSUME NEW j \in Jobs, Poll(j) \/ PollFails(j) PROVE JobsTypeOK'
  BY <1>2 DEF Poll, PollFails
<1>3. ASSUME NEW j \in Jobs, RetryComesDue(j) PROVE JobsTypeOK'
  <2>1. [jobs[j] EXCEPT !.retry = "due"] \in JobStates
    BY JobsAreTyped
  <2>2. jobs' = [jobs EXCEPT ![j] = [jobs[j] EXCEPT !.retry = "due"]]
    BY <1>3 DEF RetryComesDue
  <2>3. jobs' \in [Jobs -> JobStates]
    BY <2>1, <2>2, JobReplaced
  <2> QED BY <1>3, <2>3 DEF RetryComesDue
<1>4. ASSUME NEW j \in Jobs, NEW p \in Processes, Enqueue(j, p) PROVE JobsTypeOK'
  <2>1. Enqueued(jobs[j]) \in JobStates /\ Kicked(work[p], {j}) \in [Jobs -> WorkStates]
    BY JobsAreTyped, KickedTyped
  <2>2. /\ jobs' = [jobs EXCEPT ![j] = Enqueued(jobs[j])]
        /\ work' = [work EXCEPT ![p] = Kicked(work[p], {j})]
    BY <1>4 DEF Enqueue
  <2>3. jobs' \in [Jobs -> JobStates]
    BY <2>1, <2>2, JobReplaced
  <2>4. work' \in [Processes -> [Jobs -> WorkStates]]
    BY <2>1, <2>2, WorkReplaced
  <2> QED BY <1>4, <2>3, <2>4 DEF Enqueue
<1>5. ASSUME NEW j \in Jobs, NEW p \in Processes, Claim(p, j) PROVE JobsTypeOK'
  <2>1. [step |-> "proving", draft |-> Draft(j, view)] \in WorkStates /\ Idle \in WorkStates
    BY DraftIsProof, JobsAreTyped DEF WorkStates
  <2>2. PICK one \in WorkStates : work' = [work EXCEPT ![p][j] = one]
    BY <1>5, <2>1 DEF Claim
  <2>3. work' \in [Processes -> [Jobs -> WorkStates]]
    BY <2>2, OneWorkReplaced
  <2>4. jobs' \in [Jobs -> JobStates]
    BY <1>5, ClaimedTyped
  <2> QED BY <1>5, <2>3, <2>4 DEF Claim
<1>6. ASSUME NEW j \in Jobs, NEW p \in Processes, ProverAnswers(p, j) PROVE JobsTypeOK'
  <2> DEFINE draft == work[p][j].draft
             proof == ProofFor(j, draft)
             job == IF proof = draft THEN CompleteJob(jobs[j], draft) ELSE FailJob(jobs[j])
  <2>1. draft \in Drafts \cup {NoProof}
    BY DEF WorkStates
  <2>2. proof \in Drafts \cup {NoProof}
    BY <2>1 DEF ProofFor
  <2>3. job \in JobStates
    BY <2>1, JobsAreTyped
  <2>4. /\ proofs' = [proofs EXCEPT ![BatchOf[j]] = proof]
        /\ jobs' = [jobs EXCEPT ![j] = job]
        /\ work' = [work EXCEPT ![p][j] = Idle]
    BY <1>6 DEF ProverAnswers
  <2> HIDE DEF draft, proof, job
  <2>5. jobs' \in [Jobs -> JobStates] /\ work' \in [Processes -> [Jobs -> WorkStates]]
    BY <2>3, <2>4, JobsAreTyped, JobReplaced, OneWorkReplaced
  <2>6. proofs' \in [{BatchOf[k] : k \in Jobs} -> Drafts \cup {NoProof}]
    BY <2>2, <2>4
  <2> QED BY <1>6, <2>5, <2>6 DEF ProverAnswers
<1>7. ASSUME NEW j \in Jobs, NEW p \in Processes, MatchIsRefused(p, j) \/ ProverFails(p, j)
      PROVE  JobsTypeOK'
  <2>1. /\ jobs' = [jobs EXCEPT ![j] = FailJob(jobs[j])]
        /\ work' = [work EXCEPT ![p][j] = Idle]
    BY <1>7 DEF MatchIsRefused, ProverFails
  <2>0. jobs' \in [Jobs -> JobStates]
    BY <2>1, JobsAreTyped, JobReplaced
  <2>2. jobs' \in [Jobs -> JobStates] /\ work' \in [Processes -> [Jobs -> WorkStates]]
    BY <2>0, <2>1, JobsAreTyped, OneWorkReplaced
  <2> QED BY <1>7, <2>2 DEF MatchIsRefused, ProverFails
<1>8. CASE ViewMoves
  BY <1>8, JobsAssumption DEF ViewMoves
<1>9. ASSUME NEW p \in Processes, ProcessCrashes(p) PROVE JobsTypeOK'
  <2>1. [j \in Jobs |-> Idle] \in [Jobs -> WorkStates]
    BY JobsAreTyped
  <2>2. work' \in [Processes -> [Jobs -> WorkStates]]
    BY <1>9, <2>1, WorkReplaced DEF ProcessCrashes
  <2> QED BY <1>9, <2>2 DEF ProcessCrashes
<1>10. ASSUME NEW p \in Processes, ProcessStarts(p) PROVE JobsTypeOK'
  <2>1. jobs' \in [Jobs -> JobStates]
    BY <1>10, RequeuedTyped
  <2> DEFINE row == Kicked(work[p], {j \in Jobs : jobs'[j].status = "queued"})
  <2>2. work' = [work EXCEPT ![p] = row]
    BY <1>10 DEF ProcessStarts
  <2>3. row \in [Jobs -> WorkStates]
    BY KickedTyped
  <2> HIDE DEF row
  <2>4. work' \in [Processes -> [Jobs -> WorkStates]]
    BY <2>2, <2>3, WorkReplaced
  <2> QED BY <1>10, <2>1, <2>4 DEF ProcessStarts
<1> QED BY <1>1, <1>2, <1>3, <1>4, <1>5, <1>6, <1>7, <1>8, <1>9, <1>10 DEF JobsNext, ProcessStep

\* ResultIsProved: what a completed job answers is what the directory of its
\* batch holds a proof of, whatever crashes, restarts and repeated posts let two
\* processes work on one job and two jobs on one directory.
THEOREM ResultsAreProved == JobsSpec => []ResultIsProved
<1>1. JobsInit => JobsInv
  <2> SUFFICES ASSUME JobsInit PROVE JobsInv
    OBVIOUS
  <2>1. PICK picked \in [Jobs -> Books], running \in SUBSET Processes : JobsStart(picked, running)
    BY DEF JobsInit
  <2>2. 0 \in 0..MaxView
    BY JobsAssumption
  <2>3. jobs \in [Jobs -> JobStates] /\ work \in [Processes -> [Jobs -> WorkStates]]
    BY <2>1, JobsAreTyped DEF JobsStart
  <2>4. JobsTypeOK
    BY <2>1, <2>2, <2>3 DEF JobsStart, JobsTypeOK
  <2>5. \A p \in Processes, j \in Jobs : work[p][j] = Idle
    BY DEF JobsInit, JobsStart
  <2>6. \A j \in Jobs : jobs[j] = NoJob
    BY DEF JobsInit, JobsStart
  <2> QED BY <2>4, <2>5, <2>6 DEF JobsInv, NoJob, Idle
<1>2. JobsInv /\ [JobsNext]_jobVars => JobsInv'
  <2> SUFFICES ASSUME JobsInv, [JobsNext]_jobVars PROVE JobsInv'
    OBVIOUS
  <2>0. JobsTypeOK'
    BY JobsTyped
  <2>1. CASE UNCHANGED jobVars
    BY <2>0, <2>1 DEF jobVars, JobsInv
  <2>2. ASSUME NEW j \in Jobs, Poll(j) \/ PollFails(j) PROVE JobsInv'
    BY <2>0, <2>2 DEF Poll, PollFails, JobsInv
  <2> USE DEF JobsInv, JobsTypeOK
  <2>3. ASSUME NEW j \in Jobs, RetryComesDue(j) PROVE JobsInv'
    <3>1. \A k \in Jobs : jobs'[k].status = jobs[k].status /\ jobs'[k].result = jobs[k].result
      BY <2>3 DEF RetryComesDue, JobStates
    <3> QED BY <2>0, <2>3, <3>1 DEF RetryComesDue
  <2>4. ASSUME NEW j \in Jobs, NEW p \in Processes, Enqueue(j, p) PROVE JobsInv'
    <3>1. jobs' = [jobs EXCEPT ![j] = Enqueued(jobs[j])]
      BY <2>4 DEF Enqueue
    <3>2. Enqueued(jobs[j]).status = "completed" => Enqueued(jobs[j]) = jobs[j]
      BY DEF Enqueued, JobStates
    <3>3. \A k \in Jobs : jobs'[k].status = "completed" => jobs'[k] = jobs[k]
      BY <3>1, <3>2, JobsAreTyped, JobReplaced
    <3>4. work' = [work EXCEPT ![p] = Kicked(work[p], {j})] /\ proofs' = proofs
      BY <2>4 DEF Enqueue
    <3>5. ASSUME NEW r \in Processes, NEW k \in Jobs, work'[r][k].step = "proving"
          PROVE  work'[r][k].draft # NoProof
      BY <3>4, <3>5, KickKeepsProofs
    <3> QED BY <2>0, <3>3, <3>4, <3>5
  <2>5. ASSUME NEW j \in Jobs, NEW p \in Processes, Claim(p, j) PROVE JobsInv'
    <3>1. \A k \in Jobs : jobs'[k].status = "completed" => jobs'[k] = jobs[k]
      BY <2>5, ClaimedTyped
    <3> DEFINE proving == [step |-> "proving", draft |-> Draft(j, view)]
    <3>2. /\ proving \in WorkStates /\ Idle \in WorkStates
          /\ proving.draft # NoProof /\ Idle.step # "proving"
      BY DraftIsProof, JobsAreTyped DEF WorkStates, Idle
    <3>3. PICK one \in {proving, Idle} : work' = [work EXCEPT ![p][j] = one]
      BY <2>5 DEF Claim
    <3> HIDE DEF proving
    <3>4. ASSUME NEW r \in Processes, NEW k \in Jobs, work'[r][k].step = "proving"
          PROVE  work'[r][k].draft # NoProof
      BY <3>2, <3>3, <3>4, OneWorkReplaced
    <3> QED BY <2>0, <2>5, <3>1, <3>4 DEF Claim
  <2>6. ASSUME NEW j \in Jobs, NEW p \in Processes, ProverAnswers(p, j) PROVE JobsInv'
    <3> DEFINE draft == work[p][j].draft
               proof == ProofFor(j, draft)
               job == IF proof = draft THEN CompleteJob(jobs[j], draft) ELSE FailJob(jobs[j])
    <3>1. draft # NoProof
      BY <2>6 DEF ProverAnswers
    <3>2. proof # NoProof /\ (proofs[BatchOf[j]] # NoProof => proof = proofs[BatchOf[j]])
      BY <3>1 DEF ProofFor
    <3>3. /\ proofs'[BatchOf[j]] = proof
          /\ \A b \in Batches : b # BatchOf[j] => proofs'[b] = proofs[b]
      BY <2>6 DEF ProverAnswers, Batches
    <3>4. jobs' = [jobs EXCEPT ![j] = job] /\ work' = [work EXCEPT ![p][j] = Idle]
      BY <2>6 DEF ProverAnswers
    <3>5. draft \in Drafts \cup {NoProof}
      BY DEF WorkStates
    <3>6. job \in JobStates
      BY <3>5, JobsAreTyped
    <3>7. job.status = "completed" => job = jobs[j] \/ (proof = draft /\ job.result = draft)
      BY DEF CompleteJob, FailJob, JobStates
    <3> HIDE DEF draft, proof, job
    <3>8. ASSUME NEW r \in Processes, NEW k \in Jobs, work'[r][k].step = "proving"
          PROVE  work'[r][k].draft # NoProof
      BY <3>4, <3>8, IdleKeepsProofs
    <3>9. jobs'[j] = job /\ \A k \in Jobs : k # j => jobs'[k] = jobs[k]
      BY <3>4, <3>6, JobReplaced
    <3>10. ASSUME NEW k \in Jobs, jobs[k].status = "completed"
           PROVE  proofs'[BatchOf[k]] = jobs[k].result /\ jobs[k].result # NoProof
      <4>1. CASE BatchOf[k] = BatchOf[j]
        BY <3>2, <3>3, <3>10, <4>1
      <4>2. CASE BatchOf[k] # BatchOf[j]
        BY <3>3, <3>10, <4>2 DEF Batches
      <4> QED BY <4>1, <4>2
    <3>11. ASSUME NEW k \in Jobs, jobs'[k].status = "completed"
           PROVE  jobs'[k].result # NoProof /\ proofs'[BatchOf[k]] = jobs'[k].result
      BY <3>1, <3>3, <3>7, <3>9, <3>10, <3>11
    <3> QED BY <2>0, <3>8, <3>11
  <2>7. ASSUME NEW j \in Jobs, NEW p \in Processes, MatchIsRefused(p, j) \/ ProverFails(p, j)
        PROVE  JobsInv'
    <3>1. /\ jobs' = [jobs EXCEPT ![j] = FailJob(jobs[j])]
          /\ work' = [work EXCEPT ![p][j] = Idle] /\ proofs' = proofs
      BY <2>7 DEF MatchIsRefused, ProverFails
    <3>2. FailJob(jobs[j]).status = "completed" => FailJob(jobs[j]) = jobs[j]
      BY DEF FailJob, JobStates
    <3>3. \A k \in Jobs : jobs'[k].status = "completed" => jobs'[k] = jobs[k]
      BY <3>1, <3>2, JobsAreTyped, JobReplaced
    <3>4. ASSUME NEW r \in Processes, NEW k \in Jobs, work'[r][k].step = "proving"
          PROVE  work'[r][k].draft # NoProof
      BY <3>1, <3>4, IdleKeepsProofs
    <3> QED BY <2>0, <3>1, <3>3, <3>4
  <2>8. CASE ViewMoves
    BY <2>0, <2>8 DEF ViewMoves
  <2>9. ASSUME NEW p \in Processes, ProcessCrashes(p) PROVE JobsInv'
    <3> DEFINE row == [j \in Jobs |-> Idle]
    <3>1. row \in [Jobs -> WorkStates] /\ \A j \in Jobs : row[j].step # "proving"
      BY JobsAreTyped DEF Idle
    <3>2. work' = [work EXCEPT ![p] = row] /\ UNCHANGED <<jobs, proofs>>
      BY <2>9 DEF ProcessCrashes
    <3> HIDE DEF row
    <3>3. ASSUME NEW r \in Processes, NEW k \in Jobs, work'[r][k].step = "proving"
          PROVE  work'[r][k].draft # NoProof
      BY <3>1, <3>2, <3>3, WorkReplaced
    <3> QED BY <2>0, <3>2, <3>3
  <2>10. ASSUME NEW p \in Processes, ProcessStarts(p) PROVE JobsInv'
    <3>1. \A k \in Jobs : jobs'[k].status = "completed" => jobs'[k] = jobs[k]
      BY <2>10, RequeuedTyped
    <3> DEFINE S == {j \in Jobs : jobs'[j].status = "queued"}
    <3>2. work' = [work EXCEPT ![p] = Kicked(work[p], S)] /\ proofs' = proofs
      BY <2>10 DEF ProcessStarts
    <3> HIDE DEF S
    <3>3. ASSUME NEW r \in Processes, NEW k \in Jobs, work'[r][k].step = "proving"
          PROVE  work'[r][k].draft # NoProof
      BY <3>2, <3>3, KickKeepsProofs
    <3> QED BY <2>0, <3>1, <3>2, <3>3
  <2> QED BY <2>1, <2>2, <2>3, <2>4, <2>5, <2>6, <2>7, <2>8, <2>9, <2>10 DEF JobsNext, ProcessStep
<1>3. JobsInv => ResultIsProved
  BY DEF JobsInv, ResultIsProved
<1> QED BY <1>1, <1>2, <1>3, PTL DEF JobsSpec

-----------------------------------------------------------------------------
(* Deployment: the lists of calls.                                         *)

\* A sequence of what is in it.
IsList(s) == s \in Seq(ToSet(s))

LEMMA ListIs ==
  ASSUME NEW s, IsList(s)
  PROVE  /\ Len(s) \in Nat /\ DOMAIN s = 1..Len(s)
         /\ \A x : x \in ToSet(s) <=> \E i \in 1..Len(s) : x = s[i]
<1>1. Len(s) \in Nat /\ DOMAIN s = 1..Len(s)
  BY LenProperties DEF IsList
<1> QED BY <1>1 DEF ToSet

LEMMA FunctionIsList ==
  ASSUME NEW n \in Nat, NEW s, s = [i \in 1..n |-> s[i]]
  PROVE  IsList(s)
<1>1. DOMAIN s = 1..n
  OBVIOUS
<1>2. s \in [1..n -> ToSet(s)]
  BY <1>1 DEF ToSet
<1>3. s \in Seq(ToSet(s))
  BY <1>2
<1> QED BY <1>3 DEF IsList

\* A list that is appended to another keeps its members and the other's.
LEMMA ListsJoined ==
  ASSUME NEW s, NEW t, IsList(s), IsList(t)
  PROVE  /\ IsList(s \o t)
         /\ ToSet(s) \subseteq ToSet(s \o t) /\ ToSet(t) \subseteq ToSet(s \o t)
<1> DEFINE S == ToSet(s) \cup ToSet(t)
<1>1. s \in Seq(S) /\ t \in Seq(S)
  <2>1. s \in Seq(ToSet(s)) /\ t \in Seq(ToSet(t)) /\ ToSet(s) \subseteq S /\ ToSet(t) \subseteq S
    BY DEF IsList
  <2> HIDE DEF S
  <2> QED BY <2>1, SeqMonotonic
<1> HIDE DEF S
<1>2. /\ s \o t \in Seq(S) /\ Len(s \o t) = Len(s) + Len(t)
      /\ \A i \in 1..Len(s) + Len(t) : (s \o t)[i] = IF i <= Len(s) THEN s[i] ELSE t[i - Len(s)]
  BY <1>1, ConcatProperties
<1> DEFINE both == s \o t
<1>3. both \in Seq(S) /\ Len(both) = Len(s) + Len(t) /\ DOMAIN both = 1..Len(s) + Len(t)
  BY <1>2, LenProperties
<1>4. Len(s) \in Nat /\ Len(t) \in Nat
  BY ListIs
<1>5. /\ \A i \in 1..Len(s) : i \in 1..Len(s) + Len(t) /\ both[i] = s[i]
      /\ \A i \in 1..Len(t) : Len(s) + i \in 1..Len(s) + Len(t) /\ both[Len(s) + i] = t[i]
  BY <1>2, <1>4
<1> HIDE DEF both
<1>6. \A i \in 1..Len(s) + Len(t) : both[i] \in ToSet(both)
  BY <1>3 DEF ToSet
<1>7. ASSUME NEW x \in ToSet(s) PROVE x \in ToSet(both)
  BY <1>5, <1>6, ListIs
<1>8. ASSUME NEW x \in ToSet(t) PROVE x \in ToSet(both)
  BY <1>5, <1>6, ListIs
<1>9. both = [i \in 1..Len(s) + Len(t) |-> both[i]]
  BY <1>3, LenProperties
<1>10. IsList(both)
  BY <1>4, <1>9, FunctionIsList
<1>11. ToSet(s) \subseteq ToSet(both) /\ ToSet(t) \subseteq ToSet(both)
  BY <1>7, <1>8
<1> QED BY <1>10, <1>11 DEF both

LEMMA OnlyIfList ==
  ASSUME NEW b \in BOOLEAN, NEW s, IsList(s)
  PROVE  IsList(OnlyIf(b, s)) /\ (b => OnlyIf(b, s) = s)
<1>1. IsList(<<>>)
  BY DEF IsList
<1> QED BY <1>1 DEF OnlyIf

\* The lists that are written out.
LEMMA WrittenOut ==
  /\ \A a : IsList(<<a>>) /\ a \in ToSet(<<a>>)
  /\ \A a, b : IsList(<<a, b>>) /\ {a, b} \subseteq ToSet(<<a, b>>)
  /\ \A a, b, c : IsList(<<a, b, c>>) /\ {a, b, c} \subseteq ToSet(<<a, b, c>>)
  /\ \A a, b, c, d : IsList(<<a, b, c, d>>) /\ {a, b, c, d} \subseteq ToSet(<<a, b, c, d>>)
  /\ \A a, b, c, d, e : IsList(<<a, b, c, d, e>>) /\ {a, b, c, d, e} \subseteq ToSet(<<a, b, c, d, e>>)
<1>1. ASSUME NEW a PROVE IsList(<<a>>) /\ a \in ToSet(<<a>>)
  BY DEF IsList, ToSet
<1>2. ASSUME NEW a, NEW b PROVE IsList(<<a, b>>) /\ {a, b} \subseteq ToSet(<<a, b>>)
  BY DEF IsList, ToSet
<1>3. ASSUME NEW a, NEW b, NEW c PROVE IsList(<<a, b, c>>) /\ {a, b, c} \subseteq ToSet(<<a, b, c>>)
  BY DEF IsList, ToSet
<1>4. ASSUME NEW a, NEW b, NEW c, NEW d
      PROVE  IsList(<<a, b, c, d>>) /\ {a, b, c, d} \subseteq ToSet(<<a, b, c, d>>)
  BY DEF IsList, ToSet
<1>5. ASSUME NEW a, NEW b, NEW c, NEW d, NEW e
      PROVE  IsList(<<a, b, c, d, e>>) /\ {a, b, c, d, e} \subseteq ToSet(<<a, b, c, d, e>>)
  BY DEF IsList, ToSet
<1> QED BY <1>1, <1>2, <1>3, <1>4, <1>5

LEMMA CreatedIsList ==
  ASSUME NEW names, IsList(names)
  PROVE  IsList(Created(names))
<1>1. Len(names) \in Nat /\ DOMAIN names = 1..Len(names)
  BY ListIs
<1>2. Created(names) = [i \in 1..Len(names) |-> Created(names)[i]]
  BY <1>1 DEF Created
<1> QED BY <1>1, <1>2, FunctionIsList

LEMMA VerifiersAreListed ==
  /\ IsList(Verifiers)
  /\ \A c \in ToSet(Circuits) : Start(Verifier(c)) \in ToSet(Verifiers) /\ Register(c) \in ToSet(Verifiers)
<1> DEFINE n == Len(Circuits)
           circuit(i) == Circuits[(i + 1) \div 2]
<1>1. n \in Nat /\ DOMAIN Circuits = 1..n
  BY DeploymentAssumption, LenProperties
<1>2. \A k \in 1..n : /\ 2 * k - 1 \in 1..2 * n /\ (2 * k - 1) % 2 = 1 /\ (2 * k - 1 + 1) \div 2 = k
                      /\ 2 * k \in 1..2 * n /\ (2 * k) % 2 = 0 /\ (2 * k + 1) \div 2 = k
  BY <1>1
<1>3. Verifiers = [i \in 1..2 * n |-> IF i % 2 = 1 THEN Start(Verifier(circuit(i))) ELSE Register(circuit(i))]
  BY DEF Verifiers
<1> HIDE DEF circuit
<1>4. IsList(Verifiers)
  <2>1. Verifiers = [i \in 1..2 * n |-> Verifiers[i]]
    BY <1>3
  <2> QED BY <1>1, <2>1, FunctionIsList
<1>5. ASSUME NEW k \in 1..n
      PROVE  Start(Verifier(Circuits[k])) \in ToSet(Verifiers) /\ Register(Circuits[k]) \in ToSet(Verifiers)
  <2>1. circuit(2 * k - 1) = Circuits[k] /\ circuit(2 * k) = Circuits[k]
    BY <1>2 DEF circuit
  <2>2. Verifiers[2 * k - 1] = Start(Verifier(Circuits[k])) /\ Verifiers[2 * k] = Register(Circuits[k])
    BY <1>2, <1>3, <2>1
  <2> QED BY <1>2, <1>3, <2>2 DEF ToSet
<1> QED BY <1>1, <1>4, <1>5 DEF ToSet

\* Each part of a deployment makes the calls it is for.
LEMMA RiscZeroStackCalls == IsList(RiscZeroStack) /\ AddRouted \in ToSet(RiscZeroStack)
BY WrittenOut, CreatedIsList, ListsJoined DEF RiscZeroStack

LEMMA ContractsAreList == IsList(Contracts)
<1>1. IsList(DeployableContracts)
  <2>1. DeployableContracts = [i \in 1..13 |-> DeployableContracts[i]]
    BY DEF DeployableContracts
  <2> QED BY <2>1, FunctionIsList
<1> DEFINE verifiers == [i \in DOMAIN Circuits |-> Verifier(Circuits[i])]
<1>2. IsList(verifiers)
  <2>1. Len(Circuits) \in Nat /\ DOMAIN Circuits = 1..Len(Circuits)
    BY DeploymentAssumption, LenProperties
  <2>2. verifiers = [i \in 1..Len(Circuits) |-> verifiers[i]]
    BY <2>1
  <2> HIDE DEF verifiers
  <2> QED BY <2>1, <2>2, FunctionIsList
<1>3. Contracts = Created(DeployableContracts) \o Created(verifiers)
  BY DEF Contracts
<1> HIDE DEF verifiers
<1> QED BY <1>1, <1>2, <1>3, CreatedIsList, ListsJoined

LEMMA OwnedCalls ==
  ASSUME NEW name
  PROVE  IsList(Owned(name)) /\ Authority(name) \in ToSet(Owned(name))
BY WrittenOut DEF Owned

LEMMA FoundationsCalls ==
  /\ IsList(Foundations)
  /\ {Start("governance"), Authority("governance"), Start("proof-ledger"),
      Start("price-oracle"), Authority("price-oracle")} \subseteq ToSet(Foundations)
<1> DEFINE A == <<Start("governance")>>
           B == Owned("governance")
           C == <<Start("proof-ledger"), Start("price-oracle")>>
           D == Owned("price-oracle")
<1>1. /\ IsList(A) /\ Start("governance") \in ToSet(A)
      /\ IsList(C) /\ {Start("proof-ledger"), Start("price-oracle")} \subseteq ToSet(C)
  BY WrittenOut
<1>2. /\ IsList(B) /\ Authority("governance") \in ToSet(B)
      /\ IsList(D) /\ Authority("price-oracle") \in ToSet(D)
  BY OwnedCalls
<1>3. Foundations = ((A \o B) \o C) \o D
  BY DEF Foundations
<1> HIDE DEF A, B, C, D
<1>4. /\ IsList(A \o B) /\ {Start("governance"), Authority("governance")} \subseteq ToSet(A \o B)
  BY <1>1, <1>2, ListsJoined
<1>5. /\ IsList((A \o B) \o C)
      /\ ToSet(A \o B) \subseteq ToSet((A \o B) \o C) /\ ToSet(C) \subseteq ToSet((A \o B) \o C)
  BY <1>1, <1>4, ListsJoined
<1>6. /\ IsList(Foundations)
      /\ ToSet((A \o B) \o C) \subseteq ToSet(Foundations) /\ ToSet(D) \subseteq ToSet(Foundations)
  BY <1>2, <1>3, <1>5, ListsJoined
<1> QED BY <1>1, <1>2, <1>4, <1>5, <1>6

LEMMA StateWritersCalls ==
  /\ IsList(StateWriters)
  /\ ToSet(StateWriters) =
       { Writer("position-state", "batch-settlement"), Writer("shielded-pool", "batch-settlement"),
         Writer("position-state", "liquidation"), Writer("position-state", "position-close") }
<1>1. IsList(StateWriters)
  BY WrittenOut DEF StateWriters
<1>2. DOMAIN StateWriters = 1..4
  BY DEF StateWriters
<1>3. /\ StateWriters[1] = Writer("position-state", "batch-settlement")
      /\ StateWriters[2] = Writer("shielded-pool", "batch-settlement")
      /\ StateWriters[3] = Writer("position-state", "liquidation")
      /\ StateWriters[4] = Writer("position-state", "position-close")
  BY DEF StateWriters
<1>4. 1..4 = {1, 2, 3, 4}
  OBVIOUS
<1> QED BY <1>1, <1>2, <1>3, <1>4 DEF ToSet

\* The contracts of the manifest, those that Foundations starts first.
LEMMA DeployablesAre ==
  ToSet(DeployableContracts) =
    {"governance", "proof-ledger", "price-oracle"} \cup
    {"position-state", "shielded-pool", "intent-registry", "conditional-order", "market",
     "funding-settlement", "batch-settlement", "liquidation", "position-close",
     "disclosure-verifier"}
<1> DEFINE d == DeployableContracts
<1>1. DOMAIN d = 1..13
  BY DEF DeployableContracts
<1>2. /\ d[1] = "governance" /\ d[2] = "proof-ledger" /\ d[3] = "price-oracle"
      /\ d[4] = "position-state" /\ d[5] = "shielded-pool" /\ d[6] = "intent-registry"
      /\ d[7] = "conditional-order" /\ d[8] = "market" /\ d[9] = "funding-settlement"
      /\ d[10] = "batch-settlement" /\ d[11] = "liquidation" /\ d[12] = "position-close"
      /\ d[13] = "disclosure-verifier"
  BY DEF DeployableContracts
<1> HIDE DEF d
<1>3. ToSet(d) = {d[i] : i \in 1..13}
  BY <1>1 DEF ToSet
<1>4. 1..13 = {1, 2, 3, 4, 5, 6, 7, 8, 9, 10, 11, 12, 13}
  OBVIOUS
<1> QED BY <1>2, <1>3, <1>4 DEF d

\* run.ts:510-648: the consumers are initialised and told of each other.
ConsumersSet ==
  {Start(n) : n \in {"shielded-pool", "market", "funding-settlement", "position-state",
                     "batch-settlement", "intent-registry", "liquidation",
                     "conditional-order", "position-close", "disclosure-verifier"}}
    \cup ToSet(StateWriters) \cup {Updater}

LEMMA ProofConsumersCalls ==
  /\ IsList(ProofConsumers) /\ ConsumersSet \subseteq ToSet(ProofConsumers)
  /\ CollateralToken => {FeesTo, FeeToken} \subseteq ToSet(ProofConsumers)
<1> DEFINE A == <<Start("shielded-pool")>>
           B == OnlyIf(CollateralToken, <<FeesTo>>)
           C == << Start("market"), Start("funding-settlement"), Start("position-state"),
                   Start("batch-settlement"), Start("intent-registry") >>
           D == OnlyIf(CollateralToken, <<FeeToken>>)
           E == <<Start("liquidation"), Start("conditional-order"), Start("position-close")>>
           F == <<Updater, Start("disclosure-verifier")>>
           AB == A \o B
           ABC == AB \o C
           ABCD == ABC \o D
           ABCDE == ABCD \o E
           Told == ABCDE \o StateWriters
<1>1. IsList(A) /\ Start("shielded-pool") \in ToSet(A)
  BY WrittenOut
<1>2. /\ IsList(B) /\ (CollateralToken => FeesTo \in ToSet(B))
      /\ IsList(D) /\ (CollateralToken => FeeToken \in ToSet(D))
  BY WrittenOut, OnlyIfList, DeploymentAssumption
<1>3. /\ IsList(C)
      /\ {Start("market"), Start("funding-settlement"), Start("position-state"),
          Start("batch-settlement"), Start("intent-registry")} \subseteq ToSet(C)
  BY WrittenOut
<1>4. /\ IsList(E)
      /\ {Start("liquidation"), Start("conditional-order"), Start("position-close")} \subseteq ToSet(E)
  BY WrittenOut
<1>5. IsList(F) /\ {Updater, Start("disclosure-verifier")} \subseteq ToSet(F)
  BY WrittenOut
<1>6. ProofConsumers = Told \o F
  BY DEF ProofConsumers
<1> HIDE DEF A, B, C, D, E, F
<1>7. IsList(AB) /\ ToSet(A) \cup ToSet(B) \subseteq ToSet(AB)
  BY <1>1, <1>2, ListsJoined
<1> HIDE DEF AB
<1>8. IsList(ABC) /\ ToSet(AB) \cup ToSet(C) \subseteq ToSet(ABC)
  BY <1>3, <1>7, ListsJoined
<1> HIDE DEF ABC
<1>9. IsList(ABCD) /\ ToSet(ABC) \cup ToSet(D) \subseteq ToSet(ABCD)
  BY <1>2, <1>8, ListsJoined
<1> HIDE DEF ABCD
<1>10. IsList(ABCDE) /\ ToSet(ABCD) \cup ToSet(E) \subseteq ToSet(ABCDE)
  BY <1>4, <1>9, ListsJoined
<1> HIDE DEF ABCDE
<1>11. IsList(Told) /\ ToSet(ABCDE) \cup ToSet(StateWriters) \subseteq ToSet(Told)
  BY <1>10, StateWritersCalls, ListsJoined
<1> HIDE DEF Told
<1>12. IsList(ProofConsumers) /\ ToSet(Told) \cup ToSet(F) \subseteq ToSet(ProofConsumers)
  BY <1>5, <1>6, <1>11, ListsJoined
<1>13. CollateralToken => {FeesTo, FeeToken} \subseteq ToSet(ProofConsumers)
  BY <1>2, <1>7, <1>8, <1>9, <1>10, <1>11, <1>12
<1>14. ToSet(StateWriters) \cup {Updater, Start("disclosure-verifier")} \subseteq ToSet(ProofConsumers)
  BY <1>5, <1>11, <1>12
<1>15. {Start("liquidation"), Start("conditional-order"), Start("position-close")} \subseteq ToSet(ProofConsumers)
  BY <1>4, <1>10, <1>11, <1>12
<1>16. {Start("market"), Start("funding-settlement"), Start("position-state"),
        Start("batch-settlement"), Start("intent-registry")} \subseteq ToSet(ProofConsumers)
  BY <1>3, <1>8, <1>9, <1>10, <1>11, <1>12
<1>17. Start("shielded-pool") \in ToSet(ProofConsumers)
  BY <1>1, <1>7, <1>8, <1>9, <1>10, <1>11, <1>12
<1>18. ConsumersSet \subseteq ToSet(ProofConsumers)
  BY <1>14, <1>15, <1>16, <1>17 DEF ConsumersSet
<1> QED BY <1>12, <1>13, <1>18

\* A deployment that made all its calls wired the protocol.
LEMMA DeployCallsWire ==
  ASSUME NEW proves \in BOOLEAN
  PROVE  IsList(DeployCalls(proves)) /\ Wired \subseteq ToSet(DeployCalls(proves))
<1> DEFINE A == RiscZeroStack \o Contracts
           B == A \o Foundations
           C == B \o Verifiers
           D == C \o ProofConsumers
           E == D \o Owned("intent-registry")
           SmokeCalls == OnlyIf(proves, <<SmokeProof>>)
           All == ToSet(DeployCalls(proves))
<1>1. DeployCalls(proves) = E \o SmokeCalls
  BY DEF DeployCalls
<1>2. IsList(SmokeCalls)
  BY WrittenOut, OnlyIfList
<1> HIDE DEF SmokeCalls
<1>3. IsList(A) /\ ToSet(RiscZeroStack) \subseteq ToSet(A)
  BY RiscZeroStackCalls, ContractsAreList, ListsJoined
<1> HIDE DEF A
<1>4. IsList(B) /\ ToSet(A) \subseteq ToSet(B) /\ ToSet(Foundations) \subseteq ToSet(B)
  BY <1>3, FoundationsCalls, ListsJoined
<1> HIDE DEF B
<1>5. IsList(C) /\ ToSet(B) \subseteq ToSet(C) /\ ToSet(Verifiers) \subseteq ToSet(C)
  BY <1>4, VerifiersAreListed, ListsJoined
<1> HIDE DEF C
<1>6. IsList(D) /\ ToSet(C) \subseteq ToSet(D) /\ ToSet(ProofConsumers) \subseteq ToSet(D)
  BY <1>5, ProofConsumersCalls, ListsJoined
<1> HIDE DEF D
<1>7. IsList(E) /\ ToSet(D) \subseteq ToSet(E) /\ ToSet(Owned("intent-registry")) \subseteq ToSet(E)
  BY <1>6, OwnedCalls, ListsJoined
<1> HIDE DEF E
<1>8. IsList(DeployCalls(proves)) /\ ToSet(E) \subseteq All
  BY <1>1, <1>2, <1>7, ListsJoined
<1>9. /\ ToSet(RiscZeroStack) \subseteq All /\ ToSet(Foundations) \subseteq All
      /\ ToSet(Verifiers) \subseteq All /\ ToSet(ProofConsumers) \subseteq All
      /\ ToSet(Owned("intent-registry")) \subseteq All
  BY <1>3, <1>4, <1>5, <1>6, <1>7, <1>8
<1> HIDE DEF All
<1>10. ToSet(DeployableContracts) =
         {"governance", "proof-ledger", "price-oracle"} \cup
         {"position-state", "shielded-pool", "intent-registry", "conditional-order", "market",
          "funding-settlement", "batch-settlement", "liquidation", "position-close",
          "disclosure-verifier"}
  BY DeployablesAre
<1>11. ASSUME NEW n \in ToSet(DeployableContracts) PROVE Start(n) \in All
  <2>1. CASE n \in {"governance", "proof-ledger", "price-oracle"}
    BY <1>9, <2>1, FoundationsCalls
  <2>2. CASE n \notin {"governance", "proof-ledger", "price-oracle"}
    <3>1. Start(n) \in ConsumersSet
      BY <1>10, <2>2 DEF ConsumersSet
    <3> QED BY <1>9, <3>1, ProofConsumersCalls
  <2> QED BY <2>1, <2>2
<1>12. \A c \in ToSet(Circuits) : Start(Verifier(c)) \in All /\ Register(c) \in All
  BY <1>9, VerifiersAreListed
<1>13. AddRouted \in All /\ Updater \in All /\ ToSet(StateWriters) \subseteq All
  BY <1>9, RiscZeroStackCalls, ProofConsumersCalls DEF ConsumersSet
<1>14. \A n \in {"governance", "price-oracle", "intent-registry"} : Authority(n) \in All
  BY <1>9, FoundationsCalls, OwnedCalls
<1>15. CollateralToken => FeesTo \in All /\ FeeToken \in All
  BY <1>9, ProofConsumersCalls
<1>16. Wired \subseteq All
  BY <1>11, <1>12, <1>13, <1>14, <1>15 DEF Wired
<1> QED BY <1>8, <1>16 DEF All

\* A finalization that made all its calls proved once, and set the verifiers,
\* writers, updater and fees.
LEMMA FinalizeCallsWire ==
  /\ IsList(FinalizeCalls)
  /\ \A c \in ToSet(Circuits) : Register(c) \in ToSet(FinalizeCalls)
  /\ ToSet(StateWriters) \cup {Updater, SmokeProof} \subseteq ToSet(FinalizeCalls)
  /\ CollateralToken => {FeesTo, FeeToken} \subseteq ToSet(FinalizeCalls)
<1> DEFINE A == <<Start("governance"), Start("proof-ledger"), Start("price-oracle")>>
           B == <<Start("shielded-pool")>>
           C == OnlyIf(CollateralToken, <<ReadFeesTo, FeesTo>>)
           D == << Start("market"), Start("funding-settlement"), Start("position-state"),
                   Start("intent-registry"), Start("batch-settlement") >>
           E == OnlyIf(CollateralToken, <<FeeToken>>)
           F == << Start("liquidation"), Start("conditional-order"), Start("position-close"),
                   Start("disclosure-verifier") >>
           AV == A \o Verifiers
           AVB == AV \o B
           AVBC == AVB \o C
           AVBCD == AVBC \o D
           AVBCDE == AVBCD \o E
           Begun == AVBCDE \o F
           G == <<Updater>> \o StateWriters
           All == ToSet(FinalizeCalls)
<1>1. FinalizeCalls = Begun \o FinalizeWiring
  BY DEF FinalizeCalls
<1>2. FinalizeWiring = G \o <<SmokeProof>>
  BY DEF FinalizeWiring
<1>3. IsList(A) /\ IsList(B) /\ IsList(D) /\ IsList(F)
  BY WrittenOut
<1>4. /\ IsList(C) /\ (CollateralToken => FeesTo \in ToSet(C))
      /\ IsList(E) /\ (CollateralToken => FeeToken \in ToSet(E))
  BY WrittenOut, OnlyIfList, DeploymentAssumption
<1>5. /\ IsList(<<Updater>>) /\ Updater \in ToSet(<<Updater>>)
      /\ IsList(<<SmokeProof>>) /\ SmokeProof \in ToSet(<<SmokeProof>>)
  BY WrittenOut
<1> HIDE DEF A, B, C, D, E, F
<1>6. IsList(AV) /\ ToSet(Verifiers) \subseteq ToSet(AV)
  BY <1>3, VerifiersAreListed, ListsJoined
<1> HIDE DEF AV
<1>7. IsList(AVB) /\ ToSet(AV) \subseteq ToSet(AVB)
  BY <1>3, <1>6, ListsJoined
<1> HIDE DEF AVB
<1>8. IsList(AVBC) /\ ToSet(AVB) \cup ToSet(C) \subseteq ToSet(AVBC)
  BY <1>4, <1>7, ListsJoined
<1> HIDE DEF AVBC
<1>9. IsList(AVBCD) /\ ToSet(AVBC) \subseteq ToSet(AVBCD)
  BY <1>3, <1>8, ListsJoined
<1> HIDE DEF AVBCD
<1>10. IsList(AVBCDE) /\ ToSet(AVBCD) \cup ToSet(E) \subseteq ToSet(AVBCDE)
  BY <1>4, <1>9, ListsJoined
<1> HIDE DEF AVBCDE
<1>11. IsList(Begun) /\ ToSet(AVBCDE) \subseteq ToSet(Begun)
  BY <1>3, <1>10, ListsJoined
<1> HIDE DEF Begun
<1>12. IsList(G) /\ {Updater} \cup ToSet(StateWriters) \subseteq ToSet(G)
  BY <1>5, StateWritersCalls, ListsJoined
<1> HIDE DEF G
<1>13. IsList(FinalizeWiring) /\ ToSet(G) \cup {SmokeProof} \subseteq ToSet(FinalizeWiring)
  BY <1>2, <1>5, <1>12, ListsJoined
<1>14. IsList(FinalizeCalls) /\ ToSet(Begun) \cup ToSet(FinalizeWiring) \subseteq All
  BY <1>1, <1>11, <1>13, ListsJoined
<1>15. ToSet(Verifiers) \subseteq All
  BY <1>6, <1>7, <1>8, <1>9, <1>10, <1>11, <1>14
<1>16. CollateralToken => {FeesTo, FeeToken} \subseteq All
  BY <1>4, <1>8, <1>9, <1>10, <1>11, <1>14
<1>17. ToSet(StateWriters) \cup {Updater, SmokeProof} \subseteq All
  BY <1>12, <1>13, <1>14
<1> QED BY <1>14, <1>15, <1>16, <1>17, VerifiersAreListed

\* What a call that landed rested on.
LEMMA NeedsOfWiring ==
  /\ \A c \in ToSet(StateWriters) \cup {Updater, FeesTo, FeeToken} : Start(c.on) \in Needs(c)
  /\ \A c : Start("governance") \in Needs(Register(c)) /\ Register(c).on = "governance"
  /\ {Start("proof-ledger"), Start(Verifier("withdraw"))} \subseteq Needs(SmokeProof)
<1> DEFINE Wirings == ToSet(StateWriters) \cup {Updater, FeesTo, FeeToken}
           Told == {"set_writer", "set_funding_updater", "configure_fee_destinations",
                    "configure_fee_token"}
<1>1. \A c \in Wirings : c.does \in Told
  <2>1. \A on, n : Writer(on, n).does = "set_writer"
    BY DEF Writer, Call
  <2>2. \A c \in ToSet(StateWriters) : c.does = "set_writer"
    BY <2>1, StateWritersCalls
  <2>3. /\ Updater.does = "set_funding_updater" /\ FeesTo.does = "configure_fee_destinations"
        /\ FeeToken.does = "configure_fee_token"
    BY DEF Updater, FeesTo, FeeToken, Call
  <2> QED BY <2>2, <2>3
<1>2. SmokeProof.does = "verify_and_record" /\ SmokeProof.on = Verifier("withdraw")
  BY DEF SmokeProof, Call
<1>3. \A call : call \in Wirings => Start(call.on) \in Needs(call)
  <2> TAKE call
  <2> HAVE call \in Wirings
  <2>1. call.does \in Told /\ call # SmokeProof
    BY <1>1, <1>2
  <2> QED BY <2>1 DEF Needs
<1>4. \A c : Start("governance") \in Needs(Register(c)) /\ Register(c).on = "governance"
  <2> TAKE c
  <2>1. Register(c).does = "set_verifier" /\ Register(c).on = "governance"
    BY DEF Register, Call
  <2>2. Register(c) \notin Wirings /\ Register(c) # SmokeProof
    BY <1>1, <1>2, <2>1
  <2> QED BY <2>1, <2>2 DEF Needs
<1>5. {Start("proof-ledger"), Start(Verifier("withdraw"))} \subseteq Needs(SmokeProof)
  <2>1. SmokeProof \notin Wirings
    BY <1>1, <1>2
  <2> QED BY <1>2, <2>1 DEF Needs
<1> QED BY <1>3, <1>4, <1>5

-----------------------------------------------------------------------------
(* Deployment: the invariant.                                              *)

Reads(call) == call.does \in {"upgrade_authority", "fee_destinations"}

\* What landed rests on what landed before.
ChainIsClosed == \A c \in chain : Needs(c) \subseteq chain

\* A deployment is at a call when all before it landed; a finalization, when
\* all before it did that are not initializations.
ScriptsInv ==
  /\ script = "deploy" =>
       /\ record = "partial"
       /\ \A i \in 1..Len(DeployCalls(smoke)) :
            i < at => DeployCalls(smoke)[i] \in chain \/ Reads(DeployCalls(smoke)[i])
  /\ script = "finalize" =>
       \A i \in 1..Len(FinalizeCalls) :
         i < at => \/ FinalizeCalls[i] \in chain \/ Reads(FinalizeCalls[i])
                   \/ FinalizeCalls[i].does = "init"

\* A run that verified its vault owns it.
VaultRunsInv ==
  /\ DOMAIN vaultRun = VaultOperators
  /\ \A v \in VaultOperators : vaultRun[v] \in {"read", "write"} => v \in owned

DeployInv ==
  /\ at \in Nat /\ smoke \in BOOLEAN
  /\ ChainIsClosed /\ ScriptsInv /\ VaultRunsInv /\ DeployedIsWired

\* What a finalization stands for.
FinalCalls ==
  LET set == {c \in Wired : c.does \in {"set_verifier", "set_writer", "set_funding_updater",
                 "configure_fee_destinations", "configure_fee_token"}}
  IN  set \cup {Start(c.on) : c \in set} \cup {Start("proof-ledger"), Start(Verifier("withdraw"))}

LEMMA FinalizedMeans ==
  /\ FinalizedIsWired <=> (finalized => FinalCalls \subseteq chain)
  /\ FinalizedIsWired' <=> (finalized' => FinalCalls \subseteq chain')
BY DEF FinalizedIsWired, FinalCalls

\* A call that is not refused adds to the chain and leaves it closed.
LEMMA ChainGrows ==
  ASSUME ChainIsClosed, NEW call, ~Refused(call), NEW answered \in BOOLEAN
  PROVE  /\ chain \subseteq Effect(call, answered)
         /\ \A c \in Effect(call, answered) : Needs(c) \subseteq Effect(call, answered)
         /\ answered => call \in Effect(call, answered) \/ Reads(call)
<1>1. Needs(call) \subseteq chain
  BY DEF Refused
<1>2. Effect(call, answered) = chain \/ Effect(call, answered) = chain \cup {call}
  BY DEF Effect
<1>3. answered => Effect(call, answered) = chain \cup {call} \/ Reads(call)
  BY DEF Effect, Reads
<1> QED BY <1>1, <1>2, <1>3 DEF ChainIsClosed

\* The same of a step.
LEMMA GrownChainIsClosed ==
  ASSUME ChainIsClosed, NEW call, ~Refused(call), NEW answered \in BOOLEAN,
         chain' = Effect(call, answered)
  PROVE  /\ chain \subseteq chain' /\ ChainIsClosed'
         /\ answered => call \in chain' \/ Reads(call)
<1>1. \A c : Needs(c)' = Needs(c)
  BY DEF Needs
<1> QED BY ChainGrows, <1>1 DEF ChainIsClosed

\* What is wired is a call that writes; what is not an initialization, an
\* authority or the router's is one that finalize makes too.
LEMMA WiredDoes ==
  ASSUME NEW c \in Wired
  PROVE  \/ c.does \in {"init", "add_verifier", "set_upgrade_authority"}
         \/ /\ c.does \in {"set_verifier", "set_writer", "set_funding_updater",
                           "configure_fee_destinations", "configure_fee_token"}
            /\ \/ c \in ToSet(StateWriters) \cup {Updater}
               \/ CollateralToken /\ c \in {FeesTo, FeeToken}
               \/ \E circuit \in ToSet(Circuits) : c = Register(circuit)
<1>1. \A n : Start(n).does = "init" /\ Authority(n).does = "set_upgrade_authority"
  BY DEF Start, Authority, Call
<1>2. \A n : Register(n).does = "set_verifier"
  BY DEF Register, Call
<1>3. /\ AddRouted.does = "add_verifier" /\ Updater.does = "set_funding_updater"
      /\ FeesTo.does = "configure_fee_destinations" /\ FeeToken.does = "configure_fee_token"
  BY DEF AddRouted, Updater, FeesTo, FeeToken, Call
<1>4. \A w \in ToSet(StateWriters) : w.does = "set_writer"
  <2>1. \A on, n : Writer(on, n).does = "set_writer"
    BY DEF Writer, Call
  <2> QED BY <2>1, StateWritersCalls
<1> QED BY <1>1, <1>2, <1>3, <1>4 DEF Wired

\* The end of a deployment finds everything wired.
LEMMA DeploymentWires ==
  ASSUME DeployInv, script = "deploy", at > Len(Calls)
  PROVE  Wired \subseteq chain
<1>1. Calls = DeployCalls(smoke)
  BY DEF Calls
<1>2. IsList(DeployCalls(smoke)) /\ Wired \subseteq ToSet(DeployCalls(smoke))
  BY DeployCallsWire DEF DeployInv
<1>3. \A i \in 1..Len(DeployCalls(smoke)) : DeployCalls(smoke)[i] \in chain \/ Reads(DeployCalls(smoke)[i])
  <2>1. at \in Nat /\ Len(DeployCalls(smoke)) \in Nat /\ at > Len(DeployCalls(smoke))
    BY <1>1, <1>2, ListIs DEF DeployInv
  <2> QED BY <2>1 DEF DeployInv, ScriptsInv
<1>4. \A c \in ToSet(DeployCalls(smoke)) : c \in chain \/ Reads(c)
  BY <1>2, <1>3, ListIs
<1>5. \A c \in Wired : ~Reads(c)
  BY WiredDoes DEF Reads
<1> QED BY <1>2, <1>4, <1>5

\* The end of a finalization finds what it stands for.
LEMMA FinalizationWires ==
  ASSUME DeployInv, script = "finalize", at > Len(Calls)
  PROVE  FinalCalls \subseteq chain
<1>1. Calls = FinalizeCalls
  BY DEF Calls
<1>2. \A i \in 1..Len(FinalizeCalls) :
        \/ FinalizeCalls[i] \in chain \/ Reads(FinalizeCalls[i])
        \/ FinalizeCalls[i].does = "init"
  <2>1. at \in Nat /\ Len(FinalizeCalls) \in Nat /\ at > Len(FinalizeCalls)
    BY <1>1, FinalizeCallsWire, ListIs DEF DeployInv
  <2> QED BY <2>1 DEF DeployInv, ScriptsInv
<1>3. \A c \in ToSet(FinalizeCalls) : c \in chain \/ Reads(c) \/ c.does = "init"
  BY <1>2, FinalizeCallsWire, ListIs
<1> DEFINE told == {"set_verifier", "set_writer", "set_funding_updater",
                    "configure_fee_destinations", "configure_fee_token"}
<1>4. ASSUME NEW c \in Wired, c.does \in told
      PROVE  c \in ToSet(FinalizeCalls) /\ Start(c.on) \in Needs(c)
  BY <1>4, WiredDoes, FinalizeCallsWire, NeedsOfWiring
<1>5. ASSUME NEW c \in Wired, c.does \in told
      PROVE  c \in chain /\ Start(c.on) \in chain
  BY <1>3, <1>4, <1>5 DEF Reads, DeployInv, ChainIsClosed
<1>6. SmokeProof \in chain
  <2>1. SmokeProof.does = "verify_and_record"
    BY DEF SmokeProof, Call
  <2> QED BY <1>3, <2>1, FinalizeCallsWire DEF Reads
<1>7. {Start("proof-ledger"), Start(Verifier("withdraw"))} \subseteq chain
  BY <1>6, NeedsOfWiring DEF DeployInv, ChainIsClosed
<1> QED BY <1>5, <1>7 DEF FinalCalls

\* A script goes on by one call, which landed or may be missing; nothing else
\* changes but that the chain may grow.
LEMMA CallMade ==
  ASSUME DeployInv, Sent, at <= Len(Calls), at' = at + 1,
         chain \subseteq chain', ChainIsClosed',
         \/ Calls[at] \in chain' \/ Reads(Calls[at])
         \/ script = "finalize" /\ Calls[at].does = "init"
  PROVE  DeployInv'
<1>1. UNCHANGED <<script, record, finalized, smoke, vault, vaultRun, owned>>
  BY DEF Sent, vaultRunVars
<1>2. at' \in Nat /\ smoke' \in BOOLEAN
  BY <1>1 DEF DeployInv
<1>3. ScriptsInv'
  <2>1. ASSUME script' = "deploy", NEW i \in 1..Len(DeployCalls(smoke)), i < at'
        PROVE  DeployCalls(smoke)[i] \in chain' \/ Reads(DeployCalls(smoke)[i])
    <3>1. Calls = DeployCalls(smoke)
      BY <1>1, <2>1 DEF Calls
    <3>2. i < at \/ i = at
      BY <2>1 DEF DeployInv
    <3>3. CASE i < at
      BY <1>1, <2>1, <3>3 DEF DeployInv, ScriptsInv
    <3>4. CASE i = at
      BY <1>1, <2>1, <3>1, <3>4
    <3> QED BY <3>2, <3>3, <3>4
  <2>2. ASSUME script' = "finalize", NEW i \in 1..Len(FinalizeCalls), i < at'
        PROVE  \/ FinalizeCalls[i] \in chain' \/ Reads(FinalizeCalls[i])
               \/ FinalizeCalls[i].does = "init"
    <3>1. Calls = FinalizeCalls
      BY <1>1, <2>2 DEF Calls
    <3>2. i < at \/ i = at
      BY <2>2 DEF DeployInv
    <3>3. CASE i < at
      BY <1>1, <2>2, <3>3 DEF DeployInv, ScriptsInv
    <3>4. CASE i = at
      BY <1>1, <2>2, <3>1, <3>4
    <3> QED BY <3>2, <3>3, <3>4
  <2>3. script' = "deploy" => record' = "partial"
    BY <1>1 DEF DeployInv, ScriptsInv
  <2> QED BY <1>1, <2>1, <2>2, <2>3 DEF ScriptsInv
<1>4. VaultRunsInv'
  BY <1>1 DEF DeployInv, VaultRunsInv
<1>5. RegistryIsWired'
  BY <1>1 DEF DeployInv, DeployedIsWired, RegistryIsWired
<1>6. FinalizedIsWired'
  BY <1>1, FinalizedMeans DEF DeployInv, DeployedIsWired
<1> QED BY <1>2, <1>3, <1>4, <1>5, <1>6 DEF DeployInv, DeployedIsWired

\* The steps that leave the chain, the record and the scripts' places alone.
LEMMA ChainLeftAlone ==
  ASSUME DeployInv, UNCHANGED <<chain, at, smoke, vault, vaultRun, owned>>,
         script' \in {script, "none"}, record' \in {record, "none"},
         script = "deploy" => record' = record \/ script' = "none",
         finalized' => finalized
  PROVE  DeployInv'
<1>1. at' \in Nat /\ smoke' \in BOOLEAN /\ ChainIsClosed'
  BY DEF DeployInv, ChainIsClosed
<1>2. ScriptsInv' /\ VaultRunsInv'
  BY DEF DeployInv, ScriptsInv, VaultRunsInv
<1>3. RegistryIsWired'
  BY DEF DeployInv, DeployedIsWired, RegistryIsWired
<1>4. FinalizedIsWired'
  BY FinalizedMeans DEF DeployInv, DeployedIsWired
<1> QED BY <1>1, <1>2, <1>3, <1>4 DEF DeployInv, DeployedIsWired

\* The vault script: what is registered was verified, and owned before.
LEMMA VaultRunStep ==
  ASSUME DeployInv, NEW v \in VaultOperators,
         \/ StartVault(v) \/ CreateVault(v) \/ OwnVault(v) \/ VerifyVault(v)
         \/ VaultFails(v) \/ ReadRegistry(v) \/ RegisterVault(v)
  PROVE  DeployInv'
<1>1. PICK to : vaultRun' = [vaultRun EXCEPT ![v] = to]
  BY DEF StartVault, CreateVault, OwnVault, VerifyVault, VaultFails, ReadRegistry, RegisterVault,
         VaultStep
<1>2. UNCHANGED <<chain, script, at, record, finalized, smoke>>
  BY DEF StartVault, CreateVault, OwnVault, VerifyVault, VaultFails, ReadRegistry, RegisterVault,
         VaultStep, callVars
<1>3. /\ DOMAIN vaultRun' = VaultOperators /\ vaultRun'[v] = to
      /\ \A w \in VaultOperators : w # v => vaultRun'[w] = vaultRun[w]
  BY <1>1 DEF DeployInv, VaultRunsInv
<1>4. owned \subseteq owned'
  BY DEF StartVault, CreateVault, OwnVault, VerifyVault, VaultFails, ReadRegistry, RegisterVault
<1>5. vaultRun'[v] \in {"read", "write"} => v \in owned'
  BY <1>3, <1>4 DEF StartVault, CreateVault, OwnVault, VerifyVault, VaultFails, ReadRegistry,
                    RegisterVault, VaultStep, DeployInv, VaultRunsInv
<1>6. vault' = vault \/ (vault' = v /\ v \in owned)
  BY DEF StartVault, CreateVault, OwnVault, VerifyVault, VaultFails, ReadRegistry,
         RegisterVault, VaultStep, DeployInv, VaultRunsInv
<1>7. VaultRunsInv'
  BY <1>3, <1>4, <1>5 DEF DeployInv, VaultRunsInv
<1>8. ScriptsInv' /\ ChainIsClosed' /\ at' \in Nat /\ smoke' \in BOOLEAN
  BY <1>2 DEF DeployInv, ScriptsInv, ChainIsClosed
<1>9. RegistryIsWired'
  BY <1>2, <1>4, <1>6 DEF DeployInv, DeployedIsWired, RegistryIsWired
<1>10. FinalizedIsWired'
  BY <1>2, FinalizedMeans DEF DeployInv, DeployedIsWired
<1> QED BY <1>7, <1>8, <1>9, <1>10 DEF DeployInv, DeployedIsWired

\* DeployedIsWired: the registry names contracts that are all initialised and
\* wired, and a record that finalize is done with names contracts that are
\* wired, whatever was tried twice, landed unanswered or stopped half way
\* (run.ts:289-452, finalize.ts:22-230, liquidity-vault.ts:46-127).
THEOREM DeploymentsAreWired == DeploymentSpec => []DeployedIsWired
<1>1. DeploymentInit => DeployInv
  <2> SUFFICES ASSUME DeploymentInit PROVE DeployInv
    OBVIOUS
  <2>1. chain = {} /\ script = "none" /\ at = 1 /\ record = "none" /\ finalized = FALSE /\ smoke \in BOOLEAN
    BY DEF DeploymentInit
  <2>2. vault = "none" /\ vaultRun = [v \in VaultOperators |-> "idle"]
    BY DEF DeploymentInit
  <2>3. ScriptsInv /\ ChainIsClosed
    BY <2>1 DEF ScriptsInv, ChainIsClosed
  <2>4. VaultRunsInv
    BY <2>2 DEF VaultRunsInv
  <2>5. DeployedIsWired
    BY <2>1, <2>2 DEF DeployedIsWired, RegistryIsWired, FinalizedIsWired
  <2> QED BY <2>1, <2>3, <2>4, <2>5 DEF DeployInv
<1>2. DeployInv /\ [DeploymentNext]_deploymentVars => DeployInv'
  <2> SUFFICES ASSUME DeployInv, [DeploymentNext]_deploymentVars PROVE DeployInv'
    OBVIOUS
  <2>1. CASE StartDeploy
    <3>1. /\ chain' = {} /\ script' = "deploy" /\ at' = 1 /\ record' = "partial" /\ finalized' = FALSE
          /\ UNCHANGED <<smoke, vault, vaultRun, owned>>
      BY <2>1 DEF StartDeploy, vaultRunVars
    <3>2. ScriptsInv' /\ ChainIsClosed' /\ VaultRunsInv' /\ smoke' \in BOOLEAN
      BY <3>1 DEF ScriptsInv, ChainIsClosed, VaultRunsInv, DeployInv
    <3>3. RegistryIsWired'
      BY <3>1 DEF RegistryIsWired, DeployInv, DeployedIsWired
    <3>4. FinalizedIsWired'
      BY <3>1, FinalizedMeans
    <3> QED BY <3>1, <3>2, <3>3, <3>4 DEF DeployInv, DeployedIsWired
  <2>2. CASE StartFinalize
    <3>1. /\ script' = "finalize" /\ at' = 1
          /\ UNCHANGED <<chain, record, finalized, smoke, vault, vaultRun, owned>>
      BY <2>2 DEF StartFinalize, vaultRunVars
    <3>2. ScriptsInv' /\ ChainIsClosed' /\ VaultRunsInv' /\ smoke' \in BOOLEAN
      BY <3>1 DEF ScriptsInv, ChainIsClosed, VaultRunsInv, DeployInv
    <3>3. RegistryIsWired'
      BY <3>1 DEF RegistryIsWired, DeployInv, DeployedIsWired
    <3>4. FinalizedIsWired'
      BY <3>1, FinalizedMeans DEF DeployInv, DeployedIsWired
    <3> QED BY <3>1, <3>2, <3>3, <3>4 DEF DeployInv, DeployedIsWired
  <2>3. CASE CallAnswered
    <3> DEFINE call == Calls[at]
    <3>1. /\ Sent /\ at <= Len(Calls) /\ at' = at + 1
          /\ ~Refused(call) /\ chain' = Effect(call, TRUE)
      BY <2>3 DEF CallAnswered, NextCall
    <3> HIDE DEF call
    <3>2. chain \subseteq chain' /\ ChainIsClosed' /\ (call \in chain' \/ Reads(call))
      BY <3>1, GrownChainIsClosed DEF DeployInv
    <3> QED BY <3>1, <3>2, CallMade DEF call
  <2>4. CASE AttemptFails
    <3> DEFINE call == Calls[at]
    <3>1. /\ Sent /\ at' = at /\ ~Refused(call)
          /\ chain' = chain \/ chain' = Effect(call, FALSE)
      BY <2>4 DEF AttemptFails
    <3> HIDE DEF call
    <3>2. chain \subseteq chain' /\ ChainIsClosed'
      BY <3>1, GrownChainIsClosed DEF DeployInv, ChainIsClosed
    <3>3. UNCHANGED <<script, record, finalized, smoke, vault, vaultRun, owned>>
      BY <3>1 DEF Sent, vaultRunVars
    <3>4. ScriptsInv' /\ VaultRunsInv' /\ at' \in Nat /\ smoke' \in BOOLEAN
      BY <3>1, <3>2, <3>3 DEF DeployInv, ScriptsInv, VaultRunsInv
    <3>5. RegistryIsWired'
      BY <3>2, <3>3 DEF DeployInv, DeployedIsWired, RegistryIsWired
    <3>6. FinalizedIsWired'
      BY <3>2, <3>3, FinalizedMeans DEF DeployInv, DeployedIsWired
    <3> QED BY <3>2, <3>4, <3>5, <3>6 DEF DeployInv, DeployedIsWired
  <2>5. CASE CallPassedOver
    <3>1. Sent /\ at <= Len(Calls) /\ at' = at + 1 /\ chain' = chain
      BY <2>5 DEF CallPassedOver, NextCall
    <3>2. \/ script = "finalize" /\ Calls[at].does = "init"
          \/ Calls[at] \in chain
      BY <2>5 DEF CallPassedOver, Allowed
    <3>3. ChainIsClosed'
      BY <3>1 DEF DeployInv, ChainIsClosed
    <3> QED BY <3>1, <3>2, <3>3, CallMade
  <2>6. CASE CallThrows \/ ScriptStops \/ RecordRemoved
    <3>1. /\ UNCHANGED <<chain, at, smoke, vault, vaultRun, owned>>
          /\ script' \in {script, "none"} /\ record' \in {record, "none"}
          /\ script = "deploy" => record' = record \/ script' = "none"
          /\ finalized' => finalized
      BY <2>6 DEF CallThrows, ScriptStops, RecordRemoved, vaultRunVars
    <3> QED BY <3>1, ChainLeftAlone
  <2>7. CASE DeployEnds
    <3>1. /\ script = "deploy" /\ at > Len(Calls) /\ script' = "none" /\ record' = "registry"
          /\ UNCHANGED <<chain, at, smoke, finalized, vault, vaultRun, owned>>
      BY <2>7 DEF DeployEnds, vaultRunVars
    <3>2. Wired \subseteq chain'
      BY <3>1, DeploymentWires
    <3>3. ScriptsInv' /\ ChainIsClosed' /\ VaultRunsInv' /\ at' \in Nat /\ smoke' \in BOOLEAN
      BY <3>1 DEF ScriptsInv, ChainIsClosed, VaultRunsInv, DeployInv
    <3>4. RegistryIsWired'
      BY <3>1, <3>2 DEF RegistryIsWired, DeployInv, DeployedIsWired
    <3>5. FinalizedIsWired'
      BY <3>1, FinalizedMeans DEF DeployInv, DeployedIsWired
    <3> QED BY <3>3, <3>4, <3>5 DEF DeployInv, DeployedIsWired
  <2>8. CASE FinalizeEnds
    <3>1. /\ script = "finalize" /\ at > Len(Calls) /\ script' = "none"
          /\ UNCHANGED <<chain, at, smoke, record, vault, vaultRun, owned>>
      BY <2>8 DEF FinalizeEnds, vaultRunVars
    <3>2. FinalCalls \subseteq chain'
      BY <3>1, FinalizationWires
    <3>3. ScriptsInv' /\ ChainIsClosed' /\ VaultRunsInv' /\ at' \in Nat /\ smoke' \in BOOLEAN
      BY <3>1 DEF ScriptsInv, ChainIsClosed, VaultRunsInv, DeployInv
    <3>4. RegistryIsWired'
      BY <3>1 DEF RegistryIsWired, DeployInv, DeployedIsWired
    <3>5. FinalizedIsWired'
      BY <3>2, FinalizedMeans
    <3> QED BY <3>3, <3>4, <3>5 DEF DeployInv, DeployedIsWired
  <2>9. CASE CheckpointRemoved
    <3>1. UNCHANGED <<chain, script, record, finalized, at, smoke, vault, vaultRun, owned>>
      BY <2>9 DEF CheckpointRemoved, callVars
    <3> QED BY <3>1, ChainLeftAlone
  <2>10. ASSUME NEW v \in VaultOperators,
                \/ StartVault(v) \/ CreateVault(v) \/ OwnVault(v) \/ VerifyVault(v)
                \/ VaultFails(v) \/ ReadRegistry(v) \/ RegisterVault(v)
         PROVE  DeployInv'
    BY <2>10, VaultRunStep
  <2>11. CASE UNCHANGED deploymentVars
    <3>1. UNCHANGED <<chain, script, record, finalized, at, smoke, vault, vaultRun, owned>>
      BY <2>11 DEF deploymentVars, callVars, vaultRunVars
    <3> QED BY <3>1, ChainLeftAlone
  <2> QED BY <2>1, <2>2, <2>3, <2>4, <2>5, <2>6, <2>7, <2>8, <2>9, <2>10, <2>11 DEF DeploymentNext
<1>3. DeployInv => DeployedIsWired
  BY DEF DeployInv
<1> QED BY <1>1, <1>2, <1>3, PTL DEF DeploymentSpec

-----------------------------------------------------------------------------
(* The sizing of orders: products and quotients.                           *)

LEMMA Products ==
    ASSUME NEW a \in Int, NEW b \in Int, NEW c \in Nat
    PROVE  /\ a * c \in Int /\ a * c = c * a
           /\ a <= b => a * c <= b * c
           /\ a < b /\ c # 0 => a * c < b * c
           /\ a * c <= b * c /\ c # 0 => a <= b
           /\ a * c < b * c => a < b
  OBVIOUS

LEMMA Distributes ==
    ASSUME NEW a \in Int, NEW b \in Int, NEW c \in Int
    PROVE  a * (b + c) = a * b + a * c
  OBVIOUS

LEMMA Quotients ==
    ASSUME NEW n \in Int, NEW d \in Nat \ {0}
    PROVE  /\ n \div d \in Int /\ (n \div d) * d <= n /\ n < (n \div d) * d + d
           /\ n \in Nat => n \div d \in Nat
  OBVIOUS

LEMMA Ceilings ==
    ASSUME NEW n \in Int, NEW d \in Nat \ {0}
    PROVE  /\ CeilDiv(n, d) \in Int
           /\ n <= CeilDiv(n, d) * d /\ CeilDiv(n, d) * d <= n + d - 1
<1> DEFINE k == (n + d - 1) \div d
<1>1. n + d - 1 \in Int
  OBVIOUS
<1>2. k \in Int /\ k * d <= n + d - 1 /\ n + d - 1 < k * d + d
  BY <1>1, Quotients
<1> HIDE DEF k
<1>3. k * d \in Int
  BY <1>2
<1>4. n <= k * d
  BY <1>2, <1>3
<1> QED BY <1>2, <1>4 DEF CeilDiv, k

\* A margin that carries the value at the initial rate and at the largest
\* leverage meets every limit, with rounding.
LEMMA LimitsAreMet ==
    ASSUME SizingAssumption, ScalesArePositive,
           NEW size, NEW price, NEW margin \in Nat \ {0}, Notional(size, price) \in Nat,
           Notional(size, price) * InitialRate < margin * RateScale,
           Notional(size, price) <= margin * MaxLeverage
    PROVE  MarginIsEnough(size, price, margin)
<1> DEFINE v == Notional(size, price)
<1>1. /\ InitialRate \in Nat /\ MaintenanceRate \in Nat /\ RateScale \in Nat \ {0}
      /\ MaintenanceRate <= InitialRate
  BY DEF SizingAssumption, ScalesArePositive
<1>2. v \in Nat /\ v * InitialRate < margin * RateScale /\ v <= margin * MaxLeverage
  OBVIOUS
<1> HIDE DEF v
<1>3. v * InitialRate \in Int /\ v * MaintenanceRate \in Int
  BY <1>1, <1>2
<1>4. v * MaintenanceRate <= v * InitialRate
  BY <1>1, <1>2, Products
<1>5. ASSUME NEW n \in Int, n < margin * RateScale PROVE n \div RateScale \in Int /\ n \div RateScale < margin
  <2>1. /\ n \div RateScale \in Int
        /\ (n \div RateScale) * RateScale <= n
    BY <1>1, <1>5, Quotients
  <2>2. (n \div RateScale) * RateScale < margin * RateScale
    BY <1>1, <1>5, <2>1
  <2> QED BY <1>1, <2>1, <2>2, Products
<1>6. /\ (v * InitialRate) \div RateScale \in Int
      /\ (v * InitialRate) \div RateScale < margin
  BY <1>2, <1>3, <1>5
<1>7. v * MaintenanceRate < margin * RateScale
  <2>1. margin * RateScale \in Int
    BY <1>1
  <2> QED BY <1>2, <1>3, <1>4, <2>1
<1>8. (v * MaintenanceRate) \div RateScale \in Int /\ (v * MaintenanceRate) \div RateScale < margin
  BY <1>3, <1>5, <1>7
<1>9. /\ margin >= (v * InitialRate) \div RateScale
      /\ margin > 0 /\ v <= margin * MaxLeverage
      /\ margin > (v * MaintenanceRate) \div RateScale
  BY <1>2, <1>6, <1>8
<1> QED BY <1>9 DEF MarginIsEnough, v

\* What a ticket that is sent says.
Priced(t) ==
  /\ t \in Tickets /\ t.leverage > 0 /\ t.leverage <= MaxLeverage * LeverageScale
  /\ SizingPrice(t) > 0 /\ LimitPrice(t) > 0

\* An order sized for a ticket, with margin and size for anything at all.
SizedFor(t, order) ==
  /\ order.side = t.side /\ order.limit = LimitPrice(t)
  /\ order.margin \in Int /\ order.size \in Nat \ {0}
  /\ order.size = ProtocolOrderSize(order.margin, t.leverage, SizingPrice(t))

\* The limit is no worse than the price the order is sized at.
LEMMA LimitIsWithin ==
    ASSUME SizingAssumption, NEW t \in Tickets
    PROVE  /\ LimitPrice(t) \in Int /\ SizingPrice(t) \in Int
           /\ LimitPrice(t) <= SizingPrice(t)
<1>1. /\ t.mark \in Nat /\ t.limit \in Nat /\ t.slippage \in Nat
      /\ t.side \in {"long", "short"} /\ t.kind \in {"market", "limit"}
  BY DEF SizingAssumption
<1>2. CASE t.kind = "limit"
  BY <1>1, <1>2 DEF LimitPrice, SizingPrice
<1>3. CASE t.kind = "market"
  <2>1. SizingPrice(t) = t.mark + t.slippage
    BY <1>1, <1>3 DEF SizingPrice
  <2>2. LimitPrice(t) = IF t.side = "long" THEN t.mark + t.slippage ELSE t.mark - t.slippage
    BY <1>3, <1>1 DEF LimitPrice
  <2> QED BY <1>1, <2>1, <2>2
<1> QED BY <1>1, <1>2, <1>3

LEMMA PricedMeans ==
    ASSUME SizingAssumption, NEW t, Priced(t)
    PROVE  /\ t.leverage \in Nat \ {0} /\ t.leverage <= MaxLeverage * LeverageScale
           /\ LimitPrice(t) \in Nat \ {0} /\ SizingPrice(t) \in Nat \ {0}
           /\ LimitPrice(t) <= SizingPrice(t)
<1>1. /\ t \in Tickets /\ t.leverage > 0 /\ t.leverage <= MaxLeverage * LeverageScale
      /\ SizingPrice(t) > 0 /\ LimitPrice(t) > 0
  BY DEF Priced
<1>2. t.leverage \in Nat
  BY <1>1 DEF SizingAssumption
<1>3. /\ LimitPrice(t) \in Int /\ SizingPrice(t) \in Int
      /\ LimitPrice(t) <= SizingPrice(t)
  BY <1>1, LimitIsWithin
<1> QED BY <1>1, <1>2, <1>3

LEMMA ConstantsAre ==
    ASSUME SizingAssumption, ScalesArePositive
    PROVE  /\ LeverageScale \in Nat \ {0} /\ RateScale \in Nat \ {0} /\ PriceScale \in Nat \ {0}
           /\ Reserve \in Nat \ {0} /\ TakerFee \in Nat /\ MakerRebate \in Nat
           /\ MaxLeverage \in Nat /\ InitialRate \in Nat /\ MaxLeverage * InitialRate <= RateScale
  BY DEF SizingAssumption, ScalesArePositive

\* A sized order has more margin than the reserve; its notional, at the price
\* it was sized at, is one that the rest of its margin carries with the fee.
LEMMA SizedNotional ==
    ASSUME SizingAssumption, ScalesArePositive, NEW t, Priced(t), NEW order, SizedFor(t, order)
    PROVE  \E notional \in Nat :
             LET rest == order.margin - Reserve
             IN  /\ rest \in Nat /\ order.margin \in Nat \ {0}
                 /\ order.size * SizingPrice(t) <= notional * PriceScale
                 /\ notional * (LeverageScale * RateScale + t.leverage * TakerFee)
                      <= rest * t.leverage * RateScale
<1> DEFINE m == order.margin
           L == t.leverage
           P == SizingPrice(t)
           u == m - Lesser(m, Reserve)
           D == LeverageScale * RateScale + L * TakerFee
           N == (u * L * RateScale) \div D
<1>1. /\ m \in Int /\ L \in Nat \ {0} /\ P \in Nat \ {0}
      /\ Reserve \in Nat \ {0} /\ LeverageScale \in Nat \ {0} /\ TakerFee \in Nat
      /\ RateScale \in Nat \ {0} /\ PriceScale \in Nat \ {0}
  <2>1. m \in Int
    BY DEF SizedFor
  <2> HIDE DEF m
  <2> QED BY <2>1, PricedMeans, ConstantsAre
<1>2. u \in Nat /\ (u = 0 \/ u = m - Reserve)
  BY <1>1 DEF Lesser
<1>3. D \in Nat \ {0}
  <2>1. PICK a \in Nat \ {0} : a = LeverageScale * RateScale
    BY <1>1
  <2>2. PICK b \in Nat : b = L * TakerFee
    BY <1>1
  <2> QED BY <2>1, <2>2
<1>4. order.size = (N * PriceScale) \div P /\ order.size \in Nat \ {0}
  BY DEF SizedFor, ProtocolOrderSize
<1> HIDE DEF u, D, P, L, m
<1>5. u * L * RateScale \in Nat /\ (u = 0 => u * L * RateScale = 0)
  BY <1>1, <1>2
<1> DEFINE w == u * L * RateScale
<1>6. w \in Nat /\ (u = 0 => w = 0) /\ N = w \div D
  BY <1>5
<1> HIDE DEF w, N
<1>7. N \in Nat /\ N * D <= w
  <2> HIDE DEF D
  <2>1. \A n \in Nat : n \div D \in Nat /\ (n \div D) * D <= n
    BY <1>3
  <2> QED BY <1>6, <2>1
<1>8. u # 0
  <2> SUFFICES ASSUME u = 0 PROVE FALSE
    OBVIOUS
  <2>1. N * D <= 0
    BY <1>6, <1>7
  <2>2. N = 0
    BY <1>3, <1>7, <2>1
  <2>3. N * PriceScale = 0
    BY <1>1, <2>2
  <2>4. 0 \div P = 0
    BY <1>1
  <2> QED BY <1>4, <2>3, <2>4
<1>9. N * PriceScale \in Int
  BY <1>1, <1>7
<1>10. order.size * P <= N * PriceScale
  BY <1>1, <1>4, <1>9, Quotients
<1>11. u = m - Reserve /\ m \in Nat \ {0}
  BY <1>1, <1>2, <1>8
<1> QED BY <1>2, <1>7, <1>10, <1>11 DEF w, u, D, P, L, m

\* What an order's notional is at a price that is no worse, of a part of it
\* or of all.
LEMMA PartOfNotional ==
    ASSUME ScalesArePositive, NEW size \in Nat, NEW price \in Nat, NEW best \in Nat \ {0},
           NEW whole \in Nat \ {0}, NEW notional \in Nat,
           price <= best, whole * best <= notional * PriceScale
    PROVE  /\ Notional(size, price) \in Nat
           /\ Notional(size, price) * whole <= notional * size
<1> DEFINE v == Notional(size, price)
<1>1. PriceScale \in Nat \ {0} /\ size * price \in Nat
  BY DEF ScalesArePositive
<1>2. v \in Nat /\ v * PriceScale <= size * price
  BY <1>1, Quotients DEF Notional
<1> HIDE DEF v
<1>3. size * price <= size * best
  BY Products
<1>4. v * PriceScale <= size * best
  BY <1>1, <1>2, <1>3
<1>5. (v * PriceScale) * whole <= (size * best) * whole
  <2>1. v * PriceScale \in Int /\ size * best \in Int
    BY <1>1, <1>2
  <2> QED BY <1>4, <2>1, Products
<1>6. (whole * best) * size <= (notional * PriceScale) * size
  <2>1. whole * best \in Int /\ notional * PriceScale \in Int
    BY <1>1
  <2> QED BY <2>1, Products
<1>7. (v * whole) * PriceScale <= (notional * size) * PriceScale
  <2>1. /\ (v * whole) * PriceScale = (v * PriceScale) * whole
        /\ (notional * size) * PriceScale = (notional * PriceScale) * size
        /\ (whole * best) * size = (size * best) * whole
    BY <1>1, <1>2
  <2>2. /\ (v * PriceScale) * whole \in Int /\ (size * best) * whole \in Int
        /\ (notional * PriceScale) * size \in Int
    BY <1>1, <1>2
  <2> QED BY <1>5, <1>6, <2>1, <2>2
<1>8. v * whole <= notional * size
  <2>1. v * whole \in Int /\ notional * size \in Int
    BY <1>2
  <2> QED BY <1>1, <1>7, <2>1, Products
<1> QED BY <1>2, <1>8 DEF v

\* The server takes an order that was sized for its ticket.
LEMMA SizedOrderIsTaken ==
    ASSUME SizingAssumption, ScalesArePositive, NEW t, Priced(t), NEW order, SizedFor(t, order)
    PROVE  MarginIsEnough(order.size, order.limit, order.margin)
<1> DEFINE L == t.leverage
           P == SizingPrice(t)
           D == LeverageScale * RateScale + L * TakerFee
           m == order.margin
           v == Notional(order.size, order.limit)
<1>1. /\ L \in Nat \ {0} /\ L <= MaxLeverage * LeverageScale
      /\ LeverageScale \in Nat \ {0} /\ RateScale \in Nat \ {0} /\ TakerFee \in Nat
      /\ MaxLeverage \in Nat /\ InitialRate \in Nat /\ MaxLeverage * InitialRate <= RateScale
      /\ Reserve \in Nat \ {0}
  BY PricedMeans, ConstantsAre
<1>2. /\ order.size \in Nat \ {0} /\ order.limit \in Nat \ {0} /\ P \in Nat \ {0}
      /\ order.limit <= P
  <2>1. order.limit = LimitPrice(t) /\ order.size \in Nat \ {0}
    BY DEF SizedFor
  <2> QED BY <2>1, PricedMeans
<1>3. PICK N \in Nat :
        /\ m - Reserve \in Nat /\ m \in Nat \ {0}
        /\ order.size * P <= N * PriceScale
        /\ N * D <= (m - Reserve) * L * RateScale
  BY SizedNotional
<1>4. v \in Nat /\ v * order.size <= N * order.size
  BY <1>2, <1>3, PartOfNotional
<1> HIDE DEF L, P, m, v
<1>5. v <= N
  <2>1. v \in Int /\ N \in Int /\ order.size \in Nat /\ order.size # 0
    BY <1>2, <1>3, <1>4
  <2> QED BY ONLY <1>4, <2>1, Products
<1> DEFINE u == m - Reserve
<1>6. u \in Nat /\ u < m /\ m \in Nat \ {0} /\ N * D <= u * L * RateScale
  BY <1>1, <1>3
<1> HIDE DEF u
<1>7. (N * LeverageScale) * RateScale <= (u * L) * RateScale
  <2>1. L * TakerFee \in Nat /\ N * (L * TakerFee) \in Nat
    BY <1>1, <1>3
  <2>2. N * D = (N * LeverageScale) * RateScale + N * (L * TakerFee)
    BY <1>1, <1>3
  <2>3. /\ (N * LeverageScale) * RateScale \in Int /\ (u * L) * RateScale \in Int
        /\ u * L * RateScale = (u * L) * RateScale
    BY <1>1, <1>3, <1>6
  <2> HIDE DEF D
  <2> QED BY <1>6, <2>1, <2>2, <2>3
<1>8. N * LeverageScale <= u * L
  <2>1. N * LeverageScale \in Int /\ u * L \in Int
    BY <1>1, <1>3, <1>6
  <2> QED BY <1>1, <1>7, <2>1, Products
<1>9. u * L <= (u * MaxLeverage) * LeverageScale
  <2>1. MaxLeverage * LeverageScale \in Int /\ L * u <= (MaxLeverage * LeverageScale) * u
    BY <1>1, <1>6, Products
  <2>2. L * u = u * L /\ (MaxLeverage * LeverageScale) * u = (u * MaxLeverage) * LeverageScale
    BY <1>1, <1>6
  <2> QED BY <2>1, <2>2
<1>10. N <= u * MaxLeverage
  <2>1. /\ u * MaxLeverage \in Int /\ N * LeverageScale \in Int /\ u * L \in Int
        /\ (u * MaxLeverage) * LeverageScale \in Int
    BY <1>1, <1>3, <1>6
  <2>2. N * LeverageScale <= (u * MaxLeverage) * LeverageScale
    BY <1>8, <1>9, <2>1
  <2> QED BY <1>1, <1>3, <2>1, <2>2, Products
<1>11. v <= u * MaxLeverage
  BY <1>1, <1>3, <1>4, <1>5, <1>6, <1>10
<1>12. v <= m * MaxLeverage
  <2>1. u * MaxLeverage <= m * MaxLeverage /\ u * MaxLeverage \in Int /\ m * MaxLeverage \in Int
    BY <1>1, <1>6, Products
  <2> QED BY <1>4, <1>11, <2>1
<1>13. v * InitialRate < m * RateScale
  <2>1. v * InitialRate <= (u * MaxLeverage) * InitialRate
    BY <1>1, <1>4, <1>6, <1>11, Products
  <2>2. (MaxLeverage * InitialRate) * u <= RateScale * u
    BY <1>1, <1>6, Products
  <2>3. u * RateScale < m * RateScale
    BY <1>1, <1>6, Products
  <2>4. /\ (u * MaxLeverage) * InitialRate = (MaxLeverage * InitialRate) * u
        /\ RateScale * u = u * RateScale
        /\ v * InitialRate \in Int /\ (MaxLeverage * InitialRate) * u \in Int
        /\ u * RateScale \in Int /\ m * RateScale \in Int
    BY <1>1, <1>4, <1>6
  <2> QED BY <2>1, <2>2, <2>3, <2>4
<1> QED BY <1>4, <1>6, <1>12, <1>13, LimitsAreMet DEF v, m

\* No fill of an order that was sized for its ticket runs into the limits.
LEMMA SizedFillIsSafe ==
    ASSUME SizingAssumption, ScalesArePositive, NEW t, Priced(t), NEW order, SizedFor(t, order),
           NEW filled \in Nat, NEW size \in Nat, NEW price \in Nat, price <= SizingPrice(t),
           size * Reserve >= order.size, NEW rebate \in Int, rebate >= 0 \/ rebate = -FillFees(size, price).taker
    PROVE  MarginIsEnough(size, price,
             CeilDiv(order.margin * (filled + size), order.size)
               - CeilDiv(order.margin * filled, order.size) + rebate)
<1> DEFINE L == t.leverage
           P == SizingPrice(t)
           z == order.size
           m == order.margin
           u == m - Reserve
           D == LeverageScale * RateScale + L * TakerFee
           v == Notional(size, price)
           fee == FillFees(size, price).taker
           before == CeilDiv(m * filled, z)
           after == CeilDiv(m * (filled + size), z)
           M == after - before + rebate
<1>1. /\ L \in Nat \ {0} /\ L <= MaxLeverage * LeverageScale
      /\ LeverageScale \in Nat \ {0} /\ RateScale \in Nat \ {0} /\ TakerFee \in Nat
      /\ MaxLeverage \in Nat /\ InitialRate \in Nat /\ MaxLeverage * InitialRate <= RateScale
      /\ Reserve \in Nat \ {0}
  BY PricedMeans, ConstantsAre
<1>2. z \in Nat \ {0} /\ P \in Nat \ {0} /\ size * Reserve >= z
  <2>1. z \in Nat \ {0}
    BY DEF SizedFor
  <2>2. P \in Nat \ {0}
    BY PricedMeans
  <2> QED BY <2>1, <2>2
<1>3. PICK N \in Nat : u \in Nat /\ m \in Nat \ {0} /\ z * P <= N * PriceScale /\ N * D <= u * L * RateScale
  BY SizedNotional
<1>4. v \in Nat /\ v * z <= N * size
  BY <1>2, <1>3, PartOfNotional
<1>5. fee \in Nat /\ fee * RateScale <= v * TakerFee
  <2>1. fee = (v * TakerFee) \div RateScale
    BY DEF FillFees
  <2> HIDE DEF v, fee
  <2>2. v * TakerFee \in Nat
    <3>1. v \in Nat /\ TakerFee \in Nat
      BY <1>1, <1>4
    <3> QED BY ONLY <3>1
  <2>3. \A n \in Nat : n \div RateScale \in Nat /\ (n \div RateScale) * RateScale <= n
    <3>1. RateScale \in Nat \ {0}
      BY <1>1
    <3> QED BY ONLY <3>1
  <2> QED BY <2>1, <2>2, <2>3
<1> HIDE DEF fee, z, m
<1>6. before \in Int /\ before * z <= m * filled + z - 1
  <2>1. m * filled \in Int
    BY <1>3
  <2> QED BY <1>2, <2>1, Ceilings
<1>7. after \in Int /\ after * z >= m * filled + m * size
  <2>0. m \in Int /\ filled + size \in Int
    BY <1>3
  <2>1. PICK n \in Int : n = m * (filled + size)
    <3> HIDE DEF after
    <3> QED BY ONLY <2>0
  <2>2. n = m * filled + m * size
    BY <2>0, <2>1, Distributes
  <2>3. after = CeilDiv(n, z)
    BY <2>1
  <2>4. CeilDiv(n, z) \in Int /\ n <= CeilDiv(n, z) * z
    BY <1>2, <2>1, Ceilings
  <2> HIDE DEF after
  <2>5. after \in Int /\ n <= after * z
    BY <2>3, <2>4
  <2>6. after * z \in Int
    BY <1>2, <2>5
  <2> QED BY <2>1, <2>2, <2>5, <2>6
<1> HIDE DEF before, after
<1>8. M \in Int /\ M >= after - before - fee
  <2>1. PICK d \in Int : d = after - before
    BY <1>6, <1>7
  <2>2. rebate >= 0 \/ rebate = -fee
    BY DEF fee
  <2>3. fee \in Nat /\ rebate \in Int
    BY <1>5
  <2>4. d + rebate \in Int /\ d + rebate >= d - fee
    BY ONLY <2>2, <2>3, d \in Int
  <2> QED BY <2>1, <2>4
<1>9. m = u + Reserve
  BY <1>1, <1>3
<1> HIDE DEF L, P, u, v, M
\* What is set aside for the fill is more than its share of the rest.
<1>10. (after - before) * z > u * size
  <2>1. PICK a \in Int : a = after * z
    BY <1>2, <1>7
  <2>2. PICK b \in Int : b = before * z
    BY <1>2, <1>6
  <2>3. (after - before) * z = a - b
    BY <1>2, <1>6, <1>7, <2>1, <2>2
  <2>4. PICK c \in Int : c = m * filled
    BY <1>3
  <2>5. PICK e \in Int : e = u * size
    BY <1>3
  <2>6. PICK g \in Int : g = size * Reserve
    BY <1>1
  <2>7. m * size = e + g
    BY <1>1, <1>3, <1>9, <2>5, <2>6
  <2>8. b <= c + z - 1 /\ a >= c + (e + g) /\ g >= z
    BY <1>2, <1>6, <1>7, <2>1, <2>2, <2>4, <2>6, <2>7
  <2>9. a - b > e
    BY <1>2, <2>8
  <2> QED BY <2>3, <2>5, <2>9
\* At the leverage, that carries the value of the fill and its fee.
<1>11. (v * z) * D <= (u * size) * (L * RateScale)
  <2>1. D \in Nat
    BY <1>1
  <2> HIDE DEF D
  <2>2. v * z \in Int /\ N * size \in Int
    BY <1>2, <1>3, <1>4
  <2>3. (v * z) * D <= (N * size) * D
    BY <1>4, <2>1, <2>2, Products
  <2>4. N * D \in Int /\ u * L * RateScale \in Int
    BY <1>1, <1>3, <2>1
  <2>5. (N * D) * size <= (u * L * RateScale) * size
    BY <1>3, <2>4, Products
  <2>6. /\ (N * size) * D = (N * D) * size
        /\ (u * L * RateScale) * size = (u * size) * (L * RateScale)
        /\ (v * z) * D \in Int /\ (N * D) * size \in Int /\ (u * L * RateScale) * size \in Int
    BY <1>1, <1>2, <1>3, <1>4, <2>1
  <2>7. PICK a \in Int : a = (v * z) * D
    BY <2>6
  <2>8. PICK b \in Int : b = (N * D) * size
    BY <2>6
  <2>9. PICK c \in Int : c = (u * L * RateScale) * size
    BY <2>6
  <2>10. a <= b /\ b <= c
    BY <2>3, <2>5, <2>6, <2>7, <2>8, <2>9
  <2>11. a <= c
    BY <2>10
  <2> QED BY <2>6, <2>7, <2>9, <2>11
<1>12. ((after - before) * z) * (L * RateScale) > (v * z) * D
  <2>1. L * RateScale \in Nat \ {0} /\ (after - before) * z \in Int /\ u * size \in Int
    BY <1>1, <1>2, <1>3, <1>6, <1>7
  <2>2. ((after - before) * z) * (L * RateScale) > (u * size) * (L * RateScale)
    BY <1>10, <2>1, Products
  <2>3. /\ ((after - before) * z) * (L * RateScale) \in Int
        /\ (u * size) * (L * RateScale) \in Int
        /\ (v * z) * D \in Int
    BY <1>1, <1>2, <1>4, <2>1
  <2> QED BY <1>11, <2>2, <2>3
<1>13. ((after - before) * L * RateScale) * z > (v * D) * z
  <2>1. /\ ((after - before) * z) * (L * RateScale) = ((after - before) * L * RateScale) * z
        /\ (v * z) * D = (v * D) * z
    BY <1>1, <1>2, <1>4, <1>6, <1>7
  <2> QED BY <1>12, <2>1
<1>14. (after - before) * L * RateScale > v * D
  <2>1. (after - before) * L * RateScale \in Int /\ v * D \in Int
    BY <1>1, <1>4, <1>6, <1>7
  <2> QED BY <1>2, <1>13, <2>1, Products
\* Without the fee, it carries the value.
<1>15. (M * L) * RateScale > (v * LeverageScale) * RateScale
  <2>1. PICK a \in Int : a = (v * LeverageScale) * RateScale
    BY <1>1, <1>4
  <2>2. PICK b \in Int : b = (v * TakerFee) * L
    BY <1>1, <1>4
  <2>3. v * D = a + b
    BY <1>1, <1>4, <2>1, <2>2
  <2>4. PICK c \in Int : c = (after - before) * L * RateScale
    BY <1>1, <1>6, <1>7
  <2>5. PICK e \in Int : e = (fee * RateScale) * L
    BY <1>1, <1>5
  <2>6. e <= b
    <3>1. fee * RateScale \in Int /\ v * TakerFee \in Int
      BY <1>1, <1>4, <1>5
    <3> QED BY <1>1, <1>5, <2>2, <2>5, <3>1, Products
  <2>7. PICK g \in Int : g = (M * L) * RateScale
    BY <1>1, <1>8
  <2>8. c - e <= g
    <3>1. L * RateScale \in Nat /\ after - before - fee \in Int
      BY <1>1, <1>5, <1>6, <1>7
    <3>2. (after - before - fee) * (L * RateScale) <= M * (L * RateScale)
      BY <1>8, <3>1, Products
    <3>3. (after - before - fee) * (L * RateScale) = c - e
      BY <1>1, <1>5, <1>6, <1>7, <2>4, <2>5
    <3>4. M * (L * RateScale) = g
      BY <1>1, <1>8, <2>7
    <3> QED BY <3>2, <3>3, <3>4
  <2>9. c > a + b
    BY <1>14, <2>3, <2>4
  <2>10. g > a
    BY <2>6, <2>8, <2>9
  <2> QED BY <2>1, <2>7, <2>10
<1>16. M * L > v * LeverageScale
  <2>1. M * L \in Int /\ v * LeverageScale \in Int
    BY <1>1, <1>4, <1>8
  <2> QED BY <1>1, <1>15, <2>1, Products
<1>17. M \in Nat \ {0}
  <2>1. v * LeverageScale >= 0 /\ v * LeverageScale \in Int
    BY <1>1, <1>4
  <2>2. CASE M <= 0
    <3>1. M * L <= 0 * L /\ 0 * L = 0 /\ M * L \in Int
      BY <1>1, <1>8, <2>2, Products
    <3> QED BY <1>16, <2>1, <3>1
  <2> QED BY <1>8, <2>2
<1>18. v < M * MaxLeverage
  <2>1. L * M <= (MaxLeverage * LeverageScale) * M
    <3>1. MaxLeverage * LeverageScale \in Int
      BY <1>1
    <3> QED BY <1>1, <1>17, <3>1, Products
  <2>2. /\ L * M = M * L /\ (MaxLeverage * LeverageScale) * M = (M * MaxLeverage) * LeverageScale
        /\ M * L \in Int /\ (M * MaxLeverage) * LeverageScale \in Int
        /\ v * LeverageScale \in Int /\ M * MaxLeverage \in Int
    BY <1>1, <1>4, <1>17
  <2>3. v * LeverageScale < (M * MaxLeverage) * LeverageScale
    BY <1>16, <2>1, <2>2
  <2> QED BY <1>1, <1>4, <2>2, <2>3, Products
<1>19. v * InitialRate < M * RateScale
  <2>1. CASE InitialRate = 0
    <3>1. v * InitialRate = 0
      BY <1>4, <2>1
    <3>2. 0 * RateScale < M * RateScale /\ 0 * RateScale = 0
      BY <1>1, <1>17, Products
    <3> QED BY <3>1, <3>2
  <2>2. CASE InitialRate # 0
    <3>1. v * InitialRate < (M * MaxLeverage) * InitialRate
      <4>1. M * MaxLeverage \in Int
        BY <1>1, <1>17
      <4> QED BY <1>1, <1>4, <1>18, <2>2, <4>1, Products
    <3>2. (MaxLeverage * InitialRate) * M <= RateScale * M
      <4>1. MaxLeverage * InitialRate \in Int
        BY <1>1
      <4> QED BY <1>1, <1>17, <4>1, Products
    <3>3. /\ (M * MaxLeverage) * InitialRate = (MaxLeverage * InitialRate) * M
          /\ RateScale * M = M * RateScale /\ M * RateScale \in Int
          /\ v * InitialRate \in Int /\ (MaxLeverage * InitialRate) * M \in Int
      BY <1>1, <1>4, <1>17
    <3> QED BY <3>1, <3>2, <3>3
  <2> QED BY <2>1, <2>2
<1>20. v <= M * MaxLeverage
  BY <1>1, <1>4, <1>17, <1>18
<1> QED BY <1>4, <1>17, <1>19, <1>20, LimitsAreMet DEF v, M, after, before, m, z

-----------------------------------------------------------------------------
(* The sizing of orders: every step.                                       *)

OrdersFor(t) ==
  {o \in [side : {t.side}, limit : {LimitPrice(t)}, margin : Int, size : Nat \ {0},
          filled : Nat, fills : Nat] :
     o.size = ProtocolOrderSize(o.margin, t.leverage, SizingPrice(t))}

\* What is to be posted, and what was posted, is sized for the ticket.
SizingInv ==
  /\ progress \in {"idle", "posting", "placed"}
  /\ progress = "idle" => unsent = <<>> /\ placed = <<>>
  /\ progress # "idle" => Priced(ticket)
  /\ unsent \in Seq(OrdersFor(ticket)) /\ placed \in Seq(OrdersFor(ticket))

LEMMA OrdersAreSized ==
    ASSUME NEW t, NEW o \in OrdersFor(t)
    PROVE  SizedFor(t, o) /\ o.filled \in Nat
  BY DEF OrdersFor, SizedFor

\* The parts of a margin are numbers.
LEMMA PartsAreNumbers ==
    ASSUME SizingAssumption, NEW purse \in Wallets, NEW margin \in Nat
    PROVE  Parts(purse, margin) \in Seq(Int)
<1> DEFINE used == {k \in DOMAIN purse : Held(purse, k - 1) < margin}
           n == Cardinality(used)
<1>1. purse \in Seq(Nat) /\ Len(purse) \in Nat /\ DOMAIN purse = 1..Len(purse)
      /\ \A k \in 1..Len(purse) : purse[k] \in Nat
  <2>1. purse \in Seq(Nat)
    BY DEF SizingAssumption
  <2> QED BY <2>1
<1>2. n \in Nat /\ n <= Len(purse)
  <2>1. IsFiniteSet(1..Len(purse)) /\ Cardinality(1..Len(purse)) = Len(purse)
    <3>1. PICK l \in Nat : l = Len(purse)
      BY <1>1
    <3>2. IsFiniteSet(1..l) /\ Cardinality(1..l) = IF 1 > l THEN 0 ELSE l - 1 + 1
      BY ONLY l \in Nat, FS_Interval
    <3>3. Cardinality(1..l) = l
      BY <3>2
    <3> QED BY <3>1, <3>2, <3>3
  <2>2. used \subseteq 1..Len(purse)
    BY <1>1
  <2> HIDE DEF used
  <2> QED BY <2>1, <2>2, FS_Subset, FS_CardinalityType
<1> HIDE DEF n
<1>3. ASSUME NEW k \in 1..n PROVE Lesser(purse[k], margin - Held(purse, k - 1)) \in Int
  <2>1. k \in 1..Len(purse) /\ purse[k] \in Nat
    BY <1>1, <1>2
  <2>2. IsFiniteSet(1..(k - 1))
    <3>1. 1 \in Int /\ k - 1 \in Int
      BY <2>1
    <3> QED BY ONLY <3>1, FS_Interval
  <2>3. \A j \in 1..(k - 1) : purse[j] \in Nat
    BY <1>1, <2>1
  <2>4. Held(purse, k - 1) \in Nat
    BY <2>2, <2>3, SumNatural DEF Held
  <2>5. \A a, b \in Int : Lesser(a, b) \in Int
    BY DEF Lesser
  <2>6. margin - Held(purse, k - 1) \in Int
    BY <2>4
  <2>7. purse[k] \in Int
    BY <2>1
  <2>8. PICK b \in Int : b = margin - Held(purse, k - 1)
    BY <2>6
  <2>9. Lesser(purse[k], b) \in Int
    BY ONLY <2>5, <2>7, b \in Int
  <2> QED BY <2>8, <2>9
<1>4. [k \in 1..n |-> Lesser(purse[k], margin - Held(purse, k - 1))] \in Seq(Int)
  BY <1>2, <1>3
<1>5. <<margin>> \in Seq(Int) /\ <<>> \in Seq(Int)
  OBVIOUS
<1> DEFINE spread == [k \in 1..n |-> Lesser(purse[k], margin - Held(purse, k - 1))]
<1>6. Parts(purse, margin) \in {<<margin>>, <<>>, spread}
  BY DEF Parts, n
<1>7. spread \in Seq(Int)
  BY <1>4
<1> HIDE DEF spread
<1> QED BY <1>5, <1>6, <1>7

\* So is what a margin is sized to.
LEMMA SizeIsNumber ==
    ASSUME SizingAssumption, ScalesArePositive, NEW t, Priced(t), NEW part \in Int
    PROVE  ProtocolOrderSize(part, t.leverage, SizingPrice(t)) \in Nat
<1> DEFINE L == t.leverage
           P == SizingPrice(t)
           u == part - Lesser(part, Reserve)
           D == LeverageScale * RateScale + L * TakerFee
           w == u * L * RateScale
           N == w \div D
<1>1. /\ L \in Nat \ {0} /\ P \in Nat \ {0}
      /\ Reserve \in Nat \ {0} /\ LeverageScale \in Nat \ {0} /\ TakerFee \in Nat
      /\ RateScale \in Nat \ {0} /\ PriceScale \in Nat \ {0}
  BY PricedMeans, ConstantsAre
<1>2. u \in Nat
  BY <1>1 DEF Lesser
<1> HIDE DEF u, L, P
<1>3. w \in Nat
  BY <1>1, <1>2
<1>4. D \in Nat \ {0}
  <2>1. PICK a \in Nat \ {0} : a = LeverageScale * RateScale
    BY <1>1
  <2>2. PICK b \in Nat : b = L * TakerFee
    BY <1>1
  <2> QED BY <2>1, <2>2
<1> HIDE DEF w, D
<1>5. N \in Nat
  BY <1>3, <1>4, Quotients
<1> HIDE DEF N
<1>6. N * PriceScale \in Nat
  BY <1>1, <1>5
<1>7. (N * PriceScale) \div P \in Nat
  BY <1>1, <1>6, Quotients
<1> QED BY <1>7 DEF ProtocolOrderSize, N, w, D, u, L, P

LEMMA TradeIsSubmitted ==
    ASSUME SizingAssumption, ScalesArePositive, SizingInv,
           NEW t \in Tickets, NEW purse \in Wallets, SubmitTrade(t, purse)
    PROVE  SizingInv'
<1> DEFINE parts == Parts(purse, t.margin)
           sent == [k \in DOMAIN parts |-> SizedFragment(t, parts[k])]
<1>1. t.margin \in Nat /\ t.leverage \in Nat
  BY DEF SizingAssumption
<1>2. Priced(t)
  BY <1>1 DEF SubmitTrade, TicketIsComplete, Priced
<1>3. parts \in Seq(Int)
  BY <1>1, PartsAreNumbers
<1>4. /\ Len(parts) \in Nat /\ DOMAIN parts = 1..Len(parts)
      /\ \A k \in 1..Len(parts) : parts[k] \in Int
  BY <1>3
<1>5. /\ progress = "idle" /\ unsent = <<>> /\ placed = <<>> /\ placed' = placed
  BY DEF SubmitTrade, SizingInv
<1>6. \/ unsent' = <<>> /\ progress' = "idle"
      \/ /\ ~\E k \in DOMAIN sent : sent[k].size < 1
         /\ unsent' = sent /\ progress' = "posting" /\ ticket' = t
  BY DEF SubmitTrade
<1> HIDE DEF parts
<1>7. CASE unsent' = <<>> /\ progress' = "idle"
  BY <1>5, <1>7 DEF SizingInv
<1>8. CASE /\ ~\E k \in DOMAIN sent : sent[k].size < 1
           /\ unsent' = sent /\ progress' = "posting" /\ ticket' = t
  <2>1. ASSUME NEW k \in 1..Len(parts) PROVE SizedFragment(t, parts[k]) \in OrdersFor(t)
    <3>1. ProtocolOrderSize(parts[k], t.leverage, SizingPrice(t)) \in Nat
      BY <1>2, <1>4, SizeIsNumber
    <3>2. ~(SizedFragment(t, parts[k]).size < 1)
      BY <1>4, <1>8
    <3> QED BY <1>4, <3>1, <3>2 DEF SizedFragment, OrdersFor
  <2>2. sent \in Seq(OrdersFor(t))
    BY <1>4, <2>1
  <2> HIDE DEF sent
  <2> QED BY <1>2, <1>5, <1>8, <2>2 DEF SizingInv
<1> QED BY <1>6, <1>7, <1>8

LEMMA FragmentIsPosted ==
    ASSUME SizingAssumption, ScalesArePositive, SizingInv, PostFragment
    PROVE  SizingInv'
<1> DEFINE S == OrdersFor(ticket)
           order == Head(unsent)
<1>1. /\ unsent \in Seq(S) /\ placed \in Seq(S) /\ unsent # <<>> /\ progress = "posting"
      /\ Priced(ticket) /\ ticket' = ticket
  BY DEF SizingInv, PostFragment
<1> HIDE DEF S
<1>2. order \in S /\ Tail(unsent) \in Seq(S)
  BY <1>1
<1>3. MarginIsEnough(order.size, order.limit, order.margin)
  BY <1>1, <1>2, OrdersAreSized, SizedOrderIsTaken DEF S
<1>4. /\ placed' = Append(placed, order) /\ unsent' = Tail(unsent)
      /\ progress' \in {"placed", "posting"}
  BY <1>1, <1>3 DEF PostFragment
<1>5. Append(placed, order) \in Seq(S)
  BY <1>1, <1>2
<1>6. unsent' \in Seq(S) /\ placed' \in Seq(S)
  BY <1>2, <1>4, <1>5
<1> QED BY <1>1, <1>4, <1>6 DEF SizingInv, S

LEMMA FeesAreNumbers ==
    ASSUME SizingAssumption, ScalesArePositive, NEW size \in Nat, NEW price \in Nat
    PROVE  FillFees(size, price).taker \in Nat /\ FillFees(size, price).rebate \in Nat
<1> DEFINE v == Notional(size, price)
<1>1. PriceScale \in Nat \ {0} /\ RateScale \in Nat \ {0} /\ TakerFee \in Nat /\ MakerRebate \in Nat
  BY ConstantsAre
<1>2. v \in Nat
  <2>1. size * price \in Nat
    OBVIOUS
  <2> QED BY <1>1, <2>1, Quotients DEF Notional
<1> HIDE DEF v
<1>3. v * TakerFee \in Nat /\ v * MakerRebate \in Nat
  BY <1>1, <1>2
<1>4. (v * TakerFee) \div RateScale \in Nat /\ (v * MakerRebate) \div RateScale \in Nat
  BY <1>1, <1>3, Quotients
<1> QED BY <1>4 DEF FillFees, v

FilledMore(order, size) == [order EXCEPT !.filled = @ + size, !.fills = @ + 1]

LEMMA FilledIsSized ==
    ASSUME NEW t, NEW order \in OrdersFor(t), NEW size \in Nat
    PROVE  FilledMore(order, size) \in OrdersFor(t)
<1> DEFINE A == {t.side}
           B == {LimitPrice(t)}
           C == Nat \ {0}
           R == [side : A, limit : B, margin : Int, size : C, filled : Nat, fills : Nat]
           once == [order EXCEPT !.filled = order.filled + size]
           twice == [once EXCEPT !.fills = order.fills + 1]
<1>1. order \in R /\ order.size = ProtocolOrderSize(order.margin, t.leverage, SizingPrice(t))
  BY DEF OrdersFor
<1> HIDE DEF A, B, C
<1>2. order.filled + size \in Nat /\ order.fills + 1 \in Nat
  BY <1>1
<1>3. once \in R /\ once.size = order.size /\ once.margin = order.margin
  BY <1>1, <1>2
<1>4. twice = FilledMore(order, size)
  BY DEF FilledMore
<1> HIDE DEF once
<1>5. twice \in R /\ twice.size = once.size /\ twice.margin = once.margin
  BY <1>2, <1>3
<1> HIDE DEF twice
<1>6. twice \in R /\ twice.size = ProtocolOrderSize(twice.margin, t.leverage, SizingPrice(t))
  BY <1>1, <1>3, <1>5
<1>7. twice \in OrdersFor(t)
  BY <1>6 DEF OrdersFor, A, B, C
<1> QED BY <1>4, <1>7

LEMMA OneReplaced ==
    ASSUME NEW S, NEW s \in Seq(S), NEW k \in DOMAIN s, NEW x \in S
    PROVE  [s EXCEPT ![k] = x] \in Seq(S)
  OBVIOUS

LEMMA OrderIsFilled ==
    ASSUME SizingAssumption, ScalesArePositive, SizingInv,
           NEW k \in DOMAIN placed, NEW isMaker \in BOOLEAN,
           NEW size \in 1..placed[k].size, NEW price \in PricesOf(placed[k]),
           FillOrder(k, size, price, isMaker)
    PROVE  SizingInv'
<1> DEFINE S == OrdersFor(ticket)
           order == placed[k]
           fees == FillFees(size, price)
           rebate == IF isMaker THEN fees.rebate ELSE -fees.taker
           margin == CeilDiv(order.margin * (order.filled + size), order.size)
                       - CeilDiv(order.margin * order.filled, order.size) + rebate
<1>1. /\ progress = "placed" /\ Priced(ticket) /\ placed \in Seq(S) /\ unsent \in Seq(S)
      /\ ticket' = ticket /\ unsent' = unsent /\ size * Reserve >= order.size
      /\ placed' = [placed EXCEPT ![k].filled = @ + size, ![k].fills = @ + 1]
      /\ progress' = IF MarginIsEnough(size, price, margin) THEN progress ELSE "poisoned"
  BY DEF SizingInv, FillOrder
<1>2. order \in S
  BY <1>1
<1>3. SizedFor(ticket, order) /\ order.filled \in Nat
  BY <1>2, OrdersAreSized
<1>4. size \in Nat
  BY <1>3 DEF SizedFor
<1>5. price \in Nat /\ price <= SizingPrice(ticket)
  <2>1. /\ order.limit \in Int /\ order.limit > 0 /\ SizingPrice(ticket) \in Int
        /\ order.limit <= SizingPrice(ticket)
    <3>1. order.limit = LimitPrice(ticket)
      BY <1>3 DEF SizedFor
    <3>2. Priced(ticket)
      BY <1>1
    <3> HIDE DEF order, rebate, margin, fees, S
    <3>3. /\ LimitPrice(ticket) \in Nat \ {0} /\ SizingPrice(ticket) \in Nat \ {0}
          /\ LimitPrice(ticket) <= SizingPrice(ticket)
      BY <3>2, PricedMeans
    <3> QED BY <3>1, <3>3
  <2>2. \/ price \in 1..order.limit
        \/ price \in order.limit..SizingPrice(ticket)
    BY DEF PricesOf
  <2>3. PICK limit \in Int : limit = order.limit
    BY <2>1
  <2>4. PICK best \in Int : best = SizingPrice(ticket)
    BY <2>1
  <2>5. limit > 0 /\ limit <= best /\ (price \in 1..limit \/ price \in limit..best)
    BY <2>1, <2>2, <2>3, <2>4
  <2>6. price \in Nat /\ price <= best
    BY ONLY <2>5
  <2> QED BY <2>4, <2>6
<1>6. rebate \in Int /\ (rebate >= 0 \/ rebate = -fees.taker)
  <2>1. fees.taker \in Nat /\ fees.rebate \in Nat
    BY <1>4, <1>5, FeesAreNumbers
  <2> HIDE DEF fees
  <2> QED BY <2>1
<1>7. MarginIsEnough(size, price, margin)
  <2> HIDE DEF rebate
  <2> QED BY <1>1, <1>3, <1>4, <1>5, <1>6, SizedFillIsSafe
<1>8. progress' = "placed"
  BY <1>1, <1>7
<1> DEFINE new == FilledMore(order, size)
<1>9. new \in S
  <2> HIDE DEF order, new
  <2>1. FilledMore(order, size) \in OrdersFor(ticket)
    BY <1>2, <1>4, FilledIsSized
  <2> QED BY <2>1 DEF new
<1>10. placed' = [placed EXCEPT ![k] = new]
  BY <1>1 DEF FilledMore
<1> HIDE DEF new, S
<1>11. placed' \in Seq(S)
  <2>1. [placed EXCEPT ![k] = new] \in Seq(S)
    BY <1>1, <1>9, OneReplaced
  <2> QED BY <1>10, <2>1
<1> QED BY <1>1, <1>8, <1>11 DEF SizingInv, S

\* What the ticket sizes the protocol trades, at any price the order may trade
\* at and in any fills that are not too small for the reserve.
THEOREM TicketsAreTraded == SizingSpec => []SizedOrdersTrade
<1>1. SizingInit => SizingInv
  BY DEF SizingInit, SizingInv
<1>2. SizingInv /\ [SizingNext]_sizingVars => SizingInv'
  <2> SUFFICES ASSUME SizingInv, [SizingNext]_sizingVars PROVE SizingInv'
    OBVIOUS
  <2> USE SizingAssumption, ScalesArePositive
  <2>1. CASE \E t \in Tickets, purse \in Wallets : SubmitTrade(t, purse)
    BY <2>1, TradeIsSubmitted
  <2>2. CASE PostFragment
    BY <2>2, FragmentIsPosted
  <2>3. CASE \E k \in DOMAIN placed, isMaker \in BOOLEAN :
               \E size \in 1..placed[k].size, price \in PricesOf(placed[k]) :
                 FillOrder(k, size, price, isMaker)
    BY <2>3, OrderIsFilled
  <2>4. CASE UNCHANGED sizingVars
    BY <2>4 DEF sizingVars, SizingInv, OrdersFor, Priced
  <2> QED BY <2>1, <2>2, <2>3, <2>4 DEF SizingNext
<1>3. SizingInv => SizedOrdersTrade
  BY DEF SizingInv, SizedOrdersTrade
<1> QED BY <1>1, <1>2, <1>3, PTL DEF SizingSpec
=============================================================================
