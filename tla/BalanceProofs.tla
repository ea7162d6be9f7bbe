---------------------------- MODULE BalanceProofs ----------------------------
(***************************************************************************)
(* Proofs about what an account holds and what it is charged.              *)
(*                                                                         *)
(* The private balance, for any number of notes, orders and amounts: the   *)
(* server credits only what is in the pool, and what the pool holds the    *)
(* owner can open and finish claiming, whatever becomes of the tasks of    *)
(* the browser and of its storage.                                         *)
(*                                                                         *)
(* Funding, for any number of markets, prices, rates and intervals: no     *)
(* stretch of time is charged twice, whatever answers the funding engine   *)
(* misses.                                                                 *)
(***************************************************************************)
EXTENDS PrivateBalance, FundingEngine, FiniteSetTheorems, SequenceTheorems,
        WellFoundedInduction, TLAPS

-----------------------------------------------------------------------------
(* What an order takes its margin from.                                    *)

\* A sequence is one of what it holds.
LEMMA OwnRange ==
    ASSUME NEW n \in Nat, NEW S, NEW s \in [1..n -> S]
    PROVE  s \in Seq(Range(s)) /\ Len(s) = n
<1>1. s \in [1..n -> Range(s)]
  BY DEF Range
<1>2. s \in Seq(Range(s))
  BY <1>1, SeqDef, Zenon
<1> QED BY <1>2

\* The amounts of no notes add up to nothing.
LEMMA TotalOfNothing == TotalOf(<<>>) = 0
<1> DEFINE Iterates(h) ==
      h = [s \in SUBSET {} |->
             IF s = {} THEN 0
             ELSE h[s \ {CHOOSE x \in s : TRUE}] + <<>>[CHOOSE x \in s : TRUE].amount]
<1>1. Iterates([s \in SUBSET {} |-> 0])
  OBVIOUS
<1>2. Iterates(CHOOSE h : Iterates(h))
  BY <1>1
<1>3. (CHOOSE h : Iterates(h))[{}] = 0
  BY <1>2
<1>4. TotalOf(<<>>) = (CHOOSE h : Iterates(h))[{}]
  BY DEF TotalOf, FoldSeq, FoldFunction, FoldFunctionOnSet, MapThenFoldSet
<1> QED BY <1>3, <1>4

\* The allocations of a positive amount name at least one note.
LEMMA AllocationsNameNotes ==
    ASSUME NEW notes, IsFiniteSet(DOMAIN notes), NEW amount \in Nat \ {0},
           NEW parts \in Allocations(notes, amount)
    PROVE  parts # <<>> /\ parts \in Seq(Range(parts))
<1> DEFINE sufficient == {n \in Available(notes) : n.amount >= amount}
           before(ordered, k) == TotalOf(SubSeq(ordered, 1, k - 1))
           part(ordered, k) ==
             [note |-> ordered[k], margin |-> Min({ordered[k].amount, amount - before(ordered, k)})]
           taken(ordered) == {k \in DOMAIN ordered : before(ordered, k) < amount}
<1>1. CASE sufficient # {}
  <2>1. \E n : parts = <<[note |-> n, margin |-> amount]>>
    BY <1>1 DEF Allocations
  <2>2. PICK part1 : parts = <<part1>>
    BY <2>1
  <2>3. parts \in [1..1 -> {part1}] /\ parts # <<>>
    BY <2>2
  <2> QED BY <2>3, OwnRange
<1>2. CASE sufficient = {}
  <2>1. PICK s \in LargestFirst(Available(notes)) :
          /\ before(s, Len(s) + 1) >= amount
          /\ parts = [k \in 1..Cardinality(taken(s)) |-> part(s, k)]
    BY <1>2 DEF Allocations
  <2>2. Len(s) \in Nat /\ DOMAIN s = 1..Len(s)
    <3>1. IsFiniteSet(Available(notes))
      BY FS_Subset DEF Available
    <3>2. PICK n \in Nat : Cardinality(Available(notes)) = n
      BY <3>1, FS_CardinalityType
    <3>3. s \in [1..n -> Available(notes)]
      BY <3>2 DEF LargestFirst, SetToSeqs
    <3> QED BY <3>3
  <2>3. before(s, 1) = 0 /\ (Len(s) = 0 => before(s, Len(s) + 1) = 0)
    <3>1. SubSeq(s, 1, 0) = <<>>
      BY <2>2
    <3>2. \A m : m = 0 => TotalOf(SubSeq(s, 1, m)) = 0
      BY <3>1, TotalOfNothing, Zenon
    <3> DEFINE m == 1 - 1
               l == Len(s) + 1 - 1
    <3>3. m = 0 /\ (Len(s) = 0 => l = 0)
      BY <2>2
    <3>4. before(s, 1) = TotalOf(SubSeq(s, 1, m)) /\ before(s, Len(s) + 1) = TotalOf(SubSeq(s, 1, l))
      OBVIOUS
    <3> HIDE DEF m, l, before
    <3> QED BY <3>2, <3>3, <3>4
  <2>4. IsFiniteSet(taken(s)) /\ 1 \in taken(s)
    <3>1. IsFiniteSet(1..Len(s))
      BY <2>2, FS_Interval
    <3>2. 1 \in DOMAIN s
      <4>1. Len(s) # 0
        BY <2>1, <2>3
      <4> QED BY <2>2, <4>1
    <3>3. taken(s) \subseteq 1..Len(s)
      BY <2>2
    <3>4. IsFiniteSet(taken(s))
      BY <3>1, <3>3, FS_Subset
    <3> QED BY <2>3, <3>2, <3>4
  <2> DEFINE S == taken(s)
  <2> HIDE DEF S
  <2>5. PICK n \in Nat \ {0} : Cardinality(S) = n
    BY <2>4, FS_CardinalityType, FS_EmptySet DEF S
  <2> HIDE DEF part
  <2>6. parts = [k \in 1..n |-> part(s, k)]
    BY <2>1, <2>5 DEF S
  <2>7. parts \in [1..n -> {part(s, k) : k \in 1..n}]
    BY <2>6
  <2>8. parts \in Seq(Range(parts)) /\ Len(parts) = n
    BY <2>7, OwnRange
  <2> QED BY <2>8
<1> QED BY <1>1, <1>2

-----------------------------------------------------------------------------
(* The inductive invariant.                                                *)

\* What the two sides are made of.
SidesShaped ==
    /\ DOMAIN server = {"known", "spent", "pending", "relays", "orders", "positions"}
    /\ DOMAIN chain = {"pool", "nullified", "residuals", "claimed", "positions", "settled"}
    /\ IsFiniteSet(DOMAIN wallet) /\ IsFiniteSet(backups)

\* Orders are named as they should be; only orders of a client leave residuals.
OrderFields == {"status", "note", "source", "change", "margin"}

OrdersNamed ==
    /\ \A c \in DOMAIN server.orders :
          /\ c \in Seq(Groups \cup Nat) /\ Len(c) \in {2, 3} /\ c[2] \in Nat
          /\ DOMAIN server.orders[c] = OrderFields
    /\ \A c \in DOMAIN chain.settled : ~chain.settled[c] => Len(c) = 2

\* The server's account is covered by the chain's: also by what was relayed and
\* not yet credited, and by the batches that settled and are not yet committed.
AccountCovered ==
    /\ server.known \subseteq chain.pool
    /\ server.spent \subseteq chain.nullified
    /\ server.relays \subseteq chain.pool
    /\ \A c \in DOMAIN chain.settled :
          /\ c \in DOMAIN server.orders
          /\ NotesOf(server.orders[c].change) \subseteq chain.pool
          /\ NotesOf(server.orders[c].note) \subseteq chain.nullified

\* What is, or may come, into the pool was backed up before.
BackedUp ==
    /\ chain.pool \subseteq backups
    /\ \A c \in DOMAIN server.orders : NotesOf(server.orders[c].change) \subseteq backups

\* A claim binds a note of its residual; until the server credits it the browser,
\* if it has the note, holds it as claiming.
ClaimsHeld ==
    \A c \in DOMAIN chain.claimed :
        LET n == chain.claimed[c]
        IN  /\ n.kind = "claim" /\ n.of = c /\ n \in chain.pool
            /\ n \in DOMAIN wallet => n \in server.known \/ wallet[n].status = "claiming"

\* A note that claims is held as claiming, unless the claim is decided.
ClaimStands(n) ==
    \/ n \in DOMAIN wallet /\ wallet[n].status = "claiming"
    \/ n \in server.known
    \/ ClaimedNote(n.of) \notin {NoNote, n}

ClaimTaskOK(t) ==
    /\ {"order", "claimed"} \subseteq DOMAIN t
    /\ t.step \in {"choose", "make", "backUp", "post", "finish"}
    /\ t.step = "choose" /\ t.claimed # NoNote => ClaimedNote(t.order) = t.claimed
    /\ t.step \in {"backUp", "post", "finish"} => t.note.kind = "claim" /\ t.note.of = t.order
    /\ t.step \in {"backUp", "post"} => ClaimStands(t.note)
    /\ t.step = "post" => t.note \in backups
    /\ t.step = "finish" => t.note \in server.known /\ ClaimedNote(t.order) = t.note

\* The change of the fragment that an order's task is at.
ChangeOf(t) == ChangeNote(Fragment(t), Head(t.left))

OrderTaskOK(t) ==
    /\ {"group", "left", "sent"} \subseteq DOMAIN t
    /\ t.group \in Groups
    /\ t.left # <<>> /\ t.left \in Seq(Range(t.left))
    /\ \A k \in DOMAIN t.left : t.left[k].note \in server.known
    /\ t.sent \in Seq(Seq(Groups \cup Nat))
    /\ t.step = "backUp" => t.note = ChangeOf(t)
    /\ t.step = "post" => NotesOf(ChangeOf(t)) \subseteq backups

TaskOK(t) ==
    /\ {"op", "step"} \subseteq DOMAIN t
    /\ t.op \in {"load", "deposit", "order", "withdraw", "close", "claim"}
    /\ t.op # "load" => "note" \in DOMAIN t
    /\ t.op = "load" => t.step = "apply"
    /\ t.op \in {"deposit", "close"} =>
          t.note.kind = t.op /\ (t.step = "post" => t.note \in backups)
    /\ t.op = "withdraw" => t.note \in server.known /\ t.step \in {"post", "finish"}
    /\ t.op = "claim" => ClaimTaskOK(t)
    /\ t.op = "order" => OrderTaskOK(t)

\* An order's task that goes forward is ahead of the orders that the server has
\* of its group, and the only one of its group.
Sent(t) == Len(t.sent) + IF t.step = "accepted" THEN 1 ELSE 0

Ahead(t) ==
    t.op = "order" /\ t.step \in {"prove", "backUp", "post", "accepted"} =>
        \A c \in DOMAIN server.orders : c[1] = t.group /\ Len(c) = 2 => c[2] <= Sent(t)

FragmentsInOrder ==
    /\ \A t \in tasks : Ahead(t)
    /\ \A t, u \in tasks : t.op = "order" /\ u.op = "order" /\ t.group = u.group => t = u

BalanceInv ==
    /\ SidesShaped /\ OrdersNamed /\ AccountCovered /\ BackedUp /\ ClaimsHeld
    /\ \A t \in tasks : TaskOK(t)
    /\ FragmentsInOrder

-----------------------------------------------------------------------------
(* What every step but a wipe of the browser does to what tasks rely on.   *)

\* Notes that claim stay so until their claim is decided, and no other note of a
\* claim appears in the browser unless it may be used.
ClaimsStay ==
    /\ \A n \in DOMAIN wallet :
          n.kind = "claim" /\ wallet[n].status = "claiming" =>
              \/ n \in DOMAIN wallet' /\ wallet'[n].status = "claiming"
              \/ n \in server'.known
              \/ ClaimedNote(n.of)' \notin {NoNote, n}
    /\ \A n \in DOMAIN wallet' \ DOMAIN wallet :
          n.kind = "claim" => n \in server'.known \/ wallet'[n].status = "claiming"

\* A claim is bound once, to a note of its residual that is claiming.
ClaimsBind ==
    /\ \A c \in DOMAIN chain.claimed :
          c \in DOMAIN chain'.claimed /\ chain'.claimed[c] = chain.claimed[c]
    /\ \A c \in DOMAIN chain'.claimed \ DOMAIN chain.claimed :
          LET n == chain'.claimed[c]
          IN  n.kind = "claim" /\ n.of = c /\ n \in chain'.pool /\ ClaimStands(n)

Grows ==
    /\ backups \subseteq backups'
    /\ server.known \subseteq server'.known
    /\ chain.pool \subseteq chain'.pool
    /\ ClaimsStay /\ ClaimsBind

\* A claim once bound stays, and what stands goes on to.
LEMMA ClaimsGoOn ==
    ASSUME ClaimsHeld, Grows
    PROVE  /\ \A c : ClaimedNote(c) # NoNote => ClaimedNote(c)' = ClaimedNote(c)
           /\ \A n : n.kind = "claim" /\ ClaimStands(n) => ClaimStands(n)'
           /\ ClaimsHeld'
<1>1. \A c \in DOMAIN chain.claimed : chain.claimed[c].kind = "claim"
  BY DEF ClaimsHeld
<1>2. \A n : n.kind = "claim" => n # NoNote
  BY DEF NoNote
<1>3. ASSUME NEW c, ClaimedNote(c) # NoNote PROVE ClaimedNote(c)' = ClaimedNote(c)
  BY <1>3 DEF ClaimedNote, Grows, ClaimsBind
<1>4. ASSUME NEW n, n.kind = "claim", ClaimStands(n) PROVE ClaimStands(n)'
  <2>1. CASE n \in DOMAIN wallet /\ wallet[n].status = "claiming"
    BY <1>4, <2>1 DEF Grows, ClaimsStay, ClaimStands
  <2>2. CASE n \in server.known
    BY <2>2 DEF Grows, ClaimStands
  <2>3. CASE ClaimedNote(n.of) \notin {NoNote, n}
    BY <1>3, <2>3 DEF ClaimStands
  <2> QED BY <1>4, <2>1, <2>2, <2>3 DEF ClaimStands
<1>5. ASSUME NEW c \in DOMAIN chain'.claimed
      PROVE  LET n == chain'.claimed[c]
             IN  /\ n.kind = "claim" /\ n.of = c /\ n \in chain'.pool
                 /\ n \in DOMAIN wallet' => n \in server'.known \/ wallet'[n].status = "claiming"
  <2>0. PICK n : n = chain'.claimed[c]
    OBVIOUS
  <2>1. n.kind = "claim" /\ n.of = c /\ n \in chain'.pool
        /\ (ClaimStands(n) \/ n \notin DOMAIN wallet)
    <3>1. CASE c \in DOMAIN chain.claimed
      BY <2>0, <3>1 DEF ClaimsHeld, Grows, ClaimsBind, ClaimStands
    <3>2. CASE c \notin DOMAIN chain.claimed
      BY <2>0, <3>2 DEF Grows, ClaimsBind
    <3> QED BY <3>1, <3>2
  <2>2. ClaimedNote(n.of)' = n
    BY <2>0, <2>1 DEF ClaimedNote
  <2>3. ClaimStands(n) => ClaimStands(n)'
    BY <1>4, <2>1
  <2>4. n \in DOMAIN wallet' => n \in server'.known \/ wallet'[n].status = "claiming"
    BY <2>1, <2>2, <2>3 DEF Grows, ClaimsStay, ClaimStands
  <2> QED BY <2>0, <2>1, <2>4
<1> QED BY <1>3, <1>4, <1>5 DEF ClaimsHeld

\* So what is said of a task stays true of it.
LEMMA TaskGoesOn ==
    ASSUME ClaimsHeld, Grows, NEW t, TaskOK(t)
    PROVE  TaskOK(t)'
<1>1. backups \subseteq backups' /\ server.known \subseteq server'.known
  BY DEF Grows
<1>2. t.op = "claim" => ClaimTaskOK(t)'
  <2> SUFFICES ASSUME t.op = "claim" PROVE ClaimTaskOK(t)'
    OBVIOUS
  <2>1. ClaimTaskOK(t)
    BY DEF TaskOK
  <2>2. t.step = "choose" /\ t.claimed # NoNote => ClaimedNote(t.order)' = t.claimed
    BY <2>1, ClaimsGoOn DEF ClaimTaskOK
  <2>3. t.step \in {"backUp", "post"} => ClaimStands(t.note)'
    BY <2>1, ClaimsGoOn DEF ClaimTaskOK
  <2>4. t.step = "finish" => ClaimedNote(t.order)' = t.note
    <3>1. t.step = "finish" => t.note # NoNote
      BY <2>1 DEF ClaimTaskOK, NoNote
    <3> QED BY <2>1, <3>1, ClaimsGoOn DEF ClaimTaskOK
  <2> QED BY <1>1, <2>1, <2>2, <2>3, <2>4 DEF ClaimTaskOK
<1>3. t.op = "order" => OrderTaskOK(t)'
  BY <1>1 DEF TaskOK, OrderTaskOK
<1> QED BY <1>1, <1>2, <1>3 DEF TaskOK

\* One task may come or go on otherwise.
LEMMA TasksGoOn ==
    ASSUME ClaimsHeld, \A t \in tasks : TaskOK(t), Grows,
           NEW u, tasks' \subseteq tasks \cup {u}, u \in tasks' \ tasks => TaskOK(u)'
    PROVE  \A t \in tasks' : TaskOK(t)'
BY TaskGoesOn

\* A task that goes to another step.
LEMMA StepOf ==
    ASSUME NEW t, {"op", "step"} \subseteq DOMAIN t, NEW s,
           NEW u, u = [t EXCEPT !.step = s]
    PROVE  /\ DOMAIN u = DOMAIN t /\ u.step = s
           /\ u.op = t.op
           /\ "note" \in DOMAIN t => u.note = t.note
           /\ "group" \in DOMAIN t => u.group = t.group
           /\ "left" \in DOMAIN t => u.left = t.left
           /\ "sent" \in DOMAIN t => u.sent = t.sent
           /\ "order" \in DOMAIN t => u.order = t.order
           /\ "claimed" \in DOMAIN t => u.claimed = t.claimed
OBVIOUS

-----------------------------------------------------------------------------
(* The fragments.                                                          *)

\* No order comes, but residuals, and no task of an order.
LEMMA FragmentsRest ==
    ASSUME FragmentsInOrder, NEW u, u.op # "order", tasks' \subseteq tasks \cup {u},
           \A c \in DOMAIN server'.orders : c \in DOMAIN server.orders \/ Len(c) = 3
    PROVE  FragmentsInOrder'
<1>1. ASSUME NEW t \in tasks' PROVE Ahead(t)'
  <2>1. CASE t = u
    BY <2>1 DEF Ahead
  <2>2. CASE t \in tasks
    <3>1. Ahead(t)
      BY <2>2 DEF FragmentsInOrder
    <3>2. \A c \in DOMAIN server'.orders : Len(c) = 2 => c \in DOMAIN server.orders
      OBVIOUS
    <3> QED BY <3>1, <3>2 DEF Ahead, Sent
  <2> QED BY <2>1, <2>2
<1> QED BY <1>1 DEF FragmentsInOrder

\* A task of an order goes on, and an order comes, if any does, of its group.
LEMMA FragmentsMove ==
    ASSUME FragmentsInOrder, NEW t \in tasks, NEW u, tasks' \subseteq (tasks \ {t}) \cup {u},
           t.op = "order", u.op = "order", u.group = t.group, Ahead(u)',
           \A c \in DOMAIN server'.orders : c \in DOMAIN server.orders \/ c[1] = t.group
    PROVE  FragmentsInOrder'
<1>1. ASSUME NEW v \in tasks' PROVE Ahead(v)'
  <2>1. CASE v = u
    BY <2>1
  <2>2. CASE v \in tasks /\ v # t
    BY <2>2 DEF FragmentsInOrder, Ahead, Sent
  <2> QED BY <2>1, <2>2
<1>2. ASSUME NEW v \in tasks', NEW w \in tasks', v.op = "order", w.op = "order", v.group = w.group
      PROVE  v = w
  BY <1>2 DEF FragmentsInOrder
<1> QED BY <1>1, <1>2 DEF FragmentsInOrder

-----------------------------------------------------------------------------
(* The browser's part.                                                     *)

\* From one set of notes to another: none is lost, those that claim still do or
\* are money by now, and those that come are not of claims.
Keeps(a, b) ==
    /\ IsFiniteSet(DOMAIN a) => IsFiniteSet(DOMAIN b)
    /\ \A n \in DOMAIN a :
          n.kind = "claim" /\ a[n].status = "claiming" =>
              n \in DOMAIN b /\ (b[n].status = "claiming" \/ n \in server.known)
    /\ \A n \in DOMAIN b \ DOMAIN a : n.kind # "claim"

LEMMA KeepsItself ==
    ASSUME NEW a
    PROVE  Keeps(a, a)
BY DEF Keeps

LEMMA KeepsOn ==
    ASSUME NEW a, NEW b, NEW c, Keeps(a, b), Keeps(b, c), DOMAIN b \subseteq DOMAIN c
    PROVE  Keeps(a, c)
BY DEF Keeps

\* A note that is not of a claim is saved.
LEMMA SavedKeeps ==
    ASSUME NEW notes, NEW note, note.kind # "claim", NEW status, NEW lock
    PROVE  /\ Keeps(notes, Saved(notes, note, status, lock))
           /\ DOMAIN notes \subseteq DOMAIN Saved(notes, note, status, lock)
<1>1. IsFiniteSet(DOMAIN notes) => IsFiniteSet(DOMAIN notes \cup {note})
  BY FS_AddElement
<1> QED BY <1>1 DEF Keeps, Saved, Extended

\* A note that the server knows is locked, or written off.
LEMMA MarkKeeps ==
    ASSUME NEW notes, NEW note \in server.known, NEW order
    PROVE  Keeps(notes, MarkedSpent(notes, note)) /\ Keeps(notes, Locked(notes, note, order))
<1>1. Keeps(notes, MarkedSpent(notes, note))
  BY DEF Keeps, MarkedSpent
<1>2. Keeps(notes, Locked(notes, note, order))
  BY DEF Keeps, Locked
<1> QED BY <1>1, <1>2

\* Reconciliation leaves notes alone that claim.
LEMMA ReconciledKeeps ==
    ASSUME NEW notes, NEW rows
    PROVE  Keeps(notes, Reconciled(notes, rows))
BY DEF Keeps, Reconciled, Resolved

LEMMA KeepsClaims ==
    ASSUME Keeps(wallet, wallet'), server.known \subseteq server'.known
    PROVE  ClaimsStay /\ (IsFiniteSet(DOMAIN wallet) => IsFiniteSet(DOMAIN wallet'))
BY DEF Keeps, ClaimsStay

-----------------------------------------------------------------------------
(* The steps.                                                              *)

\* What a step is to keep, from its parts.
LEMMA Assembled ==
    ASSUME BalanceInv, NEW u, tasks' \subseteq tasks \cup {u}, u \in tasks' \ tasks => TaskOK(u)', Grows,
           SidesShaped', OrdersNamed', AccountCovered', BackedUp', FragmentsInOrder'
    PROVE  BalanceInv'
<1>1. ClaimsHeld /\ \A t \in tasks : TaskOK(t)
  BY DEF BalanceInv
<1>2. ClaimsHeld'
  BY <1>1, ClaimsGoOn
<1>3. \A t \in tasks' : TaskOK(t)'
  BY <1>1, TasksGoOn
<1> QED BY <1>2, <1>3 DEF BalanceInv

\* Of a step in the browser.
LEMMA BrowserSteps ==
    ASSUME BalanceInv, UNCHANGED <<backups, server, chain>>,
           ClaimsStay, IsFiniteSet(DOMAIN wallet) => IsFiniteSet(DOMAIN wallet'),
           NEW u, tasks' \subseteq tasks \cup {u}, u \in tasks' \ tasks => TaskOK(u)', FragmentsInOrder'
    PROVE  BalanceInv'
<1>1. Grows
  BY DEF Grows, ClaimsBind
<1>2. SidesShaped' /\ OrdersNamed' /\ AccountCovered' /\ BackedUp'
  BY DEF BalanceInv, SidesShaped, OrdersNamed, AccountCovered, BackedUp
<1> QED BY <1>1, <1>2, Assembled

\* Nothing but the tasks, of which one may come that is not of an order.
LEMMA TaskComes ==
    ASSUME BalanceInv, UNCHANGED <<wallet, backups, server, chain>>,
           NEW u, tasks' \subseteq tasks \cup {u}, u.op # "order", u \in tasks' \ tasks => TaskOK(u)'
    PROVE  BalanceInv'
<1>1. ClaimsStay /\ (IsFiniteSet(DOMAIN wallet) => IsFiniteSet(DOMAIN wallet'))
  BY KeepsItself, KeepsClaims
<1>2. FragmentsInOrder'
  BY FragmentsRest DEF BalanceInv
<1> QED BY <1>1, <1>2, BrowserSteps

LEMMA OrderStarts ==
    ASSUME BalanceInv, NEW g \in Groups, StartOrder(g)
    PROVE  BalanceInv'
<1>1. PICK parts \in Allocations(wallet, Margin[g]) :
        /\ \A k \in DOMAIN parts : parts[k].note \in server.known
        /\ tasks' = tasks \cup {[op |-> "order", step |-> "prove", note |-> NoNote,
                                 group |-> g, left |-> parts, sent |-> <<>>]}
  BY DEF StartOrder, Starts, HasMembership
<1>2. /\ UNCHANGED <<wallet, backups, server, chain>>
      /\ \A c \in DOMAIN server.orders : c[1] # g
      /\ \A t \in tasks : t.op = "order" => t.group # g
  BY DEF StartOrder
<1>3. parts # <<>> /\ parts \in Seq(Range(parts))
  <2>1. IsFiniteSet(DOMAIN wallet) /\ Margin[g] \in Nat \ {0}
    BY PrivateBalanceAssumption DEF BalanceInv, SidesShaped
  <2> QED BY <2>1, AllocationsNameNotes
<1>4. PICK u : u = [op |-> "order", step |-> "prove", note |-> NoNote,
                    group |-> g, left |-> parts, sent |-> <<>>]
  OBVIOUS
<1>5. TaskOK(u)'
  <2>1. <<>> \in Seq(Seq(Groups \cup Nat))
    OBVIOUS
  <2> QED BY <1>1, <1>2, <1>3, <1>4, <2>1 DEF TaskOK, OrderTaskOK
<1>6. FragmentsInOrder'
  <2>1. Ahead(u)'
    BY <1>2, <1>4 DEF Ahead
  <2>2. \A t \in tasks : Ahead(t)'
    BY <1>2 DEF BalanceInv, FragmentsInOrder, Ahead, Sent
  <2>3. u.group = g /\ tasks' = tasks \cup {u}
    BY <1>1, <1>4
  <2> QED BY <1>2, <2>1, <2>2, <2>3 DEF BalanceInv, FragmentsInOrder
<1>7. ClaimsStay /\ (IsFiniteSet(DOMAIN wallet) => IsFiniteSet(DOMAIN wallet'))
  BY <1>2, KeepsItself, KeepsClaims
<1> QED BY <1>1, <1>2, <1>4, <1>5, <1>6, <1>7, BrowserSteps

\* Tasks that start with a question, and those that end with nothing done.
LEMMA TasksStartAndEnd ==
    ASSUME BalanceInv
    PROVE  /\ LoadPortfolio => BalanceInv'
           /\ \A n \in DOMAIN wallet : StartWithdrawal(n) => BalanceInv'
           /\ \A c : StartClaim(c) => BalanceInv'
           /\ \A t \in tasks : CloseIsRefused(t) \/ Abandon(t) => BalanceInv'
<1>1. ASSUME LoadPortfolio PROVE BalanceInv'
  <2>1. PICK u : u = [op |-> "load", step |-> "apply",
                      rows |-> {OrderRow(server.orders, c) : c \in DOMAIN server.orders}]
    OBVIOUS
  <2>2. tasks' = tasks \cup {u} /\ UNCHANGED <<wallet, backups, server, chain>>
    BY <1>1, <2>1 DEF LoadPortfolio
  <2>3. u.op = "load" /\ TaskOK(u)'
    BY <2>1 DEF TaskOK
  <2> QED BY <2>2, <2>3, TaskComes
<1>2. ASSUME NEW n \in DOMAIN wallet, StartWithdrawal(n) PROVE BalanceInv'
  <2>1. PICK u : u = [op |-> "withdraw", step |-> "post", note |-> n, root |-> server.known]
    OBVIOUS
  <2>2. /\ tasks' = tasks \cup {u} /\ UNCHANGED <<wallet, backups, server, chain>>
        /\ n \in server'.known
    BY <1>2, <2>1 DEF StartWithdrawal, Starts, HasMembership
  <2>3. u.op = "withdraw" /\ TaskOK(u)'
    BY <2>1, <2>2 DEF TaskOK
  <2> QED BY <2>2, <2>3, TaskComes
<1>3. ASSUME NEW c, StartClaim(c) PROVE BalanceInv'
  <2>1. PICK u : u = [op |-> "claim", step |-> "choose", note |-> NoNote,
                      order |-> c, claimed |-> ClaimedNote(c)]
    OBVIOUS
  <2>2. tasks' = tasks \cup {u} /\ UNCHANGED <<wallet, backups, server, chain>>
    BY <1>3, <2>1 DEF StartClaim, Starts
  <2>3. u.op = "claim" /\ u.step = "choose" /\ ClaimedNote(u.order)' = u.claimed
    BY <2>1, <2>2 DEF ClaimedNote
  <2>4. TaskOK(u)'
    BY <2>1, <2>3 DEF TaskOK, ClaimTaskOK
  <2> QED BY <2>2, <2>3, <2>4, TaskComes
<1>4. ASSUME NEW t \in tasks, CloseIsRefused(t) \/ Abandon(t) PROVE BalanceInv'
  <2>1. PICK u : u = [op |-> "load", step |-> "apply"]
    OBVIOUS
  <2>2. tasks' \subseteq tasks \cup {u} /\ UNCHANGED <<wallet, backups, server, chain>>
    BY <1>4 DEF CloseIsRefused, Abandon, Ends
  <2>3. u.op = "load" /\ TaskOK(u)'
    BY <2>1 DEF TaskOK
  <2> QED BY <2>2, <2>3, TaskComes
<1> QED BY <1>1, <1>2, <1>3, <1>4

\* No task comes, but one may end.
LEMMA TaskEnds ==
    ASSUME BalanceInv, UNCHANGED <<backups, server, chain>>, tasks' \subseteq tasks,
           ClaimsStay, IsFiniteSet(DOMAIN wallet) => IsFiniteSet(DOMAIN wallet')
    PROVE  BalanceInv'
<1>1. PICK u : u = [op |-> "load", step |-> "apply"]
  OBVIOUS
<1>2. u.op = "load" /\ TaskOK(u)'
  BY <1>1 DEF TaskOK
<1>3. FragmentsInOrder'
  BY <1>2, FragmentsRest DEF BalanceInv
<1> QED BY <1>2, <1>3, BrowserSteps

LEMMA NotesComeFree ==
    ASSUME BalanceInv
    PROVE  /\ SyncBackups => BalanceInv'
           /\ \A t \in tasks : NoteIsCredited(t) \/ ApplyPortfolio(t) \/ NoteIsWithdrawn(t) => BalanceInv'
<1>1. ASSUME SyncBackups PROVE BalanceInv'
  <2>1. PICK restored \in SUBSET backups :
          /\ DOMAIN wallet' = DOMAIN wallet \cup restored /\ restored \subseteq server.known
          /\ \A n \in DOMAIN wallet : wallet'[n] = wallet[n]
    BY <1>1, Zenon DEF SyncBackups, IsRestorable
  <2>2. UNCHANGED <<tasks, backups, server, chain>>
    BY <1>1 DEF SyncBackups
  <2>3. IsFiniteSet(DOMAIN wallet')
    BY <2>1, FS_Subset, FS_Union DEF BalanceInv, SidesShaped
  <2>4. ClaimsStay
    BY <2>1, <2>2 DEF ClaimsStay
  <2> QED BY <2>2, <2>3, <2>4, TaskEnds
<1>2. ASSUME NEW t \in tasks, NoteIsCredited(t) PROVE BalanceInv'
  <2>1. t.note.kind # "claim"
    BY <1>2 DEF BalanceInv, TaskOK, NoteIsCredited
  <2>2. Keeps(wallet, wallet')
    BY <1>2, <2>1, SavedKeeps DEF NoteIsCredited
  <2> QED BY <1>2, <2>2, KeepsClaims, TaskEnds DEF NoteIsCredited, Ends
<1>3. ASSUME NEW t \in tasks, ApplyPortfolio(t) PROVE BalanceInv'
  <2>1. Keeps(wallet, wallet')
    BY <1>3, ReconciledKeeps DEF ApplyPortfolio
  <2> QED BY <1>3, <2>1, KeepsClaims, TaskEnds DEF ApplyPortfolio, Ends
<1>4. ASSUME NEW t \in tasks, NoteIsWithdrawn(t) PROVE BalanceInv'
  <2>1. t.note \in server.known
    BY <1>4 DEF BalanceInv, TaskOK, NoteIsWithdrawn
  <2>2. Keeps(wallet, wallet')
    BY <1>4, <2>1, MarkKeeps DEF NoteIsWithdrawn
  <2> QED BY <1>4, <2>2, KeepsClaims, TaskEnds DEF NoteIsWithdrawn, Ends
<1> QED BY <1>1, <1>2, <1>3, <1>4

\* The claims of the browser.
LEMMA ClaimsGoForward ==
    ASSUME BalanceInv, NEW t \in tasks
    PROVE  /\ ChooseClaim(t) => BalanceInv'
           /\ \A k : MakeClaimNote(t, k) => BalanceInv'
           /\ ClaimIsConfirmed(t) => BalanceInv'
<1>0. TaskOK(t) /\ (t.op = "claim" => ClaimTaskOK(t) /\ "note" \in DOMAIN t)
  BY DEF BalanceInv, TaskOK
<1>1. ASSUME ChooseClaim(t) PROVE BalanceInv'
  <2> USE <1>1
  <2>1. UNCHANGED <<wallet, backups, server, chain>> /\ t.op = "claim" /\ t.step = "choose"
    BY DEF ChooseClaim
  <2>2. CASE Ends(t)
    BY <2>1, <2>2, KeepsItself, KeepsClaims, TaskEnds DEF Ends
  <2>3. CASE t.claimed = NoNote /\ Goes(t, [t EXCEPT !.step = "make"])
    <3>1. PICK u : u = [t EXCEPT !.step = "make"]
      OBVIOUS
    <3>2. u.op = "claim" /\ u.step = "make" /\ "note" \in DOMAIN u /\ {"op", "step", "order", "claimed"} \subseteq DOMAIN u
      BY <1>0, <2>1, <3>1, StepOf DEF TaskOK, ClaimTaskOK
    <3>3. TaskOK(u)'
      BY <3>2 DEF TaskOK, ClaimTaskOK
    <3>4. tasks' \subseteq tasks \cup {u}
      BY <2>3, <3>1 DEF Goes
    <3> QED BY <2>1, <3>2, <3>3, <3>4, TaskComes
  <2>4. ASSUME NEW n \in IF t.claimed # NoNote THEN {t.claimed} \cap ClaimsOf(t.order) ELSE Claiming(t.order),
               Goes(t, [t EXCEPT !.step = "backUp", !.note = n])
        PROVE  BalanceInv'
    <3>1. PICK u : u = [t EXCEPT !.step = "backUp", !.note = n]
      OBVIOUS
    <3>2. /\ u.op = "claim" /\ u.step = "backUp" /\ u.note = n /\ u.order = t.order
          /\ {"op", "step", "note", "order", "claimed"} \subseteq DOMAIN u
      BY <1>0, <2>1, <3>1 DEF TaskOK, ClaimTaskOK
    <3>3. n \in DOMAIN wallet /\ n.kind = "claim" /\ n.of = t.order
      BY <2>4 DEF Claiming, ClaimsOf
    <3>4. ClaimStands(n)
      <4>1. CASE t.claimed = NoNote
        BY <2>4, <3>3, <4>1 DEF ClaimStands, Claiming
      <4>2. CASE t.claimed # NoNote
        <5>1. ClaimedNote(t.order) = n
          BY <1>0, <2>1, <2>4, <4>2 DEF ClaimTaskOK
        <5>2. t.order \in DOMAIN chain.claimed /\ chain.claimed[t.order] = n
          BY <3>3, <5>1 DEF ClaimedNote, NoNote
        <5> QED BY <3>3, <5>2 DEF BalanceInv, ClaimsHeld, ClaimStands
      <4> QED BY <4>1, <4>2
    <3>5. ClaimStands(n)'
      BY <2>1, <3>4 DEF ClaimStands, ClaimedNote
    <3>6. TaskOK(u)'
      BY <3>2, <3>3, <3>5 DEF TaskOK, ClaimTaskOK
    <3>7. tasks' \subseteq tasks \cup {u}
      BY <2>4, <3>1 DEF Goes
    <3> QED BY <2>1, <3>2, <3>6, <3>7, TaskComes
  <2> QED BY <2>2, <2>3, <2>4 DEF ChooseClaim
<1>2. ASSUME NEW k, MakeClaimNote(t, k) PROVE BalanceInv'
  <2>1. PICK note : /\ note = ClaimNote(t.order, k, server.orders[t.order].margin)
                    /\ wallet' = Saved(wallet, note, "claiming", NoOrder)
                    /\ Goes(t, [t EXCEPT !.step = "backUp", !.note = note])
    BY <1>2 DEF MakeClaimNote
  <2>2. UNCHANGED <<backups, server, chain>> /\ t.op = "claim"
    BY <1>2 DEF MakeClaimNote
  <2>3. PICK u : u = [t EXCEPT !.step = "backUp", !.note = note]
    OBVIOUS
  <2>4. /\ u.op = "claim" /\ u.step = "backUp" /\ u.note = note /\ u.order = t.order
        /\ {"op", "step", "note", "order", "claimed"} \subseteq DOMAIN u
    BY <1>0, <2>2, <2>3 DEF TaskOK, ClaimTaskOK
  <2>5. note.kind = "claim" /\ note.of = t.order
    BY <2>1 DEF ClaimNote
  <2>6. /\ note \in DOMAIN wallet' /\ wallet'[note].status = "claiming"
        /\ DOMAIN wallet' = DOMAIN wallet \cup {note}
        /\ \A n \in DOMAIN wallet \ {note} : wallet'[n] = wallet[n]
    BY <2>1 DEF Saved, Extended, Entry
  <2>7. TaskOK(u)'
    BY <2>4, <2>5, <2>6 DEF TaskOK, ClaimTaskOK, ClaimStands
  <2>8. tasks' \subseteq tasks \cup {u}
    BY <2>1, <2>3 DEF Goes
  <2>9. ClaimsStay /\ (IsFiniteSet(DOMAIN wallet) => IsFiniteSet(DOMAIN wallet'))
    <3>1. ClaimsStay
      BY <2>6 DEF ClaimsStay
    <3>2. IsFiniteSet(DOMAIN wallet) => IsFiniteSet(DOMAIN wallet \cup {note})
      BY FS_AddElement
    <3> QED BY <2>6, <3>1, <3>2
  <2>10. FragmentsInOrder'
    BY <2>2, <2>4, <2>8, FragmentsRest DEF BalanceInv
  <2> QED BY <2>2, <2>7, <2>8, <2>9, <2>10, BrowserSteps
<1>3. ASSUME ClaimIsConfirmed(t) PROVE BalanceInv'
  <2>1. /\ UNCHANGED <<backups, server, chain>> /\ tasks' \subseteq tasks
        /\ t.note \in server.known /\ ClaimedNote(t.order) = t.note /\ t.note # NoNote
        /\ t.op = "claim" /\ t.step = "finish"
    BY <1>0, <1>3 DEF ClaimIsConfirmed, Ends, ClaimTaskOK, NoNote
  <2>2. /\ DOMAIN wallet' = DOMAIN wallet
        /\ \A n \in DOMAIN wallet : n # t.note /\ n \notin Claiming(t.order) => wallet'[n] = wallet[n]
    BY <1>3 DEF ClaimIsConfirmed
  <2>3. ClaimsStay
    <3> SUFFICES ASSUME NEW n \in DOMAIN wallet, n.kind = "claim", wallet[n].status = "claiming",
                        n # t.note, n \in Claiming(t.order)
                 PROVE  ClaimedNote(n.of)' \notin {NoNote, n}
      BY <2>1, <2>2 DEF ClaimsStay
    <3>1. n.of = t.order
      BY DEF Claiming, ClaimsOf
    <3> QED BY <2>1, <3>1 DEF ClaimedNote
  <2> QED BY <2>1, <2>2, <2>3, TaskEnds
<1> QED BY <1>1, <1>2, <1>3

\* What is left of several parts is a sequence of them.
LEMMA RestOfParts ==
    ASSUME NEW parts, parts # <<>>, Len(parts) # 1, NEW rest, rest = Tail(parts),
           parts \in Seq(Range(parts))
    PROVE  /\ rest # <<>> /\ rest \in Seq(Range(rest))
           /\ \A k \in DOMAIN rest : \E i \in DOMAIN parts : rest[k] = parts[i]
<1>1. PICK S : S = Range(parts) /\ parts \in Seq(S)
  OBVIOUS
<1>2. Len(parts) \in Nat /\ DOMAIN parts = 1..Len(parts) /\ Len(parts) # 0
  BY <1>1, LenProperties, EmptySeq
<1>3. /\ rest \in Seq(S) /\ Len(rest) = Len(parts) - 1
      /\ \A i \in 1..Len(rest) : rest[i] = parts[i + 1]
  BY <1>1, HeadTailProperties
<1>4. /\ rest \in [1..Len(rest) -> S] /\ DOMAIN rest = 1..Len(rest) /\ Len(rest) \in Nat
  BY <1>3, LenProperties
<1>5. rest # <<>>
  <2>1. Len(rest) # 0
    BY <1>2, <1>3
  <2> QED BY <1>3, <2>1, EmptySeq
<1>6. rest \in Seq(Range(rest))
  BY <1>4, OwnRange
<1>7. ASSUME NEW k \in DOMAIN rest PROVE \E i \in DOMAIN parts : rest[k] = parts[i]
  <2>1. k + 1 \in DOMAIN parts
    BY <1>2, <1>3, <1>4
  <2> QED BY <1>3, <1>4, <2>1
<1> QED BY <1>5, <1>6, <1>7

\* The orders' part of the browser.
LEMMA OrdersGoForward ==
    ASSUME BalanceInv, NEW t \in tasks
    PROVE  SaveChange(t) \/ IntentIsAccepted(t) \/ IntentIsRefused(t) => BalanceInv'
<1>0. TaskOK(t) /\ (t.op = "order" => OrderTaskOK(t) /\ {"op", "step", "note"} \subseteq DOMAIN t)
      /\ FragmentsInOrder /\ Ahead(t)
  BY DEF BalanceInv, TaskOK, FragmentsInOrder
<1>1. ASSUME SaveChange(t) PROVE BalanceInv'
  <2>1. t.op = "order" /\ t.step = "prove" /\ UNCHANGED <<backups, server, chain>>
    BY <1>1 DEF SaveChange
  <2>2. CASE ChangeOf(t) = NoNote
    <3>1. PICK u : u = [t EXCEPT !.step = "post"]
      OBVIOUS
    <3>2. /\ u.op = "order" /\ u.step = "post" /\ u.group = t.group /\ u.left = t.left /\ u.sent = t.sent
          /\ DOMAIN u = DOMAIN t
      BY <1>0, <2>1, <3>1, StepOf DEF OrderTaskOK
    <3>3. tasks' = (tasks \ {t}) \cup {u} /\ UNCHANGED wallet
      BY <1>1, <2>2, <3>1 DEF SaveChange, Goes, ChangeOf
    <3>4. ChangeOf(u) = NoNote
      BY <2>2, <3>2 DEF ChangeOf, Fragment
    <3>5. TaskOK(u)'
      BY <1>0, <2>1, <3>2, <3>4 DEF TaskOK, OrderTaskOK, NotesOf
    <3>6. Ahead(u)'
      BY <1>0, <2>1, <3>2 DEF Ahead, Sent
    <3>7. FragmentsInOrder'
      BY <1>0, <2>1, <3>2, <3>3, <3>6, FragmentsMove
    <3> QED BY <2>1, <3>3, <3>5, <3>7, KeepsItself, KeepsClaims, BrowserSteps
  <2>3. CASE ChangeOf(t) # NoNote
    <3>1. PICK u : u = [t EXCEPT !.step = "backUp", !.note = ChangeOf(t)]
      OBVIOUS
    <3>2. /\ u.op = "order" /\ u.step = "backUp" /\ u.group = t.group /\ u.left = t.left /\ u.sent = t.sent
          /\ DOMAIN u = DOMAIN t /\ u.note = ChangeOf(t)
      BY <1>0, <2>1, <3>1 DEF OrderTaskOK
    <3>3. /\ tasks' = (tasks \ {t}) \cup {u}
          /\ wallet' = Saved(wallet, ChangeOf(t), "pending", NoOrder)
      BY <1>1, <2>3, <3>1 DEF SaveChange, Goes, ChangeOf
    <3>4. ChangeOf(u) = u.note
      BY <3>2 DEF ChangeOf, Fragment
    <3>5. TaskOK(u)'
      BY <1>0, <2>1, <3>2, <3>4 DEF TaskOK, OrderTaskOK
    <3>6. Ahead(u)'
      BY <1>0, <2>1, <3>2 DEF Ahead, Sent
    <3>7. FragmentsInOrder'
      BY <1>0, <2>1, <3>2, <3>3, <3>6, FragmentsMove
    <3>8. ChangeOf(t).kind # "claim"
      BY <2>3 DEF ChangeOf, ChangeNote
    <3>9. Keeps(wallet, wallet')
      BY <3>3, <3>8, SavedKeeps
    <3> QED BY <2>1, <3>3, <3>5, <3>7, <3>9, KeepsClaims, BrowserSteps
  <2> QED BY <2>2, <2>3
<1>2. ASSUME IntentIsAccepted(t) PROVE BalanceInv'
  <2>1. t.op = "order" /\ t.step = "accepted" /\ UNCHANGED <<backups, server, chain>>
    BY <1>2 DEF IntentIsAccepted
  <2>2. PICK c : c = Fragment(t)
    OBVIOUS
  <2>3. Head(t.left).note \in server.known
    BY <1>0, <2>1 DEF OrderTaskOK
  <2>4. Keeps(wallet, wallet')
    <3>1. PICK kept : /\ kept = IF ChangeOf(t) = NoNote THEN wallet ELSE Saved(wallet, ChangeOf(t), "pending", c)
                      /\ wallet' = Locked(kept, Head(t.left).note, c)
      BY <1>2, <2>2 DEF IntentIsAccepted, ChangeOf
    <3>2. ChangeOf(t) # NoNote => ChangeOf(t).kind # "claim"
      BY DEF ChangeOf, ChangeNote
    <3>3. Keeps(wallet, kept)
      BY <3>1, <3>2, SavedKeeps, KeepsItself
    <3>4. Keeps(kept, wallet')
      BY <2>3, <3>1, MarkKeeps
    <3>5. DOMAIN kept \subseteq DOMAIN wallet'
      BY <3>1 DEF Locked
    <3> QED BY <3>3, <3>4, <3>5, KeepsOn
  <2>5. ClaimsStay /\ (IsFiniteSet(DOMAIN wallet) => IsFiniteSet(DOMAIN wallet'))
    BY <2>1, <2>4, KeepsClaims
  <2>6. CASE Len(t.left) = 1
    <3>1. tasks' \subseteq tasks
      BY <1>2, <2>6 DEF IntentIsAccepted, Ends
    <3> QED BY <2>1, <2>5, <3>1, TaskEnds
  <2>7. CASE Len(t.left) # 1
    <3>1. PICK u : u = [t EXCEPT !.step = "prove", !.left = Tail(@), !.sent = Append(@, c)]
      OBVIOUS
    <3>2. /\ u.op = "order" /\ u.step = "prove" /\ u.group = t.group /\ u.left = Tail(t.left)
          /\ u.sent = Append(t.sent, c) /\ DOMAIN u = DOMAIN t
      BY <1>0, <2>1, <3>1 DEF OrderTaskOK
    <3>3. tasks' = (tasks \ {t}) \cup {u}
      BY <1>2, <2>2, <2>7, <3>1 DEF IntentIsAccepted, Goes
    <3>4. /\ u.left # <<>> /\ u.left \in Seq(Range(u.left))
          /\ \A k \in DOMAIN u.left : u.left[k].note \in server.known
      <4>1. /\ t.left # <<>> /\ t.left \in Seq(Range(t.left))
            /\ \A k \in DOMAIN t.left : t.left[k].note \in server.known
        BY <1>0, <2>1 DEF OrderTaskOK
      <4>2. PICK parts, rest : parts = t.left /\ rest = u.left
        OBVIOUS
      <4>3. /\ rest # <<>> /\ rest \in Seq(Range(rest))
            /\ \A k \in DOMAIN rest : \E i \in DOMAIN parts : rest[k] = parts[i]
        <5>1. /\ parts # <<>> /\ Len(parts) # 1 /\ rest = Tail(parts)
              /\ parts \in Seq(Range(parts))
          BY <2>7, <3>2, <4>1, <4>2
        <5>2. rest # <<>> /\ rest \in Seq(Range(rest))
          BY <5>1, RestOfParts
        <5>3. \A k \in DOMAIN rest : \E i \in DOMAIN parts : rest[k] = parts[i]
          BY <5>1, RestOfParts
        <5> QED BY <5>2, <5>3
      <4> QED BY <4>1, <4>2, <4>3
    <3>5. t.sent \in Seq(Seq(Groups \cup Nat)) /\ Len(t.sent) \in Nat
      BY <1>0, <2>1 DEF OrderTaskOK
    <3>6. c \in Seq(Groups \cup Nat)
      BY <1>0, <2>1, <2>2, <3>5 DEF OrderTaskOK, Fragment
    <3>7. u.sent \in Seq(Seq(Groups \cup Nat)) /\ Len(u.sent) = Len(t.sent) + 1
      BY <3>2, <3>5, <3>6
    <3>8. TaskOK(u)'
      BY <1>0, <2>1, <3>2, <3>4, <3>7 DEF TaskOK, OrderTaskOK
    <3>9. Sent(u) = Sent(t)
      BY <2>1, <3>2, <3>5, <3>7 DEF Sent
    <3>10. Ahead(u)'
      BY <1>0, <2>1, <3>2, <3>9 DEF Ahead, Sent
    <3>11. FragmentsInOrder'
      BY <1>0, <2>1, <3>2, <3>3, <3>10, FragmentsMove
    <3> QED BY <2>1, <2>5, <3>3, <3>8, <3>11, BrowserSteps
  <2> QED BY <2>6, <2>7
<1>3. ASSUME IntentIsRefused(t) PROVE BalanceInv'
  <2>1. t.op = "order" /\ UNCHANGED <<backups, server, chain>>
    BY <1>3 DEF IntentIsRefused
  <2>2. Head(t.left).note \in server.known
    BY <1>0, <2>1 DEF OrderTaskOK
  <2>3. Keeps(wallet, wallet')
    BY <1>3, <2>2, MarkKeeps, KeepsItself DEF IntentIsRefused
  <2>4. PICK u : u = [t EXCEPT !.step = "undo"]
    OBVIOUS
  <2>5. /\ u.op = "order" /\ u.step = "undo" /\ u.group = t.group /\ u.left = t.left /\ u.sent = t.sent
        /\ DOMAIN u = DOMAIN t
    BY <1>0, <2>1, <2>4, StepOf DEF OrderTaskOK
  <2>6. tasks' \subseteq (tasks \ {t}) \cup {u}
    BY <1>3, <2>4 DEF IntentIsRefused, Ends, Goes
  <2>7. TaskOK(u)'
    BY <1>0, <2>1, <2>5 DEF TaskOK, OrderTaskOK
  <2>8. FragmentsInOrder'
    <3>1. Ahead(u)'
      BY <2>5 DEF Ahead
    <3> QED BY <1>0, <2>1, <2>5, <2>6, <3>1, FragmentsMove
  <2> QED BY <2>1, <2>3, <2>6, <2>7, <2>8, KeepsClaims, BrowserSteps
<1> QED BY <1>1, <1>2, <1>3

\* An order is cancelled on the server.
LEMMA CancelledOrder ==
    ASSUME BalanceInv, NEW c \in DOMAIN server.orders,
           server' = [server EXCEPT !.orders[c].status = "cancelled"],
           UNCHANGED <<backups, chain>>,
           IsFiniteSet(DOMAIN wallet) => IsFiniteSet(DOMAIN wallet')
    PROVE  /\ SidesShaped' /\ OrdersNamed' /\ AccountCovered' /\ BackedUp'
           /\ DOMAIN server'.orders = DOMAIN server.orders /\ server'.known = server.known
<1>1. /\ DOMAIN server' = DOMAIN server /\ DOMAIN server'.orders = DOMAIN server.orders
      /\ \A part \in DOMAIN server \ {"orders"} : server'[part] = server[part]
      /\ \A d \in DOMAIN server.orders :
            /\ DOMAIN server'.orders[d] = OrderFields
            /\ server'.orders[d].note = server.orders[d].note
            /\ server'.orders[d].change = server.orders[d].change
  BY DEF BalanceInv, SidesShaped, OrdersNamed, OrderFields
<1>2. {"known", "spent", "relays"} \subseteq DOMAIN server \ {"orders"}
  BY DEF BalanceInv, SidesShaped
<1>3. server'.known = server.known /\ server'.spent = server.spent /\ server'.relays = server.relays
  BY <1>1, <1>2
<1>4. SidesShaped'
  BY <1>1 DEF BalanceInv, SidesShaped
<1>5. OrdersNamed'
  BY <1>1 DEF BalanceInv, OrdersNamed
<1>6. AccountCovered'
  BY <1>1, <1>3 DEF BalanceInv, AccountCovered
<1>7. BackedUp'
  BY <1>1 DEF BalanceInv, BackedUp
<1> QED BY <1>1, <1>3, <1>4, <1>5, <1>6, <1>7

\* All but the last of a sequence are one.
LEMMA FrontIsSequence ==
    ASSUME NEW S, NEW s \in Seq(S)
    PROVE  Front(s) \in Seq(S)
<1>1. PICK n \in Nat : s \in [1..n -> S] /\ Len(s) = n
  OBVIOUS
<1>2. CASE n = 0
  <2>1. Front(s) = <<>>
    BY <1>1, <1>2 DEF Front
  <2> QED BY <2>1
<1>3. CASE n # 0
  <2>1. Front(s) = [i \in 1..(n - 1) |-> s[i]] /\ n - 1 \in Nat
    BY <1>1, <1>3 DEF Front
  <2>2. \A i \in 1..(n - 1) : s[i] \in S
    BY <1>1
  <2> QED BY <2>1, <2>2
<1> QED BY <1>2, <1>3

LEMMA OrdersAreCancelled ==
    ASSUME BalanceInv
    PROVE  /\ \A t \in tasks : UndoFragment(t) => BalanceInv'
           /\ \A c, outcome : CancelOrder(c, outcome) => BalanceInv'
<1>1. ASSUME NEW t \in tasks, UndoFragment(t) PROVE BalanceInv'
  <2>0. TaskOK(t) /\ (t.op = "order" => OrderTaskOK(t) /\ {"op", "step", "note"} \subseteq DOMAIN t)
        /\ FragmentsInOrder
    BY DEF BalanceInv, TaskOK
  <2>1. t.op = "order" /\ t.step = "undo" /\ UNCHANGED <<backups, chain>>
    BY <1>1 DEF UndoFragment
  <2>2. PICK c : c = Last(t.sent)
    OBVIOUS
  <2>3. PICK u : u = [t EXCEPT !.sent = Front(@)]
    OBVIOUS
  <2>4. tasks' \subseteq (tasks \ {t}) \cup {u}
    BY <1>1, <2>3 DEF UndoFragment, Ends, Goes
  <2>5. /\ u.op = "order" /\ u.step = "undo" /\ u.group = t.group /\ u.left = t.left
        /\ u.sent = Front(t.sent) /\ DOMAIN u = DOMAIN t
    BY <2>0, <2>1, <2>3 DEF OrderTaskOK
  <2>6. u.sent \in Seq(Seq(Groups \cup Nat))
    BY <2>0, <2>1, <2>5, FrontIsSequence DEF OrderTaskOK
  <2>7. \/ UNCHANGED <<server, wallet>>
        \/ /\ c \in DOMAIN server.orders
           /\ server' = [server EXCEPT !.orders[c].status = "cancelled"]
           /\ wallet' = Reconciled(wallet, CancelledRow(c))
    BY <1>1, <2>2 DEF UndoFragment, IsCancellableOrder
  <2>8. Keeps(wallet, wallet')
    BY <2>7, ReconciledKeeps, KeepsItself
  <2>9. IsFiniteSet(DOMAIN wallet) => IsFiniteSet(DOMAIN wallet')
    BY <2>8 DEF Keeps
  <2>10. /\ SidesShaped' /\ OrdersNamed' /\ AccountCovered' /\ BackedUp'
         /\ DOMAIN server'.orders = DOMAIN server.orders /\ server'.known = server.known
    <3>1. CASE UNCHANGED <<server, wallet>>
      BY <2>1, <3>1 DEF BalanceInv, SidesShaped, OrdersNamed, AccountCovered, BackedUp
    <3>2. CASE ~UNCHANGED <<server, wallet>>
      BY <2>1, <2>7, <2>9, <3>2, CancelledOrder
    <3> QED BY <3>1, <3>2
  <2>11. TaskOK(u)'
    BY <2>0, <2>1, <2>5, <2>6, <2>10 DEF TaskOK, OrderTaskOK
  <2>12. FragmentsInOrder'
    <3>1. Ahead(u)'
      BY <2>5 DEF Ahead
    <3> QED BY <2>0, <2>1, <2>4, <2>5, <2>10, <3>1, FragmentsMove
  <2>13. Grows
    BY <2>1, <2>8, <2>10, KeepsClaims DEF Grows, ClaimsBind
  <2> QED BY <2>4, <2>10, <2>11, <2>12, <2>13, Assembled
<1>2. ASSUME NEW c, NEW outcome, CancelOrder(c, outcome) PROVE BalanceInv'
  <2>1. /\ UNCHANGED <<tasks, backups, chain>> /\ c \in DOMAIN server.orders
        /\ server' = [server EXCEPT !.orders[c].status = "cancelled"]
    BY <1>2 DEF CancelOrder, IsCancellableOrder
  <2>2. Keeps(wallet, wallet')
    BY <1>2, ReconciledKeeps, KeepsItself DEF CancelOrder
  <2>3. IsFiniteSet(DOMAIN wallet) => IsFiniteSet(DOMAIN wallet')
    BY <2>2 DEF Keeps
  <2>4. /\ SidesShaped' /\ OrdersNamed' /\ AccountCovered' /\ BackedUp'
        /\ DOMAIN server'.orders = DOMAIN server.orders /\ server'.known = server.known
    BY <2>1, <2>3, CancelledOrder
  <2>5. Grows
    BY <2>1, <2>2, <2>4, KeepsClaims DEF Grows, ClaimsBind
  <2>6. PICK u : u = [op |-> "load", step |-> "apply"]
    OBVIOUS
  <2>7. u.op = "load" /\ TaskOK(u)'
    BY <2>6 DEF TaskOK
  <2>8. FragmentsInOrder'
    BY <2>1, <2>4, <2>7, FragmentsRest DEF BalanceInv
  <2> QED BY <2>1, <2>4, <2>5, <2>7, <2>8, Assembled
<1> QED BY <1>1, <1>2

\* Deposits and closes make a note and start with its backup.
LEMMA BackupsGrow ==
    ASSUME BalanceInv, NEW more, IsFiniteSet(more), backups' = backups \cup more,
           UNCHANGED chain, DOMAIN server' = DOMAIN server, server'.orders = server.orders,
           server'.known = server.known, server'.spent = server.spent, server'.relays = server.relays,
           Keeps(wallet, wallet')
    PROVE  /\ SidesShaped' /\ OrdersNamed' /\ AccountCovered' /\ BackedUp' /\ Grows
<1>1. IsFiniteSet(backups')
  BY FS_Union DEF BalanceInv, SidesShaped
<1>2. IsFiniteSet(DOMAIN wallet') /\ ClaimsStay
  BY KeepsClaims DEF BalanceInv, SidesShaped
<1>3. SidesShaped'
  BY <1>1, <1>2 DEF BalanceInv, SidesShaped
<1>4. Grows
  BY <1>2 DEF Grows, ClaimsBind
<1> QED BY <1>3, <1>4 DEF BalanceInv, OrdersNamed, AccountCovered, BackedUp

LEMMA NotesAreMade ==
    ASSUME BalanceInv, NEW op \in {"deposit", "close"}, NEW note, note.kind = op,
           wallet' = Saved(wallet, note, "pending", NoOrder),
           backups' = WithCopies(backups, Unspent(wallet)),
           tasks' = tasks \cup {[op |-> op, step |-> "backUp", note |-> note]},
           UNCHANGED chain, DOMAIN server' = DOMAIN server, server'.orders = server.orders,
           server'.known = server.known, server'.spent = server.spent, server'.relays = server.relays
    PROVE  BalanceInv'
<1>1. IsFiniteSet(Unspent(wallet)) /\ backups' = backups \cup Unspent(wallet)
  BY FS_Subset DEF BalanceInv, SidesShaped, Unspent, WithCopies
<1>2. Keeps(wallet, wallet')
  BY SavedKeeps
<1>3. SidesShaped' /\ OrdersNamed' /\ AccountCovered' /\ BackedUp' /\ Grows
  BY <1>1, <1>2, BackupsGrow
<1>4. PICK u : u = [op |-> op, step |-> "backUp", note |-> note]
  OBVIOUS
<1>5. u.op \in {"deposit", "close"} /\ TaskOK(u)'
  BY <1>4 DEF TaskOK
<1>6. tasks' \subseteq tasks \cup {u}
  BY <1>4
<1>7. FragmentsInOrder'
  BY <1>5, <1>6, FragmentsRest DEF BalanceInv
<1> QED BY <1>3, <1>5, <1>6, <1>7, Assembled

LEMMA DepositsAndClosesStart ==
    ASSUME BalanceInv
    PROVE  /\ \A d : StartDeposit(d) => BalanceInv'
           /\ \A c, k : StartClose(c, k) => BalanceInv'
<1>1. ASSUME NEW d, StartDeposit(d) PROVE BalanceInv'
  <2>1. PICK note : note = DepositNote(d)
    OBVIOUS
  <2>2. note.kind = "deposit"
    BY <2>1 DEF DepositNote
  <2>3. /\ wallet' = Saved(wallet, note, "pending", NoOrder)
        /\ backups' = WithCopies(backups, Unspent(wallet))
        /\ tasks' = tasks \cup {[op |-> "deposit", step |-> "backUp", note |-> note]}
        /\ UNCHANGED chain /\ server' = [server EXCEPT !.pending = @ \cup {note}]
    BY <1>1, <2>1 DEF StartDeposit, Starts, Prepared
  <2>4. /\ DOMAIN server' = DOMAIN server /\ server'.orders = server.orders
        /\ server'.known = server.known /\ server'.spent = server.spent /\ server'.relays = server.relays
    BY <2>3
  <2> QED BY <2>2, <2>3, <2>4, NotesAreMade
<1>2. ASSUME NEW c, NEW k, StartClose(c, k) PROVE BalanceInv'
  <2>1. PICK note : note = CloseNote(c, k, server.orders[c].margin)
    OBVIOUS
  <2>2. note.kind = "close"
    BY <2>1 DEF CloseNote
  <2>3. /\ wallet' = Saved(wallet, note, "pending", NoOrder)
        /\ backups' = WithCopies(backups, Unspent(wallet))
        /\ tasks' = tasks \cup {[op |-> "close", step |-> "backUp", note |-> note]}
        /\ UNCHANGED <<server, chain>>
    BY <1>2, <2>1 DEF StartClose, Starts
  <2> QED BY <2>2, <2>3, NotesAreMade
<1> QED BY <1>1, <1>2

\* A task whose note is backed up may ask for what it is about.
LEMMA NoteIsBackedUp ==
    ASSUME BalanceInv, NEW t \in tasks, BackUp(t)
    PROVE  BalanceInv'
<1>0. TaskOK(t) /\ FragmentsInOrder /\ Ahead(t) /\ t.step = "backUp"
  BY DEF BalanceInv, TaskOK, FragmentsInOrder, BackUp
<1>1. /\ backups' = backups \cup {t.note} /\ UNCHANGED <<wallet, server, chain>>
      /\ tasks' = (tasks \ {t}) \cup {[t EXCEPT !.step = "post"]}
  BY DEF BackUp, WithCopies, Goes
<1>2. SidesShaped' /\ OrdersNamed' /\ AccountCovered' /\ BackedUp' /\ Grows
  BY <1>1, FS_Singleton, KeepsItself, BackupsGrow
<1>3. PICK u : u = [t EXCEPT !.step = "post"]
  OBVIOUS
<1>4. /\ t.op \in {"deposit", "order", "close", "claim"} /\ "note" \in DOMAIN t
      /\ DOMAIN u = DOMAIN t /\ u.step = "post" /\ u.op = t.op /\ u.note = t.note
      /\ {"op", "step"} \subseteq DOMAIN t
  BY <1>0, <1>3, StepOf DEF TaskOK
<1>5. tasks' = (tasks \ {t}) \cup {u}
  BY <1>1, <1>3
<1>6. CASE t.op = "order"
  <2>1. OrderTaskOK(t)
    BY <1>0, <1>6 DEF TaskOK
  <2>2. u.group = t.group /\ u.left = t.left /\ u.sent = t.sent
    BY <1>3, <1>4, <2>1, StepOf DEF OrderTaskOK
  <2>3. ChangeOf(u) = t.note
    BY <1>0, <2>1, <2>2 DEF OrderTaskOK, ChangeOf, Fragment
  <2>4. NotesOf(ChangeOf(u)) \subseteq backups'
    BY <1>1, <2>3 DEF NotesOf
  <2>5. TaskOK(u)'
    BY <1>1, <1>4, <1>6, <2>1, <2>2, <2>4 DEF TaskOK, OrderTaskOK
  <2>6. Ahead(u)'
    BY <1>0, <1>1, <1>4, <1>6, <2>2 DEF Ahead, Sent
  <2>7. FragmentsInOrder'
    BY <1>0, <1>1, <1>4, <1>5, <1>6, <2>2, <2>6, FragmentsMove
  <2> QED BY <1>2, <1>5, <2>5, <2>7, Assembled
<1>7. CASE t.op # "order"
  <2>1. FragmentsInOrder'
    BY <1>0, <1>1, <1>4, <1>5, <1>7, FragmentsRest
  <2>2. CASE t.op = "claim"
    <3>1. ClaimTaskOK(t)
      BY <1>0, <2>2 DEF TaskOK
    <3>2. u.order = t.order /\ u.claimed = t.claimed
      BY <1>3, <1>4, <3>1, StepOf DEF ClaimTaskOK
    <3>3. ClaimStands(t.note)'
      BY <1>0, <1>1, <3>1 DEF ClaimTaskOK, ClaimStands, ClaimedNote
    <3>4. TaskOK(u)'
      BY <1>0, <1>1, <1>4, <2>2, <3>1, <3>2, <3>3 DEF TaskOK, ClaimTaskOK
    <3> QED BY <1>2, <1>5, <2>1, <3>4, Assembled
  <2>3. CASE t.op # "claim"
    <3>1. TaskOK(u)'
      BY <1>0, <1>1, <1>4, <1>7, <2>3 DEF TaskOK
    <3> QED BY <1>2, <1>5, <2>1, <3>1, Assembled
  <2> QED BY <2>2, <2>3
<1> QED BY <1>6, <1>7

-----------------------------------------------------------------------------
(* What the server and the pool are asked for.                             *)

\* Nothing is done to the orders, and what is new was backed up.
LEMMA AccountMoves ==
    ASSUME BalanceInv, UNCHANGED <<wallet, backups>>,
           DOMAIN server' = DOMAIN server, DOMAIN chain' = DOMAIN chain,
           server'.orders = server.orders, chain'.settled = chain.settled,
           chain.nullified \subseteq chain'.nullified, chain.pool \subseteq chain'.pool,
           server.known \subseteq server'.known, server'.known \subseteq chain'.pool,
           server'.spent \subseteq chain'.nullified, server'.relays \subseteq chain'.pool,
           chain'.pool \subseteq backups, ClaimsBind,
           NEW u, tasks' \subseteq tasks \cup {u}, u.op # "order", u \in tasks' \ tasks => TaskOK(u)'
    PROVE  BalanceInv'
<1>1. ClaimsStay
  BY KeepsItself, KeepsClaims
<1>2. Grows
  BY <1>1 DEF Grows
<1>3. SidesShaped' /\ OrdersNamed'
  BY DEF BalanceInv, SidesShaped, OrdersNamed
<1>4. AccountCovered'
  BY DEF BalanceInv, AccountCovered
<1>5. BackedUp'
  BY DEF BalanceInv, BackedUp
<1>6. FragmentsInOrder'
  BY FragmentsRest DEF BalanceInv
<1> QED BY <1>2, <1>3, <1>4, <1>5, <1>6, Assembled

LEMMA DepositsAreRelayed ==
    ASSUME BalanceInv, NEW t \in tasks
    PROVE  /\ \A outcome : RelaySignedDeposit(t, outcome) => BalanceInv'
           /\ FinalizeDeposit(t) => BalanceInv'
<1>0. /\ TaskOK(t) /\ SidesShaped /\ AccountCovered /\ BackedUp
  BY DEF BalanceInv
<1>1. ASSUME NEW outcome, RelaySignedDeposit(t, outcome) PROVE BalanceInv'
  <2>1. t.op = "deposit" /\ t.step = "post" /\ UNCHANGED <<wallet, backups>>
    BY <1>1 DEF RelaySignedDeposit
  <2>2. t.note \in backups /\ t.note.kind = "deposit" /\ "note" \in DOMAIN t /\ {"op", "step"} \subseteq DOMAIN t
    BY <1>0, <2>1 DEF TaskOK
  <2>3. PICK u : u = [t EXCEPT !.step = "finalize"]
    OBVIOUS
  <2>4. u.op = "deposit" /\ u.step = "finalize" /\ u.note = t.note /\ DOMAIN u = DOMAIN t
    BY <2>1, <2>2, <2>3, StepOf
  <2>5. TaskOK(u)'
    BY <1>0, <2>1, <2>4 DEF TaskOK
  <2>6. tasks' \subseteq tasks \cup {u}
    BY <1>1, <2>3 DEF RelaySignedDeposit, GoesIf, Goes, Ends
  <2>7. /\ DOMAIN chain' = DOMAIN chain
        /\ chain'.settled = chain.settled /\ chain'.nullified = chain.nullified
        /\ chain'.claimed = chain.claimed
        /\ chain'.pool = IF outcome = "notSent" THEN chain.pool ELSE chain.pool \cup {t.note}
    BY <1>0, <1>1 DEF RelaySignedDeposit, Deposited, SidesShaped
  <2>8. /\ DOMAIN server' = DOMAIN server
        /\ server'.orders = server.orders /\ server'.known = server.known /\ server'.spent = server.spent
        /\ server'.relays = IF outcome = "done" THEN server.relays \cup {t.note} ELSE server.relays
    BY <1>0, <1>1 DEF RelaySignedDeposit, SidesShaped
  <2>9. ClaimsBind
    BY <2>7 DEF ClaimsBind
  <2>10. /\ server'.known \subseteq chain'.pool /\ server'.spent \subseteq chain'.nullified
         /\ server'.relays \subseteq chain'.pool /\ chain'.pool \subseteq backups
    BY <1>0, <2>2, <2>7, <2>8 DEF AccountCovered, BackedUp
  <2> QED BY <2>1, <2>4, <2>5, <2>6, <2>7, <2>8, <2>9, <2>10, AccountMoves
<1>2. ASSUME FinalizeDeposit(t) PROVE BalanceInv'
  <2>1. t.op = "deposit" /\ UNCHANGED <<wallet, backups, chain>> /\ t.note \in server.relays
    BY <1>2 DEF FinalizeDeposit, CanFinalize
  <2>2. t.note.kind = "deposit" /\ "note" \in DOMAIN t /\ {"op", "step"} \subseteq DOMAIN t
    BY <1>0, <2>1 DEF TaskOK
  <2>3. PICK u : u = [t EXCEPT !.step = "finish"]
    OBVIOUS
  <2>4. u.op = "deposit" /\ u.step = "finish" /\ u.note = t.note /\ DOMAIN u = DOMAIN t
    BY <2>1, <2>2, <2>3, StepOf
  <2>5. TaskOK(u)'
    BY <1>0, <2>1, <2>4 DEF TaskOK
  <2>6. tasks' \subseteq tasks \cup {u}
    BY <1>2, <2>3 DEF FinalizeDeposit, Goes
  <2>7. /\ DOMAIN server' = DOMAIN server
        /\ server'.orders = server.orders /\ server'.known = server.known \cup {t.note}
        /\ server'.spent = server.spent /\ server'.relays = server.relays
    BY <1>0, <1>2 DEF FinalizeDeposit, Credited, SidesShaped
  <2>8. ClaimsBind
    BY <2>1 DEF ClaimsBind
  <2>9. /\ server'.known \subseteq chain'.pool /\ server'.spent \subseteq chain'.nullified
        /\ server'.relays \subseteq chain'.pool /\ chain'.pool \subseteq backups
    BY <1>0, <2>1, <2>7 DEF AccountCovered, BackedUp
  <2> QED BY <2>1, <2>4, <2>5, <2>6, <2>7, <2>8, <2>9, AccountMoves
<1> QED BY <1>1, <1>2

LEMMA NotesAreWithdrawn ==
    ASSUME BalanceInv, NEW t \in tasks, NEW outcome, PostWithdrawal(t, outcome)
    PROVE  BalanceInv'
<1>0. /\ TaskOK(t) /\ SidesShaped /\ AccountCovered /\ BackedUp
  BY DEF BalanceInv
<1>1. t.op = "withdraw" /\ t.step = "post" /\ UNCHANGED <<wallet, backups>>
  BY DEF PostWithdrawal
<1>2. t.note \in server.known /\ "note" \in DOMAIN t /\ {"op", "step"} \subseteq DOMAIN t
  BY <1>0, <1>1 DEF TaskOK
<1>3. PICK u : u = [t EXCEPT !.step = "finish"]
  OBVIOUS
<1>4. u.op = "withdraw" /\ u.step = "finish" /\ u.note = t.note /\ DOMAIN u = DOMAIN t
  BY <1>1, <1>2, <1>3, StepOf
<1>5. tasks' \subseteq tasks \cup {u}
  BY <1>3 DEF PostWithdrawal, Goes, Ends
<1>6. PICK ok \in BOOLEAN :
        /\ chain' = IF ok /\ outcome # "notSent" THEN Withdrawn(t.note) ELSE chain
        /\ server' = IF ok /\ outcome = "done" THEN AddWithdrawal(server, t.note) ELSE server
  BY DEF PostWithdrawal, CanWithdraw, IsCurrentRoot
<1>7. /\ DOMAIN chain' = DOMAIN chain
      /\ chain'.settled = chain.settled /\ chain'.pool = chain.pool /\ chain'.claimed = chain.claimed
      /\ chain'.nullified = IF ok /\ outcome # "notSent" THEN chain.nullified \cup {t.note}
                            ELSE chain.nullified
  BY <1>0, <1>6 DEF Withdrawn, SidesShaped
<1>8. /\ DOMAIN server' = DOMAIN server
      /\ server'.orders = server.orders /\ server'.known = server.known
      /\ server'.relays = server.relays
      /\ server'.spent = IF ok /\ outcome = "done" THEN server.spent \cup {t.note} ELSE server.spent
  BY <1>0, <1>6 DEF AddWithdrawal, SidesShaped
<1>9. TaskOK(u)'
  BY <1>0, <1>2, <1>4, <1>8 DEF TaskOK
<1>10. ClaimsBind
  BY <1>7 DEF ClaimsBind
<1>11. /\ server'.known \subseteq chain'.pool /\ server'.spent \subseteq chain'.nullified
       /\ server'.relays \subseteq chain'.pool /\ chain'.pool \subseteq backups
  BY <1>0, <1>7, <1>8 DEF AccountCovered, BackedUp
<1> QED BY <1>1, <1>4, <1>5, <1>7, <1>8, <1>9, <1>10, <1>11, AccountMoves

LEMMA PositionsAreClosed ==
    ASSUME BalanceInv, NEW t \in tasks, NEW outcome, PostClose(t, outcome)
    PROVE  BalanceInv'
<1>0. /\ TaskOK(t) /\ SidesShaped /\ AccountCovered /\ BackedUp
  BY DEF BalanceInv
<1>1. t.op = "close" /\ t.step = "post" /\ UNCHANGED <<wallet, backups>>
  BY DEF PostClose
<1>2. t.note \in backups /\ t.note.kind = "close" /\ "note" \in DOMAIN t /\ {"op", "step"} \subseteq DOMAIN t
  BY <1>0, <1>1 DEF TaskOK
<1>3. PICK u : u = [t EXCEPT !.step = "finish"]
  OBVIOUS
<1>4. u.op = "close" /\ u.step = "finish" /\ u.note = t.note /\ DOMAIN u = DOMAIN t
  BY <1>1, <1>2, <1>3, StepOf
<1>5. tasks' \subseteq tasks \cup {u} /\ TaskOK(u)'
  BY <1>0, <1>2, <1>3, <1>4 DEF PostClose, Goes, Ends, TaskOK
<1>6. PICK ok \in BOOLEAN :
        /\ chain' = IF ok /\ outcome # "notSent" THEN ClosedOnchain(t.note.of, t.note) ELSE chain
        /\ server' = IF ok /\ outcome = "done" THEN AddPositionClose(server, t.note.of, t.note) ELSE server
  BY DEF PostClose, IsOpen
<1>7. /\ DOMAIN chain' = DOMAIN chain
      /\ chain'.settled = chain.settled /\ chain'.nullified = chain.nullified
      /\ chain'.claimed = chain.claimed
      /\ chain'.pool = IF ok /\ outcome # "notSent" THEN chain.pool \cup {t.note} ELSE chain.pool
  BY <1>0, <1>6 DEF ClosedOnchain, SidesShaped
<1>8. /\ DOMAIN server' = DOMAIN server
      /\ server'.orders = server.orders /\ server'.spent = server.spent
      /\ server'.relays = server.relays
      /\ server'.known = IF ok /\ outcome = "done" THEN server.known \cup {t.note} ELSE server.known
  BY <1>0, <1>6 DEF AddPositionClose, SidesShaped
<1>9. ClaimsBind
  BY <1>7 DEF ClaimsBind
<1>10. /\ server'.known \subseteq chain'.pool /\ server'.spent \subseteq chain'.nullified
       /\ server'.relays \subseteq chain'.pool /\ chain'.pool \subseteq backups
  BY <1>0, <1>2, <1>7, <1>8 DEF AccountCovered, BackedUp
<1> QED BY <1>1, <1>4, <1>5, <1>7, <1>8, <1>9, <1>10, AccountMoves

LEMMA ResidualsAreClaimed ==
    ASSUME BalanceInv, NEW t \in tasks, NEW outcome, PostClaim(t, outcome)
    PROVE  BalanceInv'
<1>0. /\ TaskOK(t) /\ SidesShaped /\ AccountCovered /\ BackedUp /\ ClaimsHeld
  BY DEF BalanceInv
<1>1. t.op = "claim" /\ t.step = "post" /\ UNCHANGED <<wallet, backups>>
  BY DEF PostClaim
<1>2. /\ t.note \in backups /\ t.note.kind = "claim" /\ t.note.of = t.order /\ ClaimStands(t.note)
      /\ {"op", "step", "note", "order", "claimed"} \subseteq DOMAIN t /\ t.note # NoNote
  BY <1>0, <1>1 DEF TaskOK, ClaimTaskOK, NoNote
<1>3. PICK u : u = [t EXCEPT !.step = "finish"]
  OBVIOUS
<1>4. /\ u.op = "claim" /\ u.step = "finish" /\ u.note = t.note /\ u.order = t.order
      /\ DOMAIN u = DOMAIN t
  BY <1>1, <1>2, <1>3, StepOf
<1>5. PICK c, landed : c = t.order /\ landed = ClaimedNote(c)
  OBVIOUS
<1>6. PICK ok \in BOOLEAN :
        /\ ok = (landed = t.note \/ (landed = NoNote /\ HoldsMargin(c)))
        /\ chain' = IF ok /\ landed = NoNote /\ outcome # "notSent" THEN ClaimedOnchain(c, t.note) ELSE chain
        /\ server' = IF ok /\ outcome = "done" THEN Credited(server, t.note) ELSE server
        /\ IF ok /\ outcome = "done" THEN tasks' = (tasks \ {t}) \cup {u} ELSE tasks' = tasks \ {t}
  BY <1>3, <1>5 DEF PostClaim, HoldsMargin, Goes, Ends
<1>7. landed = NoNote => c \notin DOMAIN chain.claimed
  BY <1>0, <1>5 DEF ClaimedNote, ClaimsHeld, NoNote
<1>8. landed = t.note => c \in DOMAIN chain.claimed /\ chain.claimed[c] = t.note /\ t.note \in chain.pool
  BY <1>0, <1>2, <1>5 DEF ClaimedNote, ClaimsHeld
<1>9. /\ DOMAIN server' = DOMAIN server
      /\ server'.orders = server.orders /\ server'.spent = server.spent
      /\ server'.relays = server.relays
      /\ server'.known = IF ok /\ outcome = "done" THEN server.known \cup {t.note} ELSE server.known
  BY <1>0, <1>6 DEF Credited, SidesShaped
<1>10. CASE ok /\ landed = NoNote /\ outcome # "notSent"
  <2>1. /\ DOMAIN chain' = DOMAIN chain
        /\ chain'.settled = chain.settled /\ chain'.nullified = chain.nullified
        /\ chain'.claimed = Extended(chain.claimed, c, t.note)
        /\ chain'.pool = chain.pool \cup {t.note}
    BY <1>0, <1>6, <1>10 DEF ClaimedOnchain, SidesShaped
  <2>2. /\ DOMAIN chain'.claimed = DOMAIN chain.claimed \cup {c} /\ chain'.claimed[c] = t.note
        /\ \A d \in DOMAIN chain.claimed : chain'.claimed[d] = chain.claimed[d]
    BY <1>7, <1>10, <2>1 DEF Extended
  <2>3. ClaimsBind
    <3>1. DOMAIN chain'.claimed \ DOMAIN chain.claimed \subseteq {c}
      BY <2>2
    <3>2. t.note.kind = "claim" /\ t.note.of = c /\ t.note \in chain'.pool /\ ClaimStands(t.note)
      BY <1>2, <1>5, <2>1
    <3> QED BY <2>2, <3>1, <3>2 DEF ClaimsBind
  <2>4. ClaimedNote(t.order)' = t.note
    BY <1>5, <2>2 DEF ClaimedNote
  <2>5. u \in tasks' \ tasks => TaskOK(u)'
    <3> SUFFICES ASSUME outcome = "done" PROVE TaskOK(u)'
      BY <1>6
    <3> QED BY <1>2, <1>4, <1>9, <1>10, <2>4 DEF TaskOK, ClaimTaskOK
  <2>6. /\ server'.known \subseteq chain'.pool /\ server'.spent \subseteq chain'.nullified
        /\ server'.relays \subseteq chain'.pool /\ chain'.pool \subseteq backups
    BY <1>0, <1>2, <1>9, <2>1 DEF AccountCovered, BackedUp
  <2>7. tasks' \subseteq tasks \cup {u}
    BY <1>6
  <2> QED BY <1>1, <1>4, <1>9, <2>1, <2>3, <2>5, <2>6, <2>7, AccountMoves
<1>11. CASE ~(ok /\ landed = NoNote /\ outcome # "notSent")
  <2>1. chain' = chain
    BY <1>6, <1>11
  <2>2. ClaimsBind
    BY <2>1 DEF ClaimsBind
  <2>3. ok /\ outcome = "done" => landed = t.note
    BY <1>6, <1>11
  <2>4. u \in tasks' \ tasks => TaskOK(u)'
    <3> SUFFICES ASSUME ok, outcome = "done" PROVE TaskOK(u)'
      BY <1>6
    <3>1. ClaimedNote(t.order)' = t.note
      BY <1>5, <2>1, <2>3 DEF ClaimedNote
    <3> QED BY <1>2, <1>4, <1>9, <3>1 DEF TaskOK, ClaimTaskOK
  <2>5. /\ server'.known \subseteq chain'.pool /\ server'.spent \subseteq chain'.nullified
        /\ server'.relays \subseteq chain'.pool /\ chain'.pool \subseteq backups
    BY <1>0, <1>8, <1>9, <2>1, <2>3 DEF AccountCovered, BackedUp
  <2>6. tasks' \subseteq tasks \cup {u}
    BY <1>6
  <2> QED BY <1>1, <1>4, <1>9, <2>1, <2>2, <2>4, <2>5, <2>6, AccountMoves
<1> QED BY <1>10, <1>11

LEMMA IntentsArePosted ==
    ASSUME BalanceInv, NEW t \in tasks, NEW outcome, PostIntent(t, outcome)
    PROVE  BalanceInv'
<1>0. /\ TaskOK(t) /\ Ahead(t) /\ FragmentsInOrder
      /\ SidesShaped /\ OrdersNamed /\ AccountCovered /\ BackedUp
  BY DEF BalanceInv, FragmentsInOrder
<1>1. t.op = "order" /\ t.step = "post" /\ UNCHANGED <<wallet, backups, chain>>
  BY DEF PostIntent
<1>2. OrderTaskOK(t) /\ {"op", "step", "note"} \subseteq DOMAIN t
  BY <1>0, <1>1 DEF TaskOK
<1>3. PICK c, change : c = Fragment(t) /\ change = ChangeOf(t)
  OBVIOUS
<1>4. PICK order : order = [status |-> "open", note |-> Head(t.left).note, source |-> NoOrder,
                            change |-> change, margin |-> Head(t.left).margin]
  OBVIOUS
<1>5. PICK ok \in BOOLEAN, s \in {"accepted", "spent", "refused"} :
        /\ server' = IF ok THEN [server EXCEPT !.orders = Extended(@, c, order)] ELSE server
        /\ tasks' = (tasks \ {t}) \cup {[t EXCEPT !.step = s]}
        /\ s = "accepted" => ok
  <2>1. PICK ok \in BOOLEAN : ok = (outcome = "done" /\ CanPlaceOrder(Head(t.left).note))
    OBVIOUS
  <2>2. PICK s : s = IF ok THEN "accepted" ELSE IF Head(t.left).note \in server.spent THEN "spent" ELSE "refused"
    OBVIOUS
  <2>3. /\ server' = IF ok THEN [server EXCEPT !.orders = Extended(@, c, order)] ELSE server
        /\ tasks' = (tasks \ {t}) \cup {[t EXCEPT !.step = s]}
    BY <1>3, <1>4, <2>1, <2>2 DEF PostIntent, Goes, ChangeOf
  <2> QED BY <2>2, <2>3
<1>6. PICK u : u = [t EXCEPT !.step = s]
  OBVIOUS
<1>7. /\ u.op = "order" /\ u.step = s /\ u.group = t.group /\ u.left = t.left /\ u.sent = t.sent
      /\ DOMAIN u = DOMAIN t
  BY <1>1, <1>2, <1>6, StepOf DEF OrderTaskOK
<1>8. tasks' = (tasks \ {t}) \cup {u}
  BY <1>5, <1>6
<1>9. Len(t.sent) \in Nat /\ t.group \in Groups
  BY <1>2 DEF OrderTaskOK
<1>10. /\ c \in Seq(Groups \cup Nat) /\ Len(c) = 2 /\ c[1] = t.group /\ c[2] = Len(t.sent) + 1
  BY <1>3, <1>9 DEF Fragment
<1>11. c \notin DOMAIN server.orders
  BY <1>0, <1>1, <1>9, <1>10 DEF Ahead, Sent
<1>12. /\ DOMAIN server' = DOMAIN server /\ server'.known = server.known
       /\ server'.spent = server.spent /\ server'.relays = server.relays
       /\ DOMAIN server'.orders = DOMAIN server.orders \cup IF ok THEN {c} ELSE {}
       /\ \A d \in DOMAIN server.orders : server'.orders[d] = server.orders[d]
       /\ ok => server'.orders[c] = order
  BY <1>0, <1>5, <1>11 DEF SidesShaped, Extended
<1>13. SidesShaped'
  BY <1>0, <1>1, <1>12 DEF SidesShaped
<1>14. OrdersNamed'
  <2>1. DOMAIN order = OrderFields
    BY <1>4 DEF OrderFields
  <2>2. ASSUME NEW d \in DOMAIN server'.orders
        PROVE  /\ d \in Seq(Groups \cup Nat) /\ Len(d) \in {2, 3} /\ d[2] \in Nat
               /\ DOMAIN server'.orders[d] = OrderFields
    <3>1. CASE d \in DOMAIN server.orders
      BY <1>0, <1>12, <3>1 DEF OrdersNamed
    <3>2. CASE d = c /\ ok
      BY <1>9, <1>10, <1>12, <2>1, <3>2
    <3> QED BY <1>12, <3>1, <3>2
  <2> QED BY <1>0, <1>1, <2>2 DEF OrdersNamed
<1>15. AccountCovered'
  BY <1>0, <1>1, <1>12 DEF AccountCovered
<1>16. BackedUp'
  <2>1. order.change = change /\ NotesOf(change) \subseteq backups
    BY <1>1, <1>2, <1>3, <1>4 DEF OrderTaskOK
  <2> QED BY <1>0, <1>1, <1>12, <2>1 DEF BackedUp
<1>17. Grows
  BY <1>1, <1>12, KeepsItself, KeepsClaims DEF Grows, ClaimsBind
<1>18. TaskOK(u)'
  BY <1>0, <1>1, <1>2, <1>7, <1>12 DEF TaskOK, OrderTaskOK
<1>19. Ahead(u)'
  <2> SUFFICES ASSUME s = "accepted", NEW d \in DOMAIN server'.orders, d[1] = t.group, Len(d) = 2
               PROVE  d[2] <= Len(t.sent) + 1
    BY <1>7 DEF Ahead, Sent
  <2>1. CASE d \in DOMAIN server.orders
    <3>1. d[2] <= Len(t.sent) + 0 /\ d[2] \in Nat
      BY <1>0, <1>1, <2>1 DEF Ahead, Sent, OrdersNamed
    <3> QED BY <1>9, <3>1
  <2>2. CASE d = c
    BY <1>9, <1>10, <2>2
  <2> QED BY <1>12, <2>1, <2>2
<1>20. FragmentsInOrder'
  <2>1. \A d \in DOMAIN server'.orders : d \in DOMAIN server.orders \/ d[1] = t.group
    BY <1>10, <1>12
  <2> QED BY <1>0, <1>1, <1>7, <1>8, <1>19, <2>1, FragmentsMove
<1> QED BY <1>8, <1>13, <1>14, <1>15, <1>16, <1>17, <1>18, <1>20, Assembled

-----------------------------------------------------------------------------
(* Batches and wipes.                                                      *)

LEMMA OrdersAreSettled ==
    ASSUME BalanceInv, NEW c, NEW whole \in BOOLEAN, SettleOnchain(c, whole)
    PROVE  BalanceInv'
<1>0. SidesShaped /\ OrdersNamed /\ AccountCovered /\ BackedUp
  BY DEF BalanceInv
<1>1. /\ c \in DOMAIN server.orders /\ c \notin DOMAIN chain.settled
      /\ IsResidual(c) => whole
      /\ UNCHANGED <<wallet, tasks, backups, server>>
  BY DEF SettleOnchain, IsCancellableOrder
<1>2. PICK order, rest :
        /\ order = server.orders[c]
        /\ chain' = [chain EXCEPT
             !.nullified = @ \cup NotesOf(order.note),
             !.pool = @ \cup NotesOf(order.change),
             !.positions = @ \cup {c},
             !.residuals = rest,
             !.settled = Extended(@, c, whole)]
  BY <1>0, Zenon DEF SettleOnchain, SidesShaped
<1>3. /\ DOMAIN chain' = DOMAIN chain /\ chain'.claimed = chain.claimed
      /\ chain'.nullified = chain.nullified \cup NotesOf(order.note)
      /\ chain'.pool = chain.pool \cup NotesOf(order.change)
      /\ DOMAIN chain'.settled = DOMAIN chain.settled \cup {c} /\ chain'.settled[c] = whole
      /\ \A d \in DOMAIN chain.settled : chain'.settled[d] = chain.settled[d]
  BY <1>0, <1>1, <1>2 DEF SidesShaped, Extended
<1>4. SidesShaped'
  BY <1>0, <1>1, <1>3 DEF SidesShaped
<1>5. OrdersNamed'
  <2>1. ~whole => Len(c) = 2
    BY <1>0, <1>1 DEF OrdersNamed, IsResidual
  <2> QED BY <1>0, <1>1, <1>3, <2>1 DEF OrdersNamed
<1>6. AccountCovered'
  BY <1>0, <1>1, <1>2, <1>3 DEF AccountCovered
<1>7. BackedUp'
  BY <1>0, <1>1, <1>2, <1>3 DEF BackedUp
<1>8. Grows
  BY <1>1, <1>3, KeepsItself, KeepsClaims DEF Grows, ClaimsBind
<1>9. PICK u : u = [op |-> "load", step |-> "apply"]
  OBVIOUS
<1>10. u.op = "load" /\ TaskOK(u)'
  BY <1>9 DEF TaskOK
<1>11. FragmentsInOrder'
  BY <1>1, <1>10, FragmentsRest DEF BalanceInv
<1> QED BY <1>1, <1>4, <1>5, <1>6, <1>7, <1>8, <1>10, <1>11, Assembled

LEMMA FillsAreCommitted ==
    ASSUME BalanceInv, NEW c, CommitFill(c)
    PROVE  BalanceInv'
<1>0. SidesShaped /\ OrdersNamed /\ AccountCovered /\ BackedUp
  BY DEF BalanceInv
<1>1. c \in DOMAIN chain.settled /\ UNCHANGED <<wallet, tasks, backups, chain>>
  BY DEF CommitFill
<1>2. c \in DOMAIN server.orders
  BY <1>0, <1>1 DEF AccountCovered
<1>3. PICK order, whole, r : order = server.orders[c] /\ whole = chain.settled[c] /\ r = ResidualOf(c)
  OBVIOUS
<1>4. PICK residual : residual = [order EXCEPT !.note = NoNote, !.source = c, !.change = NoNote]
  OBVIOUS
<1>5. PICK filled : filled = [server.orders EXCEPT ![c].status = IF whole THEN "filled" ELSE "partially-filled"]
  OBVIOUS
<1>6. PICK orders : orders = IF whole THEN filled ELSE Extended(filled, r, residual)
  OBVIOUS
<1>7. server' = [server EXCEPT
        !.known = @ \cup NotesOf(order.change),
        !.spent = @ \cup NotesOf(order.note),
        !.positions = Extended(@, c, "open"),
        !.orders = orders]
  BY <1>3, <1>4, <1>5, <1>6 DEF CommitFill
<1>8. /\ DOMAIN server' = DOMAIN server /\ server'.orders = orders
      /\ server'.known = server.known \cup NotesOf(order.change)
      /\ server'.spent = server.spent \cup NotesOf(order.note)
      /\ server'.relays = server.relays
  BY <1>0, <1>7 DEF SidesShaped
<1>9. /\ DOMAIN filled = DOMAIN server.orders
      /\ \A d \in DOMAIN filled : /\ DOMAIN filled[d] = OrderFields
                                  /\ filled[d].note = server.orders[d].note
                                  /\ filled[d].change = server.orders[d].change
  BY <1>0, <1>5 DEF OrdersNamed, OrderFields
<1>10. DOMAIN residual = OrderFields /\ residual.note = NoNote /\ residual.change = NoNote
  BY <1>0, <1>2, <1>3, <1>4 DEF OrdersNamed, OrderFields
<1>11. ~whole => r \in Seq(Groups \cup Nat) /\ Len(r) = 3 /\ r[2] \in Nat
  <2> SUFFICES ASSUME ~whole PROVE r \in Seq(Groups \cup Nat) /\ Len(r) = 3 /\ r[2] \in Nat
    OBVIOUS
  <2>1. c \in Seq(Groups \cup Nat) /\ Len(c) = 2 /\ c[2] \in Nat
    BY <1>0, <1>1, <1>2, <1>3 DEF OrdersNamed
  <2>2. PICK S : S = Groups \cup Nat
    OBVIOUS
  <2>3. 0 \in S /\ c \in Seq(S)
    BY <2>1, <2>2
  <2>4. /\ Append(c, 0) \in Seq(S) /\ Len(Append(c, 0)) = Len(c) + 1
        /\ \A i \in 1..Len(c) : Append(c, 0)[i] = c[i]
    BY <2>3, AppendProperties
  <2>5. r \in Seq(S) /\ Len(r) = 3 /\ r[2] = c[2]
    BY <1>3, <2>1, <2>4 DEF ResidualOf
  <2> QED BY <2>1, <2>2, <2>5
<1>12. /\ DOMAIN orders = DOMAIN server.orders \cup IF whole THEN {} ELSE {r}
       /\ \A d \in DOMAIN orders :
             \/ orders[d] = residual /\ d = r /\ ~whole
             \/ d \in DOMAIN server.orders /\ orders[d] = filled[d]
  BY <1>6, <1>9 DEF Extended
<1>13. \A d \in DOMAIN orders :
          /\ DOMAIN orders[d] = OrderFields
          /\ \/ NotesOf(orders[d].change) = {} /\ NotesOf(orders[d].note) = {}
             \/ /\ d \in DOMAIN server.orders /\ orders[d].change = server.orders[d].change
                /\ orders[d].note = server.orders[d].note
  BY <1>9, <1>10, <1>12 DEF NotesOf
<1>14. SidesShaped'
  BY <1>0, <1>1, <1>8 DEF SidesShaped
<1>15. OrdersNamed'
  <2>1. \A d \in DOMAIN orders : d \in Seq(Groups \cup Nat) /\ Len(d) \in {2, 3} /\ d[2] \in Nat
    BY <1>0, <1>11, <1>12 DEF OrdersNamed
  <2> QED BY <1>0, <1>1, <1>8, <1>13, <2>1 DEF OrdersNamed
<1>16. AccountCovered'
  <2>1. NotesOf(order.change) \subseteq chain.pool /\ NotesOf(order.note) \subseteq chain.nullified
    BY <1>0, <1>1, <1>3 DEF AccountCovered
  <2>2. \A d \in DOMAIN chain.settled :
          /\ d \in DOMAIN orders
          /\ NotesOf(orders[d].change) \subseteq chain.pool
          /\ NotesOf(orders[d].note) \subseteq chain.nullified
    BY <1>0, <1>12, <1>13 DEF AccountCovered
  <2> QED BY <1>0, <1>1, <1>8, <2>1, <2>2 DEF AccountCovered
<1>17. BackedUp'
  BY <1>0, <1>1, <1>8, <1>13 DEF BackedUp
<1>18. Grows
  BY <1>1, <1>8, KeepsItself, KeepsClaims DEF Grows, ClaimsBind
<1>19. PICK u : u = [op |-> "load", step |-> "apply"]
  OBVIOUS
<1>20. u.op = "load" /\ TaskOK(u)'
  BY <1>19 DEF TaskOK
<1>21. FragmentsInOrder'
  <2>1. \A d \in DOMAIN server'.orders : d \in DOMAIN server.orders \/ Len(d) = 3
    BY <1>8, <1>11, <1>12
  <2> QED BY <1>1, <1>20, <2>1, FragmentsRest DEF BalanceInv
<1> QED BY <1>1, <1>14, <1>15, <1>16, <1>17, <1>18, <1>20, <1>21, Assembled

LEMMA BrowserIsWiped ==
    ASSUME BalanceInv, WipeBrowser
    PROVE  BalanceInv'
<1>1. wallet' = <<>> /\ tasks' = {} /\ UNCHANGED <<backups, server, chain>>
  BY DEF WipeBrowser
<1>2. DOMAIN wallet' = {} /\ IsFiniteSet(DOMAIN wallet')
  BY <1>1, FS_EmptySet
<1> QED BY <1>1, <1>2 DEF BalanceInv, SidesShaped, OrdersNamed, AccountCovered, BackedUp,
                          ClaimsHeld, FragmentsInOrder

-----------------------------------------------------------------------------
(* The invariant and what it gives.                                        *)

LEMMA BalanceInvHolds == BalanceSpec => []BalanceInv
<1>1. BalanceInit => BalanceInv
  <2> SUFFICES ASSUME BalanceInit PROVE BalanceInv
    OBVIOUS
  <2>1. DOMAIN wallet = {} /\ IsFiniteSet(DOMAIN wallet) /\ IsFiniteSet(backups)
    BY FS_EmptySet DEF BalanceInit
  <2>2. DOMAIN server.orders = {} /\ DOMAIN chain.settled = {} /\ DOMAIN chain.claimed = {}
    BY DEF BalanceInit
  <2>3. SidesShaped
    BY <2>1 DEF BalanceInit, SidesShaped
  <2>4. AccountCovered /\ BackedUp /\ tasks = {}
    BY <2>2 DEF BalanceInit, AccountCovered, BackedUp
  <2> QED BY <2>2, <2>3, <2>4 DEF BalanceInv, OrdersNamed, ClaimsHeld, FragmentsInOrder
<1>2. BalanceInv /\ [BalanceNext]_balanceVars => BalanceInv'
  <2> SUFFICES ASSUME BalanceInv, [BalanceNext]_balanceVars PROVE BalanceInv'
    OBVIOUS
  <2>1. CASE Request
    <3>1. ASSUME NEW d, StartDeposit(d) PROVE BalanceInv'
      BY <3>1, DepositsAndClosesStart
    <3>2. ASSUME NEW g \in Groups, StartOrder(g) PROVE BalanceInv'
      BY <3>2, OrderStarts
    <3>3. ASSUME NEW c, NEW outcome, CancelOrder(c, outcome) PROVE BalanceInv'
      BY <3>3, OrdersAreCancelled
    <3>4. ASSUME LoadPortfolio \/ SyncBackups PROVE BalanceInv'
      BY <3>4, TasksStartAndEnd, NotesComeFree
    <3>5. ASSUME NEW n \in DOMAIN wallet, StartWithdrawal(n) PROVE BalanceInv'
      BY <3>5, TasksStartAndEnd
    <3>6. ASSUME NEW c, NEW k, StartClose(c, k) PROVE BalanceInv'
      BY <3>6, DepositsAndClosesStart
    <3>7. ASSUME NEW c, StartClaim(c) PROVE BalanceInv'
      BY <3>7, TasksStartAndEnd
    <3> QED BY <2>1, <3>1, <3>2, <3>3, <3>4, <3>5, <3>6, <3>7 DEF Request
  <2>2. ASSUME NEW t \in tasks, Step(t) PROVE BalanceInv'
    <3>1. ASSUME NEW outcome, Post(t, outcome) PROVE BalanceInv'
      BY <3>1, DepositsAreRelayed, IntentsArePosted, NotesAreWithdrawn, PositionsAreClosed,
         ResidualsAreClaimed DEF Post
    <3>2. CASE BackUp(t)
      BY <3>2, NoteIsBackedUp
    <3>3. CASE FinalizeDeposit(t)
      BY <3>3, DepositsAreRelayed
    <3>4. CASE NoteIsCredited(t) \/ ApplyPortfolio(t) \/ NoteIsWithdrawn(t)
      BY <3>4, NotesComeFree
    <3>5. CASE SaveChange(t) \/ IntentIsAccepted(t) \/ IntentIsRefused(t)
      BY <3>5, OrdersGoForward
    <3>6. CASE UndoFragment(t)
      BY <3>6, OrdersAreCancelled
    <3>7. CASE CloseIsRefused(t) \/ Abandon(t)
      BY <3>7, TasksStartAndEnd
    <3>8. CASE ChooseClaim(t) \/ (\E k \in 1..MaxAttempts : MakeClaimNote(t, k)) \/ ClaimIsConfirmed(t)
      BY <3>8, ClaimsGoForward
    <3> QED BY <2>2, <3>1, <3>2, <3>3, <3>4, <3>5, <3>6, <3>7, <3>8 DEF Step
  <2>3. ASSUME NEW c, NEW whole \in BOOLEAN, SettleOnchain(c, whole) PROVE BalanceInv'
    BY <2>3, OrdersAreSettled
  <2>4. ASSUME NEW c, CommitFill(c) PROVE BalanceInv'
    BY <2>4, FillsAreCommitted
  <2>5. CASE WipeBrowser
    BY <2>5, BrowserIsWiped
  <2>6. CASE UNCHANGED balanceVars
    BY <2>6, KeepsItself, KeepsClaims, TaskEnds DEF balanceVars
  <2> QED BY <2>1, <2>2, <2>3, <2>4, <2>5, <2>6 DEF BalanceNext
<1> QED BY <1>1, <1>2, PTL DEF BalanceSpec

\* The server of an account credits only notes that are in the pool, and marks as
\* spent only nullifiers that the pool has, whatever becomes of the client's tasks
\* (relayDeposit, finalizeDeposit, withdraw, close, claim and the commit of a batch).
THEOREM ServerCreditsWhatIsThere == BalanceSpec => []ServerFollowsPool
<1>1. BalanceInv => ServerFollowsPool
  BY DEF BalanceInv, AccountCovered, ServerFollowsPool
<1> QED BY <1>1, BalanceInvHolds, PTL

\* Every note in the pool that is not spent can be opened from the browser or from
\* the backups, and a claim that landed can be finished from the browser that holds
\* its note, whatever is abandoned, fails or is wiped on the way.
THEOREM MoneyIsReachable == BalanceSpec => []MoneyStaysInReach
<1>1. BalanceInv => OpeningsSurvive
  BY DEF BalanceInv, BackedUp, OpeningsSurvive
<1>2. BalanceInv => ClaimsCanBeFinished
  BY DEF BalanceInv, ClaimsHeld, ClaimsCanBeFinished
<1> QED BY <1>1, <1>2, BalanceInvHolds, PTL DEF MoneyStaysInReach

-----------------------------------------------------------------------------
(* Funding.  A settlement whose answer was lost moves the contract's index *)
(* and leaves no update behind from which the next one would count.  What  *)
(* keeps time from being charged twice is the index: nothing the server    *)
(* may still write as the market's index is then the contract's, so no     *)
(* later step is accepted.                                                 *)

KnownRecords == [price : Prices, index : FundingIndices]
SentSteps == [stmt : FundingStatement, to : Nat]

EngineShaped ==
    /\ fundingIndex \in [Markets -> FundingIndices]
    /\ markPrice \in [Markets -> Prices \cup {NoPrice}]
    /\ now \in Nat
    /\ records \in [Markets -> KnownRecords \cup {Unknown}]
    /\ listing \in [Markets -> Nat]
    /\ updates \subseteq [market : Markets, at : Nat, old : FundingIndices, new : FundingIndices]
    /\ charged \subseteq [market : Markets, from : Int, to : Nat]
    /\ late \subseteq SentSteps
    /\ refresh = NoRefresh \/
         refresh \in [stage : {"asked", "apply", "upsert"}, market : Markets, record : KnownRecords]

CycleShaped ==
    /\ cycle \in [todo : SUBSET Markets, at : Nat, rate : FixedRates \cup {NoRate},
                  sent : SUBSET SentSteps]
    /\ \A d, e \in cycle.sent : d = e
    /\ \A d \in cycle.sent : d.to = cycle.at

\* The indexes that the server has for a market, or may still write.
Indexes(m) ==
    {i \in FundingIndices :
        \/ Known(m) /\ i = records[m].index
        \/ refresh # NoRefresh /\ refresh.market = m /\ i = refresh.record.index
        \/ listing[m] > 0 /\ i = FirstIndex}

SentOf(m) == {d \in cycle.sent \cup late : d.stmt.market = m}
ChargedOf(m) == {a \in charged : a.market = m}

\* Nothing that waits on the server is older than the clock's unit.
InTime ==
    /\ cycle.at <= now
    /\ \A d \in late : d.to <= now
    /\ \A u \in updates : u.at <= now
    /\ ~Free /\ (refresh # NoRefresh \/ \E m \in Markets : listing[m] > 0) => cycle.at = now

\* Only what is known is refreshed, settled and charged.
OnlyKnown ==
    /\ \A m \in cycle.todo : Known(m)
    /\ refresh # NoRefresh => Known(refresh.market)
    /\ \A m \in Markets :
         SentOf(m) # {} \/ ChargedOf(m) # {} \/ UpdatesOf(m) # {} => Known(m)

\* Two indexes are about only while the update between them is new.
OneIndex(m) == \A i, j \in Indexes(m) : i # j => \E u \in UpdatesOf(m) : u.at = now

\* A step on its way is from the only index there is, and from the last update.
StepFits(m) ==
    \A d \in SentOf(m) :
        /\ \A i \in Indexes(m) : i = d.stmt.old
        /\ d.stmt.new # d.stmt.old
        /\ \A u \in UpdatesOf(m) : u.at <= d.to - d.stmt.elapsed

\* If the server has, or may have, the contract's index, it knows of every charge.
KnowsCharges(m) ==
    fundingIndex[m] \in Indexes(m) =>
        \A a \in ChargedOf(m) : \E u \in UpdatesOf(m) : a.to <= u.at

ChargedOnce(m) ==
    \A a, b \in ChargedOf(m) : a = b \/ a.to <= b.from \/ b.to <= a.from

MarketOK(m) == OneIndex(m) /\ StepFits(m) /\ KnowsCharges(m) /\ ChargedOnce(m)

EngineInv ==
    /\ EngineShaped /\ CycleShaped /\ InTime /\ OnlyKnown
    /\ cycle.sent # {} => late = {}
    /\ \A m \in Markets \ (adjusted \cup reindexed) : MarketOK(m)

\* The update that LastUpdate takes is the newest.
LEMMA NewestUpdate ==
    ASSUME NEW m, EngineShaped, InTime, UpdatesOf(m) # {}
    PROVE  /\ LastUpdate(m) \in UpdatesOf(m)
           /\ \A u \in UpdatesOf(m) : u.at <= LastUpdate(m).at
<1> DEFINE Ages == {now - u.at : u \in UpdatesOf(m)}
           R == OpToRel(<, Nat)
<1>1. \A u \in UpdatesOf(m) : u.at \in Nat /\ u.at <= now
  BY DEF EngineShaped, InTime, UpdatesOf
<1>2. now \in Nat
  BY DEF EngineShaped
<1>3. Ages \subseteq Nat /\ Ages # {}
  BY <1>1, <1>2
<1>4. IsWellFoundedOn(R, Nat)
  BY NatLessThanWellFounded
<1> HIDE DEF R
<1>5. PICK a \in Ages : \A b \in Ages : ~(<<b, a>> \in R)
  BY <1>3, <1>4, WFMin
<1>6. \A b \in Ages : ~(b < a)
  BY <1>3, <1>5 DEF R, OpToRel
<1>7. PICK u \in UpdatesOf(m) : a = now - u.at
  BY <1>5
<1>8. ASSUME NEW v \in UpdatesOf(m) PROVE v.at <= u.at
  <2>1. now - v.at \in Ages
    OBVIOUS
  <2>2. ~(now - v.at < now - u.at)
    BY <1>6, <1>7, <2>1
  <2> QED BY <1>1, <1>2, <2>2
<1> QED BY <1>8 DEF LastUpdate

\* A market that a step leaves alone, or about which the server only forgets.
Rests(m) ==
    /\ Indexes(m)' \subseteq Indexes(m)
    /\ SentOf(m)' \subseteq SentOf(m)
    /\ UpdatesOf(m)' = UpdatesOf(m)
    /\ ChargedOf(m)' = ChargedOf(m)
    /\ fundingIndex'[m] = fundingIndex[m]

LEMMA RestingMarket ==
    ASSUME NEW m, MarketOK(m), Rests(m), now' = now \/ (\A i, j \in Indexes(m)' : i = j)
    PROVE  MarketOK(m)'
<1>1. OneIndex(m)'
  BY DEF MarketOK, OneIndex, Rests
<1>2. StepFits(m)'
  BY DEF MarketOK, StepFits, Rests
<1>3. KnowsCharges(m)'
  BY DEF MarketOK, KnowsCharges, Rests
<1>4. ChargedOnce(m)'
  BY DEF MarketOK, ChargedOnce, Rests
<1> QED BY <1>1, <1>2, <1>3, <1>4 DEF MarketOK

LEMMA EngineInvInit == Init => EngineInv
<1> SUFFICES ASSUME Init PROVE EngineInv
  OBVIOUS
<1>1. /\ now = 0 /\ records = [m \in Markets |-> Unknown] /\ updates = {} /\ late = {}
      /\ charged = {} /\ adjusted = {} /\ cycle = NoCycle /\ refresh = NoRefresh
      /\ listing = [m \in Markets |-> 0] /\ reindexed = {}
      /\ fundingIndex = [m \in Markets |-> FirstIndex] /\ markPrice \in [Markets -> Prices]
  BY DEF Init, MarketInit
<1>2. EngineShaped
  BY <1>1, MarketAssumption DEF EngineShaped
<1>3. /\ cycle.todo = {} /\ cycle.sent = {} /\ cycle.at = 0 /\ cycle.rate = NoRate
      /\ cycle = [todo |-> {}, at |-> 0, rate |-> NoRate, sent |-> {}]
  BY <1>1 DEF NoCycle
<1>4. CycleShaped
  BY <1>3 DEF CycleShaped
<1>5. InTime /\ OnlyKnown
  BY <1>1, <1>3 DEF InTime, OnlyKnown, Free, SentOf, ChargedOf, UpdatesOf
<1>6. ASSUME NEW m \in Markets PROVE MarketOK(m)
  <2>1. Indexes(m) = {} /\ SentOf(m) = {} /\ ChargedOf(m) = {}
    BY <1>1, <1>3 DEF Indexes, SentOf, ChargedOf, Known
  <2> QED BY <2>1 DEF MarketOK, OneIndex, StepFits, KnowsCharges, ChargedOnce
<1> QED BY <1>2, <1>3, <1>4, <1>5, <1>6 DEF EngineInv

\* What the server knows and sends, the clock apart.
ServerRests == UNCHANGED <<records, updates, refresh, listing, charged>>

LEMMA IndexesRest ==
    ASSUME ServerRests, NEW m
    PROVE  /\ Indexes(m)' = Indexes(m) /\ UpdatesOf(m)' = UpdatesOf(m)
           /\ ChargedOf(m)' = ChargedOf(m) /\ Known(m)' = Known(m)
  BY DEF ServerRests, Indexes, UpdatesOf, ChargedOf, Known

\* Steps of the contracts that move no index, and samples.
LEMMA ContractsMove ==
    ASSUME EngineInv,
           UNCHANGED <<now, cycle, late, adjusted, fundingIndex>>, ServerRests,
           markPrice' \in [Markets -> Prices \cup {NoPrice}], reindexed \subseteq reindexed'
    PROVE  EngineInv'
<1>1. EngineShaped' /\ CycleShaped'
  BY DEF EngineInv, EngineShaped, CycleShaped, ServerRests
<1>2. \A m : SentOf(m)' = SentOf(m)
  BY DEF SentOf
<1>3. InTime' /\ OnlyKnown'
  BY <1>2, IndexesRest DEF EngineInv, InTime, OnlyKnown, Free, ServerRests
<1>4. ASSUME NEW m \in Markets \ (adjusted' \cup reindexed') PROVE MarketOK(m)'
  <2>1. MarketOK(m)
    BY <1>4 DEF EngineInv
  <2>2. Rests(m)
    BY <1>2, IndexesRest DEF Rests
  <2> QED BY <2>1, <2>2, RestingMarket
<1> QED BY <1>1, <1>3, <1>4 DEF EngineInv

LEMMA ContractSteps == EngineInv /\ ContractStep => EngineInv'
<1> SUFFICES ASSUME EngineInv, ContractStep PROVE EngineInv'
  OBVIOUS
<1>1. UNCHANGED <<now, cycle, late, adjusted>> /\ ServerRests
  BY DEF ContractStep, serverVars, ServerRests
<1>2. /\ fundingIndex \in [Markets -> FundingIndices]
      /\ markPrice \in [Markets -> Prices \cup {NoPrice}]
  BY DEF EngineInv, EngineShaped
<1>3. ASSUME NEW m \in Markets, NEW price \in Prices \cup {NoPrice}, OracleMoves(m, price)
      PROVE  EngineInv'
  BY <1>1, <1>2, <1>3, ContractsMove DEF OracleMoves
<1>4. ASSUME NEW m \in Markets, NEW active \in BOOLEAN, Upsert(m, active, fundingIndex[m])
      PROVE  EngineInv'
  <2>1. fundingIndex' = fundingIndex
    BY <1>2, <1>4 DEF Upsert
  <2>2. UNCHANGED markPrice /\ reindexed \subseteq reindexed'
    BY <1>4 DEF Upsert
  <2> QED BY <1>1, <1>2, <2>1, <2>2, ContractsMove
<1>5. ASSUME NEW enabled \in BOOLEAN, SetFundingUpdater(enabled) PROVE EngineInv'
  BY <1>1, <1>2, <1>5, ContractsMove DEF SetFundingUpdater
<1> QED BY <1>3, <1>4, <1>5 DEF ContractStep

LEMMA SamplesAreTaken ==
    ASSUME EngineInv, NEW m, NEW rate, Sample(m, rate)
    PROVE  EngineInv'
<1>1. /\ UNCHANGED <<now, cycle, late, adjusted, fundingIndex, markPrice, reindexed>>
      /\ ServerRests
  BY DEF Sample, ServerRests, marketVars
<1> QED BY <1>1, ContractsMove DEF EngineInv, EngineShaped

\* A cycle begins, passes a market over or fails: what it sent may land late.
LEMMA CyclesMove ==
    ASSUME EngineInv, ServerRests,
           UNCHANGED <<now, fundingIndex, markPrice, adjusted, reindexed>>,
           CycleShaped', late' \subseteq late \cup cycle.sent, cycle'.sent \subseteq cycle.sent,
           cycle'.sent # {} => late' = {},
           cycle'.at \in {cycle.at, now, 0}, \A m \in cycle'.todo : m \in cycle.todo \/ Known(m),
           cycle' # NoCycle => cycle'.at = now \/ (cycle # NoCycle /\ cycle'.at = cycle.at)
    PROVE  EngineInv'
<1>1. /\ late' \subseteq SentSteps /\ \A d \in late' : d.to <= now
  BY DEF EngineInv, EngineShaped, CycleShaped, InTime
<1>2. EngineShaped'
  BY <1>1 DEF EngineInv, EngineShaped, ServerRests
<1>3. \A m : SentOf(m)' \subseteq SentOf(m)
  BY DEF SentOf
<1>4. now \in Nat
  BY DEF EngineInv, EngineShaped
<1>5. InTime'
  BY <1>1, <1>4 DEF EngineInv, InTime, Free, ServerRests
<1>6. OnlyKnown'
  BY <1>3, IndexesRest DEF EngineInv, OnlyKnown, ServerRests
<1>7. ASSUME NEW m \in Markets \ (adjusted' \cup reindexed') PROVE MarketOK(m)'
  <2>1. MarketOK(m)
    BY <1>7 DEF EngineInv
  <2>2. Rests(m)
    BY <1>3, IndexesRest DEF Rests
  <2> QED BY <2>1, <2>2, RestingMarket
<1> QED BY <1>2, <1>5, <1>6, <1>7 DEF EngineInv

LEMMA CyclesStart ==
    ASSUME EngineInv, NEW rate \in FixedRates \cup {NoRate}, StartCycle(rate)
    PROVE  EngineInv'
<1>1. /\ cycle = NoCycle /\ ServerRests
      /\ UNCHANGED <<now, fundingIndex, markPrice, adjusted, reindexed, late>>
      /\ cycle' = [todo |-> {m \in Markets : Known(m)}, at |-> now, rate |-> rate, sent |-> {}]
  BY DEF StartCycle, Free, ServerRests, marketVars, NoCycle
<1>2. now \in Nat
  BY DEF EngineInv, EngineShaped
<1>3. CycleShaped'
  BY <1>1, <1>2 DEF CycleShaped
<1>4. cycle'.sent = {} /\ cycle'.at = now /\ cycle'.todo = {m \in Markets : Known(m)}
  BY <1>1
<1>5. /\ \A m \in cycle'.todo : Known(m)
      /\ late' \subseteq late \cup cycle.sent /\ cycle'.sent \subseteq cycle.sent
      /\ cycle'.sent # {} => late' = {}
      /\ cycle'.at \in {cycle.at, now, 0}
      /\ UNCHANGED <<now, fundingIndex, markPrice, adjusted, reindexed>> /\ ServerRests
  BY <1>1, <1>4
<1>6. \A m \in cycle'.todo : m \in cycle.todo \/ Known(m)
  BY <1>5
<1>7. cycle' # NoCycle => cycle'.at = now \/ (cycle # NoCycle /\ cycle'.at = cycle.at)
  BY <1>4
<1>8. late' \subseteq late \cup cycle.sent /\ cycle'.sent \subseteq cycle.sent
  BY <1>5
<1>9. (cycle'.sent # {} => late' = {}) /\ cycle'.at \in {cycle.at, now, 0}
  BY <1>5
<1>10. UNCHANGED <<now, fundingIndex, markPrice, adjusted, reindexed>> /\ ServerRests
  BY <1>5
<1> QED BY <1>3, <1>6, <1>7, <1>8, <1>9, <1>10, CyclesMove

LEMMA MarketsAreSkipped ==
    ASSUME EngineInv, NEW m \in Markets, Skip(m)
    PROVE  EngineInv'
<1>1. /\ ServerRests /\ m \in cycle.todo /\ cycle.sent = {}
      /\ UNCHANGED <<now, fundingIndex, markPrice, adjusted, reindexed, late>>
      /\ cycle' = IF cycle.todo = {m} THEN NoCycle ELSE [cycle EXCEPT !.todo = cycle.todo \ {m}]
  BY DEF Skip, ServerRests, marketVars
<1>2. CycleShaped
  BY DEF EngineInv
<1>3. CASE cycle.todo = {m}
  <2>1. cycle' = [todo |-> {}, at |-> 0, rate |-> NoRate, sent |-> {}]
    BY <1>1, <1>3 DEF NoCycle
  <2>2. CycleShaped' /\ cycle'.sent = {} /\ cycle'.todo = {} /\ cycle'.at = 0
    BY <2>1 DEF CycleShaped
  <2>3. cycle' = NoCycle
    BY <1>1, <1>3
  <2> QED BY <1>1, <2>2, <2>3, CyclesMove
<1>4. CASE cycle.todo # {m}
  <2>1. cycle' = [cycle EXCEPT !.todo = cycle.todo \ {m}]
    BY <1>1, <1>4
  <2>2. CycleShaped'
    BY <1>2, <2>1 DEF CycleShaped
  <2>3. cycle'.sent = cycle.sent /\ cycle'.at = cycle.at /\ cycle'.todo = cycle.todo \ {m}
    BY <1>2, <2>1 DEF CycleShaped
  <2>4. cycle # NoCycle
    BY <1>1 DEF NoCycle
  <2> QED BY <1>1, <2>2, <2>3, <2>4, CyclesMove
<1> QED BY <1>3, <1>4

LEMMA CyclesFail ==
    ASSUME EngineInv, CycleFails
    PROVE  EngineInv'
<1>1. /\ ServerRests
      /\ UNCHANGED <<now, fundingIndex, markPrice, adjusted, reindexed>>
      /\ late' = cycle.sent
      /\ cycle' = [todo |-> {}, at |-> 0, rate |-> NoRate, sent |-> {}] /\ cycle' = NoCycle
  BY DEF CycleFails, ServerRests, marketVars, NoCycle
<1>2. CycleShaped' /\ cycle'.sent = {} /\ cycle'.todo = {} /\ cycle'.at = 0
  BY <1>1 DEF CycleShaped
<1> QED BY <1>1, <1>2, CyclesMove

\* The time from which a step counts is that of the last update.
LEMMA CountsFromUpdates ==
    ASSUME EngineInv, NEW m, NEW at \in Nat, NEW u \in UpdatesOf(m), Elapsed(m, at) \in Nat
    PROVE  u.at <= at - Elapsed(m, at)
<1>1. /\ LastUpdate(m) \in UpdatesOf(m) /\ u.at <= LastUpdate(m).at
  BY NewestUpdate DEF EngineInv
<1>2. Elapsed(m, at) = at - LastUpdate(m).at
  BY DEF Elapsed
<1>3. LastUpdate(m).at \in Nat /\ u.at \in Nat
  BY <1>1 DEF EngineInv, EngineShaped, UpdatesOf
<1> QED BY <1>1, <1>2, <1>3

\* A step that is sent is from the only index the server has: had it two, the last
\* update would be of this very time, and nothing would have elapsed.
LEMMA StepsAreSent ==
    ASSUME EngineInv, NEW m \in Markets, RecordFundingProof(m)
    PROVE  EngineInv'
<1>1. PICK s : s = Statement(m, cycle.at, cycle.rate)
  OBVIOUS
<1>2. PICK d : d = [stmt |-> s, to |-> cycle.at]
  OBVIOUS
<1>3. /\ m \in cycle.todo /\ cycle.sent = {}
      /\ s.elapsed > 0 /\ s.new # s.old
      /\ cycle' = [cycle EXCEPT !.sent = {d}]
      /\ late' = {} /\ ServerRests
      /\ UNCHANGED <<now, fundingIndex, markPrice, adjusted, reindexed>>
  BY <1>1, <1>2 DEF RecordFundingProof, ServerRests, marketVars
<1>4. s \in FundingStatement
  <2>1. PICK v \in Verifiers : CircuitOf[v] = FundingCircuit /\ VerifyAndRecord(v, s)
    BY <1>1 DEF RecordFundingProof
  <2> QED BY <2>1, MarketAssumption DEF VerifyAndRecord
<1>5. /\ s.market = m /\ s.old = records[m].index /\ s.elapsed = Elapsed(m, cycle.at)
  BY <1>1 DEF Statement
<1>6. CycleShaped
  BY DEF EngineInv
<1>7. d \in SentSteps /\ d.stmt = s /\ d.to = cycle.at
  BY <1>2, <1>4, <1>6 DEF SentSteps, CycleShaped
<1>8. CycleShaped' /\ cycle'.sent = {d} /\ cycle'.todo = cycle.todo /\ cycle'.at = cycle.at
  BY <1>3, <1>6, <1>7 DEF CycleShaped
<1>9. EngineShaped'
  BY <1>3 DEF EngineInv, EngineShaped, ServerRests
<1>10. cycle # NoCycle
  BY <1>3 DEF NoCycle
<1>11. InTime'
  BY <1>3, <1>8, <1>10 DEF EngineInv, InTime, Free, ServerRests
<1>12. \A k : SentOf(k)' = {e \in {d} : e.stmt.market = k}
  BY <1>3, <1>8 DEF SentOf
<1>13. Known(m)
  BY <1>3 DEF EngineInv, OnlyKnown
<1>14. OnlyKnown'
  <2>1. ASSUME NEW k \in Markets, SentOf(k)' # {} \/ ChargedOf(k)' # {} \/ UpdatesOf(k)' # {}
        PROVE  Known(k)'
    <3>1. CASE SentOf(k)' # {}
      BY <1>3, <1>5, <1>7, <1>12, <1>13, <3>1, IndexesRest
    <3>2. CASE ChargedOf(k)' # {} \/ UpdatesOf(k)' # {}
      BY <1>3, <3>2, IndexesRest DEF EngineInv, OnlyKnown
    <3> QED BY <2>1, <3>1, <3>2
  <2>2. \A k \in cycle'.todo : Known(k)'
    BY <1>3, <1>8, IndexesRest DEF EngineInv, OnlyKnown
  <2>3. (refresh # NoRefresh => Known(refresh.market))'
    BY <1>3 DEF EngineInv, OnlyKnown, ServerRests, Known
  <2> QED BY <2>1, <2>2, <2>3 DEF OnlyKnown
<1>15. ASSUME NEW k \in Markets \ (adjusted' \cup reindexed') PROVE MarketOK(k)'
  <2>1. MarketOK(k)
    BY <1>3, <1>15 DEF EngineInv
  <2>2. CASE k # m
    <3>1. SentOf(k)' = {}
      BY <1>5, <1>7, <1>12, <2>2
    <3>2. Rests(k)
      BY <1>3, <3>1, IndexesRest DEF Rests
    <3> QED BY <1>3, <2>1, <3>2, RestingMarket
  <2>3. CASE k = m
    <3>1. /\ Indexes(m)' = Indexes(m) /\ UpdatesOf(m)' = UpdatesOf(m)
          /\ ChargedOf(m)' = ChargedOf(m)
      BY <1>3, IndexesRest
    <3>2. OneIndex(m)' /\ KnowsCharges(m)' /\ ChargedOnce(m)'
      BY <1>3, <2>1, <2>3, <3>1 DEF MarketOK, OneIndex, KnowsCharges, ChargedOnce
    <3>3. s.elapsed \in Nat /\ cycle.at \in Nat /\ now \in Nat /\ cycle.at <= now
      BY <1>4, <1>6 DEF FundingStatement, CycleShaped, EngineInv, EngineShaped, InTime
    <3>4. \A u \in UpdatesOf(m) : u.at <= cycle.at - s.elapsed /\ u.at \in Nat
      BY <1>5, <3>3, CountsFromUpdates DEF EngineInv, EngineShaped, UpdatesOf
    <3>5. \A u \in UpdatesOf(m) : u.at # now
      BY <1>3, <3>3, <3>4
    <3>6. records[m].index \in Indexes(m)
      BY <1>13 DEF Indexes, Known, EngineInv, EngineShaped, KnownRecords
    <3>7. \A i \in Indexes(m) : i = s.old
      BY <1>5, <2>1, <2>3, <3>5, <3>6 DEF MarketOK, OneIndex
    <3>8. StepFits(m)'
      BY <1>3, <1>7, <1>12, <3>1, <3>4, <3>7 DEF StepFits
    <3> QED BY <2>3, <3>2, <3>8 DEF MarketOK
  <2> QED BY <2>2, <2>3
<1> QED BY <1>3, <1>8, <1>9, <1>11, <1>14, <1>15 DEF EngineInv

\* What lands is accepted only if the contract's index is the step's old one, which
\* the server has then too: so it knows of every charge, and the period is new.
LEMMA PeriodIsNew ==
    ASSUME EngineInv, NEW d \in cycle.sent \cup late, SettleFunding(d.stmt),
           d.stmt.market \notin adjusted \cup reindexed
    PROVE  /\ d.stmt.market \in Markets
           /\ \A a \in ChargedOf(d.stmt.market) : a.to <= d.to - d.stmt.elapsed
           /\ \A i \in Indexes(d.stmt.market) : i = d.stmt.old
<1>1. d \in SentSteps
  BY DEF EngineInv, EngineShaped, CycleShaped
<1>2. PICK m \in Markets : m = d.stmt.market
  BY <1>1 DEF SentSteps, FundingStatement
<1>3. MarketOK(m) /\ d \in SentOf(m)
  BY <1>2 DEF EngineInv, SentOf
<1>4. /\ \A i \in Indexes(m) : i = d.stmt.old
      /\ \A u \in UpdatesOf(m) : u.at <= d.to - d.stmt.elapsed
  BY <1>3 DEF MarketOK, StepFits
<1>5. Known(m)
  BY <1>3 DEF EngineInv, OnlyKnown
<1>6. records[m].index \in Indexes(m)
  BY <1>5 DEF Indexes, Known, EngineInv, EngineShaped, KnownRecords
<1>7. fundingIndex[m] = d.stmt.old
  BY <1>2 DEF SettleFunding, AdvanceFunding
<1>8. \A a \in ChargedOf(m) : \E u \in UpdatesOf(m) : a.to <= u.at
  BY <1>3, <1>4, <1>6, <1>7 DEF MarketOK, KnowsCharges
<1>9. ASSUME NEW a \in ChargedOf(m) PROVE a.to <= d.to - d.stmt.elapsed
  <2>1. PICK u \in UpdatesOf(m) : a.to <= u.at
    BY <1>8
  <2>2. a.to \in Int /\ u.at \in Int /\ d.to \in Int /\ d.stmt.elapsed \in Int
    BY <1>1 DEF ChargedOf, UpdatesOf, EngineInv, EngineShaped, SentSteps, FundingStatement
  <2> QED BY <1>4, <2>1, <2>2
<1> QED BY <1>2, <1>4, <1>9

\* The step lands, with its answer or late: the index moves, one period is charged.
StepLands(d) ==
    /\ SettleFunding(d.stmt)
    /\ charged' = charged \cup {Period(d)}
    /\ late' = {}
    /\ UNCHANGED <<now, refresh, listing, adjusted>>

LEMMA LandedStep ==
    ASSUME EngineInv, NEW d \in cycle.sent \cup late, StepLands(d)
    PROVE  /\ d \in SentSteps /\ d.stmt.market \in Markets /\ Known(d.stmt.market)
           /\ Period(d).market = d.stmt.market /\ Period(d).to = d.to
           /\ Period(d).from = d.to - d.stmt.elapsed
           /\ Period(d) \in [market : Markets, from : Int, to : Nat]
           /\ d.stmt.old = fundingIndex[d.stmt.market] /\ d.stmt.new # d.stmt.old
           /\ fundingIndex' = [fundingIndex EXCEPT ![d.stmt.market] = d.stmt.new]
           /\ fundingIndex' \in [Markets -> FundingIndices]
           /\ UNCHANGED <<markPrice, reindexed>>
           /\ ChargedOf(d.stmt.market)' = ChargedOf(d.stmt.market) \cup {Period(d)}
           /\ \A k \in Markets \ {d.stmt.market} : ChargedOf(k)' = ChargedOf(k)
<1>1. d \in SentSteps
  BY DEF EngineInv, EngineShaped, CycleShaped
<1>2. PICK m \in Markets : m = d.stmt.market
  BY <1>1 DEF SentSteps, FundingStatement
<1>3. d \in SentOf(m)
  BY <1>2 DEF SentOf
<1>4. Known(m)
  BY <1>3 DEF EngineInv, OnlyKnown
<1>5. /\ Period(d).market = m /\ Period(d).to = d.to /\ Period(d).from = d.to - d.stmt.elapsed
      /\ Period(d) \in [market : Markets, from : Int, to : Nat]
  BY <1>1, <1>2 DEF Period, SentSteps, FundingStatement
<1>6. /\ d.stmt.old = fundingIndex[m] /\ d.stmt.new # d.stmt.old
      /\ fundingIndex' = [fundingIndex EXCEPT ![m] = d.stmt.new]
      /\ UNCHANGED <<markPrice, reindexed>>
  BY <1>2 DEF StepLands, SettleFunding, AdvanceFunding
<1>7. fundingIndex' \in [Markets -> FundingIndices]
  BY <1>1, <1>2, <1>6 DEF EngineInv, EngineShaped, SentSteps, FundingStatement
<1>8. ChargedOf(m)' = ChargedOf(m) \cup {Period(d)}
  BY <1>5 DEF StepLands, ChargedOf
<1>9. \A k \in Markets \ {m} : ChargedOf(k)' = ChargedOf(k)
  BY <1>5 DEF StepLands, ChargedOf
<1> QED BY <1>1, <1>2, <1>4, <1>5, <1>6, <1>7, <1>8, <1>9

\* No other period of its market overlaps the one that is charged.
LEMMA PeriodsStayApart ==
    ASSUME EngineInv, NEW d \in cycle.sent \cup late, StepLands(d),
           d.stmt.market \notin adjusted \cup reindexed
    PROVE  ChargedOnce(d.stmt.market)'
<1>1. PICK m : m = d.stmt.market
  OBVIOUS
<1>2. /\ m \in Markets /\ \A a \in ChargedOf(m) : a.to <= d.to - d.stmt.elapsed
  BY <1>1, PeriodIsNew DEF StepLands
<1>3. /\ ChargedOf(m)' = ChargedOf(m) \cup {Period(d)}
      /\ Period(d).from = d.to - d.stmt.elapsed
  BY <1>1, LandedStep
<1>4. ChargedOnce(m)
  BY <1>1, <1>2 DEF EngineInv, MarketOK
<1>5. ASSUME NEW a \in ChargedOf(m)', NEW b \in ChargedOf(m)'
      PROVE  a = b \/ a.to <= b.from \/ b.to <= a.from
  <2>1. CASE a \in ChargedOf(m) /\ b \in ChargedOf(m)
    BY <1>4, <2>1 DEF ChargedOnce
  <2>2. CASE a = Period(d) \/ b = Period(d)
    BY <1>2, <1>3, <1>5, <2>2
  <2> QED BY <1>3, <1>5, <2>1, <2>2
<1> QED BY <1>1, <1>5 DEF ChargedOnce

\* With its answer: the server writes index and update.
LEMMA StepsAreSettled ==
    ASSUME EngineInv, Settle
    PROVE  EngineInv'
<1>1. PICK d \in cycle.sent :
        LET m == d.stmt.market IN
        /\ SettleFunding(d.stmt)
        /\ charged' = charged \cup {Period(d)}
        /\ records' = [records EXCEPT ![m].index = d.stmt.new]
        /\ updates' = updates \cup
                        {[market |-> m, at |-> d.to, old |-> d.stmt.old, new |-> d.stmt.new]}
        /\ cycle' = IF cycle.todo \ {m} = {} THEN NoCycle
                    ELSE [cycle EXCEPT !.todo = cycle.todo \ {m}, !.sent = {}]
        /\ UNCHANGED <<now, refresh, listing, late, adjusted>>
  BY DEF Settle
<1>2. PICK m : m = d.stmt.market
  OBVIOUS
<1>3. late = {} /\ StepLands(d) /\ d \in cycle.sent \cup late
  BY <1>1 DEF EngineInv, StepLands
<1>4. /\ d \in SentSteps /\ m \in Markets /\ Known(m)
      /\ Period(d).market = m /\ Period(d).to = d.to
      /\ Period(d) \in [market : Markets, from : Int, to : Nat]
      /\ d.stmt.old = fundingIndex[m]
      /\ fundingIndex' = [fundingIndex EXCEPT ![m] = d.stmt.new]
      /\ fundingIndex' \in [Markets -> FundingIndices]
      /\ UNCHANGED <<markPrice, reindexed>>
      /\ ChargedOf(m)' = ChargedOf(m) \cup {Period(d)}
      /\ \A k \in Markets \ {m} : ChargedOf(k)' = ChargedOf(k)
  BY <1>2, <1>3, LandedStep
<1>5. PICK u : u = [market |-> m, at |-> d.to, old |-> d.stmt.old, new |-> d.stmt.new]
  OBVIOUS
<1>6. /\ u \in [market : Markets, at : Nat, old : FundingIndices, new : FundingIndices]
      /\ u.market = m /\ u.at = d.to /\ updates' = updates \cup {u}
  BY <1>1, <1>2, <1>4, <1>5 DEF SentSteps, FundingStatement
<1>7. records[m] \in KnownRecords
  BY <1>4 DEF Known, EngineInv, EngineShaped
<1>8. PICK r : r = [records[m] EXCEPT !.index = d.stmt.new]
  OBVIOUS
<1>9. /\ records' = [records EXCEPT ![m] = r] /\ r \in KnownRecords /\ r.index = d.stmt.new
      /\ r # Unknown
  <2>1. r \in KnownRecords /\ r.index = d.stmt.new
    BY <1>4, <1>7, <1>8 DEF KnownRecords, SentSteps, FundingStatement
  <2>2. r.price > 0
    BY <2>1, FundingEngineAssumption DEF KnownRecords
  <2>3. Unknown.price = 0
    BY DEF Unknown
  <2>4. records' = [records EXCEPT ![m] = r]
    BY <1>1, <1>2, <1>8
  <2> QED BY <2>1, <2>2, <2>3, <2>4
<1>10. EngineShaped'
  <2>1. records' \in [Markets -> KnownRecords \cup {Unknown}]
    BY <1>9 DEF EngineInv, EngineShaped
  <2>2. updates' \subseteq [market : Markets, at : Nat, old : FundingIndices, new : FundingIndices]
    BY <1>6 DEF EngineInv, EngineShaped
  <2>3. charged' \subseteq [market : Markets, from : Int, to : Nat]
    BY <1>1, <1>4 DEF EngineInv, EngineShaped
  <2>4. late' \subseteq SentSteps
    BY <1>3 DEF StepLands
  <2>5. UNCHANGED <<now, refresh, listing, markPrice>>
    BY <1>1, <1>4
  <2> QED BY <1>4, <2>1, <2>2, <2>3, <2>4, <2>5 DEF EngineInv, EngineShaped
<1>11. CycleShaped
  BY DEF EngineInv
<1>12. /\ CycleShaped' /\ cycle'.sent = {} /\ cycle'.todo \subseteq cycle.todo
       /\ cycle' = NoCycle \/ cycle'.at = cycle.at
       /\ cycle'.at \in {cycle.at, 0}
  <2>1. CASE cycle.todo \ {m} = {}
    <3>1. cycle' = [todo |-> {}, at |-> 0, rate |-> NoRate, sent |-> {}] /\ cycle' = NoCycle
      BY <1>1, <1>2, <2>1 DEF NoCycle
    <3> QED BY <3>1 DEF CycleShaped
  <2>2. CASE cycle.todo \ {m} # {}
    <3>1. cycle' = [cycle EXCEPT !.todo = cycle.todo \ {m}, !.sent = {}]
      BY <1>1, <1>2, <2>2
    <3> QED BY <1>11, <3>1 DEF CycleShaped
  <2> QED BY <2>1, <2>2
<1>13. cycle # NoCycle
  BY <1>1 DEF NoCycle
<1>14. d.to = cycle.at /\ cycle.at \in Nat /\ now \in Nat /\ cycle.at <= now
  BY <1>1, <1>11 DEF CycleShaped, EngineInv, EngineShaped, InTime
<1>15. InTime'
  BY <1>1, <1>3, <1>6, <1>12, <1>13, <1>14 DEF EngineInv, InTime, Free
<1>16. /\ \A k \in Markets : Known(k) => Known(k)'
       /\ \A k : SentOf(k)' = {}
       /\ UpdatesOf(m)' = UpdatesOf(m) \cup {u}
       /\ \A k \in Markets \ {m} : UpdatesOf(k)' = UpdatesOf(k)
  BY <1>1, <1>3, <1>6, <1>9, <1>12 DEF Known, SentOf, UpdatesOf, EngineInv, EngineShaped
<1>17. OnlyKnown'
  <2>1. ASSUME NEW k \in Markets, SentOf(k)' # {} \/ ChargedOf(k)' # {} \/ UpdatesOf(k)' # {}
        PROVE  Known(k)'
    <3>1. CASE k = m
      BY <1>4, <1>16, <3>1
    <3>2. CASE k # m
      BY <1>4, <1>16, <2>1, <3>2 DEF EngineInv, OnlyKnown
    <3> QED BY <3>1, <3>2
  <2>2. \A k \in cycle'.todo : Known(k)'
    BY <1>11, <1>12, <1>16 DEF EngineInv, OnlyKnown, CycleShaped
  <2>3. (refresh # NoRefresh => Known(refresh.market))'
    BY <1>1, <1>9 DEF EngineInv, OnlyKnown, EngineShaped, Known
  <2> QED BY <2>1, <2>2, <2>3 DEF OnlyKnown
<1>18. ASSUME NEW k \in Markets \ (adjusted' \cup reindexed') PROVE MarketOK(k)'
  <2>1. MarketOK(k)
    BY <1>1, <1>4, <1>18 DEF EngineInv
  <2>2. CASE k # m
    <3>1. Indexes(k)' = Indexes(k)
      BY <1>1, <1>9, <2>2 DEF Indexes, Known, EngineInv, EngineShaped
    <3>2. fundingIndex'[k] = fundingIndex[k]
      BY <1>4, <2>2 DEF EngineInv, EngineShaped
    <3>3. Rests(k)
      BY <1>4, <1>16, <2>2, <3>1, <3>2 DEF Rests
    <3> QED BY <1>1, <2>1, <3>3, RestingMarket
  <2>3. CASE k = m
    <3>1. ChargedOnce(m)'
      BY <1>1, <1>2, <1>3, <1>4, <1>18, <2>3, PeriodsStayApart
    <3>2. StepFits(m)'
      BY <1>16 DEF StepFits
    <3>3. KnowsCharges(m)'
      <4>1. fundingIndex[m] \in Indexes(m)
        <5>1. records[m].index \in Indexes(m)
          BY <1>4 DEF Indexes, Known, EngineInv, EngineShaped, KnownRecords
        <5>2. records[m].index = d.stmt.old
          BY <1>1, <1>2, <1>4, <1>18, <2>3, <5>1, PeriodIsNew
        <5> QED BY <1>4, <5>1, <5>2
      <4>2. \A a \in ChargedOf(m) : \E v \in UpdatesOf(m) : a.to <= v.at
        BY <2>1, <2>3, <4>1 DEF MarketOK, KnowsCharges
      <4>3. Period(d).to <= u.at
        BY <1>4, <1>6, <1>14
      <4> QED BY <1>4, <1>16, <4>2, <4>3 DEF KnowsCharges
    <3>4. OneIndex(m)'
      <4>1. CASE refresh = NoRefresh /\ ~(listing[m] > 0)
        BY <1>1, <4>1 DEF OneIndex, Indexes
      <4>2. CASE refresh # NoRefresh \/ listing[m] > 0
        <5>1. u.at = now' /\ u \in UpdatesOf(m)'
          BY <1>1, <1>4, <1>6, <1>13, <1>14, <1>16, <4>2 DEF EngineInv, InTime, Free
        <5> QED BY <5>1 DEF OneIndex
      <4> QED BY <4>1, <4>2
    <3> QED BY <2>3, <3>1, <3>2, <3>3, <3>4 DEF MarketOK
  <2> QED BY <2>2, <2>3
<1> QED BY <1>3, <1>10, <1>12, <1>15, <1>17, <1>18 DEF EngineInv, StepLands

\* Late: the contract's index is then none that the server may write.
LEMMA StepsLandLate ==
    ASSUME EngineInv, LateSettle
    PROVE  EngineInv'
<1>1. PICK d \in late :
        /\ SettleFunding(d.stmt)
        /\ charged' = charged \cup {Period(d)}
        /\ late' = {}
        /\ UNCHANGED <<now, records, updates, cycle, refresh, listing, adjusted>>
  BY DEF LateSettle
<1>2. PICK m : m = d.stmt.market
  OBVIOUS
<1>3. StepLands(d) /\ d \in cycle.sent \cup late /\ cycle.sent = {}
  BY <1>1 DEF EngineInv, StepLands
<1>4. /\ d \in SentSteps /\ m \in Markets /\ Known(m)
      /\ Period(d) \in [market : Markets, from : Int, to : Nat]
      /\ d.stmt.old = fundingIndex[m] /\ d.stmt.new # d.stmt.old
      /\ fundingIndex' = [fundingIndex EXCEPT ![m] = d.stmt.new]
      /\ fundingIndex' \in [Markets -> FundingIndices]
      /\ UNCHANGED <<markPrice, reindexed>>
      /\ ChargedOf(m)' = ChargedOf(m) \cup {Period(d)}
      /\ \A k \in Markets \ {m} : ChargedOf(k)' = ChargedOf(k)
  BY <1>2, <1>3, LandedStep
<1>5. EngineShaped' /\ CycleShaped'
  BY <1>1, <1>4 DEF EngineInv, EngineShaped, CycleShaped
<1>6. InTime'
  BY <1>1 DEF EngineInv, InTime, Free
<1>7. \A k : /\ SentOf(k)' = {} /\ Indexes(k)' = Indexes(k) /\ UpdatesOf(k)' = UpdatesOf(k)
             /\ Known(k)' = Known(k)
  BY <1>1, <1>3 DEF SentOf, Indexes, UpdatesOf, Known
<1>8. OnlyKnown'
  <2>1. ASSUME NEW k \in Markets, SentOf(k)' # {} \/ ChargedOf(k)' # {} \/ UpdatesOf(k)' # {}
        PROVE  Known(k)'
    <3>1. CASE k = m
      BY <1>4, <1>7, <3>1
    <3>2. CASE k # m
      BY <1>4, <1>7, <2>1, <3>2 DEF EngineInv, OnlyKnown
    <3> QED BY <3>1, <3>2
  <2>2. \A k \in cycle'.todo : Known(k)'
    BY <1>1, <1>7 DEF EngineInv, OnlyKnown
  <2>3. (refresh # NoRefresh => Known(refresh.market))'
    BY <1>1 DEF EngineInv, OnlyKnown, Known
  <2> QED BY <2>1, <2>2, <2>3 DEF OnlyKnown
<1>9. ASSUME NEW k \in Markets \ (adjusted' \cup reindexed') PROVE MarketOK(k)'
  <2>1. MarketOK(k)
    BY <1>1, <1>4, <1>9 DEF EngineInv
  <2>2. CASE k # m
    <3>1. fundingIndex'[k] = fundingIndex[k]
      BY <1>4, <2>2 DEF EngineInv, EngineShaped
    <3>2. Rests(k)
      BY <1>4, <1>7, <2>2, <3>1 DEF Rests
    <3> QED BY <1>1, <2>1, <3>2, RestingMarket
  <2>3. CASE k = m
    <3>1. ChargedOnce(m)'
      BY <1>1, <1>2, <1>3, <1>4, <1>9, <2>3, PeriodsStayApart
    <3>2. StepFits(m)'
      BY <1>7 DEF StepFits
    <3>3. KnowsCharges(m)'
      <4>1. \A i \in Indexes(m) : i = d.stmt.old
        BY <1>1, <1>2, <1>3, <1>4, <1>9, <2>3, PeriodIsNew
      <4>2. fundingIndex'[m] = d.stmt.new
        BY <1>4 DEF EngineInv, EngineShaped
      <4> QED BY <1>4, <1>7, <4>1, <4>2 DEF KnowsCharges
    <3>4. OneIndex(m)'
      BY <1>1, <1>7, <2>1, <2>3 DEF MarketOK, OneIndex
    <3> QED BY <2>3, <3>1, <3>2, <3>3, <3>4 DEF MarketOK
  <2> QED BY <2>2, <2>3
<1> QED BY <1>1, <1>3, <1>5, <1>6, <1>8, <1>9 DEF EngineInv

\* A step of the market records: whoever is known stays so, and each market that
\* is not excepted rests or is still in order.
LEMMA RecordsMove ==
    ASSUME EngineInv, UNCHANGED <<now, cycle, late, charged>>, EngineShaped', InTime',
           \A k \in Markets : Known(k) => Known(k)',
           (refresh # NoRefresh => Known(refresh.market))',
           \A k \in Markets : UpdatesOf(k)' = UpdatesOf(k) \/ Known(k)',
           adjusted \subseteq adjusted', reindexed \subseteq reindexed',
           \A k \in Markets \ (adjusted' \cup reindexed') : Rests(k) \/ MarketOK(k)'
    PROVE  EngineInv'
<1>1. \A k : SentOf(k)' = SentOf(k) /\ ChargedOf(k)' = ChargedOf(k)
  BY DEF SentOf, ChargedOf
<1>2. CycleShaped'
  BY DEF EngineInv, CycleShaped
<1>3. ASSUME NEW k \in Markets, SentOf(k)' # {} \/ ChargedOf(k)' # {} \/ UpdatesOf(k)' # {}
      PROVE  Known(k)'
  BY <1>1, <1>3 DEF EngineInv, OnlyKnown
<1>4. \A k \in cycle'.todo : Known(k)'
  BY DEF EngineInv, OnlyKnown, CycleShaped
<1>5. OnlyKnown'
  BY <1>3, <1>4 DEF OnlyKnown
<1>6. ASSUME NEW k \in Markets \ (adjusted' \cup reindexed') PROVE MarketOK(k)'
  BY <1>6, RestingMarket DEF EngineInv
<1> QED BY <1>2, <1>5, <1>6 DEF EngineInv

LEMMA ListsStart ==
    ASSUME EngineInv, NEW m \in Markets, StartList(m)
    PROVE  EngineInv'
<1>1. /\ Free /\ ~Known(m)
      /\ listing' = [listing EXCEPT ![m] = @ + 1]
      /\ UNCHANGED <<now, records, updates, cycle, refresh, late, charged, adjusted, reindexed,
                     fundingIndex, markPrice>>
  BY DEF StartList, marketVars
<1>2. listing \in [Markets -> Nat]
  BY DEF EngineInv, EngineShaped
<1>3. EngineShaped'
  BY <1>1, <1>2 DEF EngineInv, EngineShaped
<1>4. InTime'
  BY <1>1 DEF EngineInv, InTime, Free
<1>5. /\ \A k : Known(k)' = Known(k) /\ UpdatesOf(k)' = UpdatesOf(k)
      /\ (refresh # NoRefresh => Known(refresh.market))'
  BY <1>1 DEF Known, UpdatesOf, EngineInv, OnlyKnown
<1>6. \A k : SentOf(k)' = SentOf(k) /\ ChargedOf(k)' = ChargedOf(k)
  BY <1>1 DEF SentOf, ChargedOf
<1>7. ASSUME NEW k \in Markets PROVE Rests(k) \/ MarketOK(k)'
  <2>1. CASE k # m
    <3>1. Indexes(k)' = Indexes(k)
      BY <1>1, <1>2, <2>1 DEF Indexes, Known
    <3> QED BY <1>1, <1>5, <1>6, <3>1 DEF Rests
  <2>2. CASE k = m
    <3>1. SentOf(m)' = {} /\ ChargedOf(m)' = {}
      BY <1>1, <1>6 DEF EngineInv, OnlyKnown
    <3>2. \A i \in Indexes(m)' : i = FirstIndex
      BY <1>1 DEF Indexes, Known, EngineInv, OnlyKnown
    <3> QED BY <2>2, <3>1, <3>2 DEF MarketOK, OneIndex, StepFits, KnowsCharges, ChargedOnce
  <2> QED BY <2>1, <2>2
<1> QED BY <1>1, <1>3, <1>4, <1>5, <1>7, RecordsMove

LEMMA ListsFinish ==
    ASSUME EngineInv, NEW m \in Markets, NEW price \in Prices, FinishList(m, price)
    PROVE  EngineInv'
<1>1. PICK r : r = [price |-> price, index |-> FirstIndex]
  OBVIOUS
<1>2. /\ Free /\ listing[m] > 0
      /\ listing' = [listing EXCEPT ![m] = @ - 1]
      /\ records' = [records EXCEPT ![m] = r]
      /\ UNCHANGED <<now, updates, cycle, refresh, late, charged, adjusted, reindexed,
                     fundingIndex, markPrice>>
  BY <1>1 DEF FinishList, marketVars
<1>3. /\ r \in KnownRecords /\ r.index = FirstIndex /\ FirstIndex \in FundingIndices
      /\ r # Unknown
  BY <1>1, MarketAssumption, FundingEngineAssumption DEF KnownRecords, Unknown
<1>4. listing \in [Markets -> Nat] /\ records \in [Markets -> KnownRecords \cup {Unknown}]
  BY DEF EngineInv, EngineShaped
<1>5. EngineShaped'
  <2>1. listing' \in [Markets -> Nat]
    BY <1>2, <1>4
  <2>2. records' \in [Markets -> KnownRecords \cup {Unknown}]
    BY <1>2, <1>3, <1>4
  <2> QED BY <1>2, <2>1, <2>2 DEF EngineInv, EngineShaped
<1>6. InTime'
  BY <1>2 DEF EngineInv, InTime, Free
<1>7. \A k \in Markets : Known(k) => Known(k)'
  BY <1>2, <1>3, <1>4 DEF Known
<1>8. (refresh # NoRefresh => Known(refresh.market))'
  BY <1>2, <1>3, <1>4 DEF Known, EngineInv, EngineShaped, OnlyKnown
<1>9. \A k : /\ SentOf(k)' = SentOf(k) /\ ChargedOf(k)' = ChargedOf(k)
             /\ UpdatesOf(k)' = UpdatesOf(k)
  BY <1>2 DEF SentOf, ChargedOf, UpdatesOf
<1>10. ASSUME NEW k \in Markets PROVE Indexes(k)' \subseteq Indexes(k)
  <2>1. CASE k # m
    BY <1>2, <1>4, <2>1 DEF Indexes, Known
  <2>2. CASE k = m
    <3>1. FirstIndex \in Indexes(m)
      BY <1>2, <1>3 DEF Indexes
    <3>2. records'[m] = r
      BY <1>2, <1>4
    <3> QED BY <1>2, <1>3, <2>2, <3>1, <3>2 DEF Indexes
  <2> QED BY <2>1, <2>2
<1>11. \A k \in Markets : Rests(k)
  BY <1>2, <1>9, <1>10 DEF Rests
<1> QED BY <1>2, <1>5, <1>6, <1>7, <1>8, <1>9, <1>11, RecordsMove

LEMMA RefreshStarts ==
    ASSUME EngineInv, NEW m \in Markets, StartRefresh(m)
    PROVE  EngineInv'
<1>1. PICK r : r = [records[m] EXCEPT !.price = markPrice[m]]
  OBVIOUS
<1>2. /\ Free /\ refresh = NoRefresh /\ Known(m) /\ markPrice[m] # NoPrice
      /\ refresh' = [stage |-> "asked", market |-> m, record |-> r]
      /\ UNCHANGED <<now, records, updates, cycle, listing, late, charged, adjusted, reindexed,
                     fundingIndex, markPrice>>
  BY <1>1 DEF StartRefresh, marketVars
<1>3. records[m] \in KnownRecords /\ markPrice[m] \in Prices
  BY <1>2 DEF EngineInv, EngineShaped, Known
<1>4. r \in KnownRecords /\ r.index = records[m].index
  BY <1>1, <1>3 DEF KnownRecords
<1>5. EngineShaped'
  BY <1>2, <1>4 DEF EngineInv, EngineShaped
<1>6. InTime'
  BY <1>2 DEF EngineInv, InTime, Free
<1>7. /\ \A k : /\ SentOf(k)' = SentOf(k) /\ ChargedOf(k)' = ChargedOf(k)
                /\ UpdatesOf(k)' = UpdatesOf(k) /\ Known(k)' = Known(k)
      /\ (refresh # NoRefresh => Known(refresh.market))'
  BY <1>2 DEF SentOf, ChargedOf, UpdatesOf, Known
<1>8. ASSUME NEW k \in Markets PROVE Indexes(k)' \subseteq Indexes(k)
  BY <1>2, <1>4 DEF Indexes, Known
<1>9. \A k \in Markets : Rests(k)
  BY <1>2, <1>7, <1>8 DEF Rests
<1> QED BY <1>2, <1>5, <1>6, <1>7, <1>9, RecordsMove

\* A refresh goes on: what it read stays what it will write.
LEMMA RefreshMoves ==
    ASSUME EngineInv, refresh # NoRefresh,
           refresh' = NoRefresh \/
             (/\ refresh'.stage \in {"apply", "upsert"}
              /\ refresh' = [refresh EXCEPT !.stage = refresh'.stage]),
           UNCHANGED <<now, records, updates, cycle, listing, late, charged, adjusted, markPrice>>,
           fundingIndex' \in [Markets -> FundingIndices], reindexed \subseteq reindexed',
           \A k \in Markets \ reindexed' : fundingIndex'[k] = fundingIndex[k]
    PROVE  EngineInv'
<1>1. refresh \in [stage : {"asked", "apply", "upsert"}, market : Markets, record : KnownRecords]
  BY DEF EngineInv, EngineShaped
<1>2. refresh' = NoRefresh \/
        (/\ refresh' \in [stage : {"asked", "apply", "upsert"}, market : Markets,
                          record : KnownRecords]
         /\ refresh'.market = refresh.market /\ refresh'.record = refresh.record)
  BY <1>1
<1>3. EngineShaped'
  BY <1>2 DEF EngineInv, EngineShaped
<1>4. InTime'
  BY DEF EngineInv, InTime, Free
<1>5. /\ \A k : /\ SentOf(k)' = SentOf(k) /\ ChargedOf(k)' = ChargedOf(k)
                /\ UpdatesOf(k)' = UpdatesOf(k) /\ Known(k)' = Known(k)
  BY DEF SentOf, ChargedOf, UpdatesOf, Known
<1>6. (refresh # NoRefresh => Known(refresh.market))'
  BY <1>2, <1>5 DEF EngineInv, OnlyKnown, Known
<1>7. ASSUME NEW k \in Markets PROVE Indexes(k)' \subseteq Indexes(k)
  BY <1>2 DEF Indexes, Known
<1>8. \A k \in Markets \ (adjusted' \cup reindexed') : Rests(k)
  BY <1>5, <1>7 DEF Rests
<1> QED BY <1>3, <1>4, <1>5, <1>6, <1>8, RecordsMove

LEMMA RefreshIsAnswered ==
    ASSUME EngineInv, NEW ok \in BOOLEAN, AnswerRefresh(ok) \/ RefreshUpserts(ok)
    PROVE  EngineInv'
<1>1. refresh # NoRefresh
  <2>1. refresh.stage = "asked" \/ refresh.stage = "upsert"
    BY DEF AnswerRefresh, RefreshUpserts
  <2>2. NoRefresh.stage = "none"
    BY DEF NoRefresh
  <2> QED BY <2>1, <2>2
<1>2. refresh \in [stage : {"asked", "apply", "upsert"}, market : Markets, record : KnownRecords]
  BY <1>1 DEF EngineInv, EngineShaped
<1>3. fundingIndex \in [Markets -> FundingIndices]
  BY DEF EngineInv, EngineShaped
<1>4. CASE AnswerRefresh(ok)
  <2>1. UNCHANGED <<now, records, updates, cycle, listing, late, charged, adjusted, markPrice,
                    fundingIndex, reindexed>>
    BY <1>4 DEF AnswerRefresh, marketVars
  <2>2. PICK s \in {"apply", "upsert"} :
          refresh' = NoRefresh \/ refresh' = [refresh EXCEPT !.stage = s]
    <3>1. CASE ok
      <4>1. refresh' = [refresh EXCEPT !.stage = IF refresh.market \in activeMarkets
                                                 THEN "apply" ELSE "upsert"]
        BY <1>4, <3>1 DEF AnswerRefresh
      <4>2. refresh' = [refresh EXCEPT !.stage = "apply"] \/
            refresh' = [refresh EXCEPT !.stage = "upsert"]
        BY <4>1
      <4> QED BY <4>2
    <3>2. CASE ~ok
      BY <1>4, <3>2 DEF AnswerRefresh
    <3> QED BY <3>1, <3>2
  <2>3. refresh' = NoRefresh \/
          (/\ refresh'.stage \in {"apply", "upsert"}
           /\ refresh' = [refresh EXCEPT !.stage = refresh'.stage])
    BY <1>2, <2>2
  <2> QED BY <1>1, <1>3, <2>1, <2>3, RefreshMoves
<1>5. CASE RefreshUpserts(ok)
  <2>1. UNCHANGED <<now, records, updates, cycle, listing, late, charged, adjusted>>
    BY <1>5 DEF RefreshUpserts
  <2>2. CASE ok
    <3>1. Upsert(refresh.market, TRUE, refresh.record.index)
          /\ refresh' = [refresh EXCEPT !.stage = "apply"]
      BY <1>5, <2>2 DEF RefreshUpserts
    <3>2. PICK m \in Markets, i \in FundingIndices : m = refresh.market /\ i = refresh.record.index
      BY <1>2 DEF KnownRecords
    <3>3. /\ fundingIndex' = [fundingIndex EXCEPT ![m] = i]
          /\ reindexed' = IF i = fundingIndex[m] THEN reindexed ELSE reindexed \cup {m}
          /\ markPrice' = markPrice
      BY <3>1, <3>2 DEF Upsert
    <3>4. fundingIndex' \in [Markets -> FundingIndices]
      BY <1>3, <3>3
    <3>5. reindexed \subseteq reindexed'
      BY <3>3
    <3>6. \A k \in Markets \ reindexed' : fundingIndex'[k] = fundingIndex[k]
      BY <1>3, <3>3
    <3>7. /\ refresh'.stage \in {"apply", "upsert"}
          /\ refresh' = [refresh EXCEPT !.stage = refresh'.stage]
      BY <1>2, <3>1
    <3> QED BY <1>1, <2>1, <3>3, <3>4, <3>5, <3>6, <3>7, RefreshMoves
  <2>3. CASE ~ok
    <3>1. refresh' = NoRefresh /\ UNCHANGED <<fundingIndex, reindexed, markPrice>>
      BY <1>5, <2>3 DEF RefreshUpserts, marketVars
    <3> QED BY <1>1, <1>3, <2>1, <3>1, RefreshMoves
  <2> QED BY <2>2, <2>3
<1> QED BY <1>4, <1>5

LEMMA RefreshFinishes ==
    ASSUME EngineInv, FinishRefresh
    PROVE  EngineInv'
<1>1. refresh # NoRefresh
  BY DEF FinishRefresh, NoRefresh
<1>2. refresh \in [stage : {"asked", "apply", "upsert"}, market : Markets, record : KnownRecords]
  BY <1>1 DEF EngineInv, EngineShaped
<1>3. PICK m \in Markets, r \in KnownRecords : m = refresh.market /\ r = refresh.record
  BY <1>2
<1>4. /\ Free /\ refresh' = NoRefresh
      /\ records' = [records EXCEPT ![m] = r]
      /\ UNCHANGED <<now, updates, cycle, listing, late, charged, adjusted, reindexed,
                     fundingIndex, markPrice>>
  BY <1>3 DEF FinishRefresh, AppliedRecord, marketVars
<1>5. r # Unknown /\ r.index \in FundingIndices
  BY FundingEngineAssumption DEF KnownRecords, Unknown
<1>6. records \in [Markets -> KnownRecords \cup {Unknown}]
  BY DEF EngineInv, EngineShaped
<1>7. EngineShaped'
  <2>1. records' \in [Markets -> KnownRecords \cup {Unknown}]
    BY <1>4, <1>6
  <2> QED BY <1>4, <2>1 DEF EngineInv, EngineShaped
<1>8. InTime'
  BY <1>4 DEF EngineInv, InTime, Free
<1>9. \A k \in Markets : Known(k) => Known(k)'
  BY <1>4, <1>5, <1>6 DEF Known
<1>10. \A k : /\ SentOf(k)' = SentOf(k) /\ ChargedOf(k)' = ChargedOf(k)
              /\ UpdatesOf(k)' = UpdatesOf(k)
  BY <1>4 DEF SentOf, ChargedOf, UpdatesOf
<1>11. ASSUME NEW k \in Markets PROVE Indexes(k)' \subseteq Indexes(k)
  <2>1. CASE k # m
    BY <1>4, <1>6, <2>1 DEF Indexes, Known
  <2>2. CASE k = m
    <3>1. r.index \in Indexes(m)
      BY <1>1, <1>3, <1>5 DEF Indexes
    <3>2. records'[m] = r
      BY <1>4, <1>6
    <3>3. Indexes(m)' \subseteq {r.index} \cup {i \in Indexes(m) : listing[m] > 0 /\ i = FirstIndex}
      BY <1>4, <3>2 DEF Indexes
    <3> QED BY <2>2, <3>1, <3>3
  <2> QED BY <2>1, <2>2
<1>12. \A k \in Markets : Rests(k)
  BY <1>4, <1>10, <1>11 DEF Rests
<1>13. (refresh # NoRefresh => Known(refresh.market))'
  BY <1>4
<1> QED BY <1>4, <1>7, <1>8, <1>9, <1>10, <1>12, <1>13, RecordsMove

\* A market an operator moves is excepted from then on; the others rest.
LEMMA OperatorMoves ==
    ASSUME EngineInv, NEW m \in Markets, Known(m), Free,
           NEW r \in KnownRecords, records' \in {records, [records EXCEPT ![m] = r]},
           updates' \subseteq [market : Markets, at : Nat, old : FundingIndices,
                               new : FundingIndices],
           \A u \in updates' : u.at <= now,
           \A k \in Markets \ {m} : UpdatesOf(k)' = UpdatesOf(k),
           fundingIndex' \in [Markets -> FundingIndices],
           \A k \in Markets \ {m} : fundingIndex'[k] = fundingIndex[k],
           adjusted' = adjusted \cup {m}, reindexed \subseteq reindexed',
           UNCHANGED <<now, cycle, refresh, listing, late, charged, markPrice>>
    PROVE  EngineInv'
<1>1. r # Unknown
  BY FundingEngineAssumption DEF KnownRecords, Unknown
<1>2. records \in [Markets -> KnownRecords \cup {Unknown}]
  BY DEF EngineInv, EngineShaped
<1>3. EngineShaped'
  <2>1. records' \in [Markets -> KnownRecords \cup {Unknown}]
    BY <1>2
  <2> QED BY <2>1 DEF EngineInv, EngineShaped
<1>4. InTime'
  BY DEF EngineInv, InTime, Free
<1>5. /\ \A k \in Markets : Known(k) => Known(k)'
      /\ \A k \in Markets \ {m} : records'[k] = records[k]
  BY <1>1, <1>2 DEF Known
<1>6. (refresh # NoRefresh => Known(refresh.market))'
  BY <1>1, <1>2 DEF Known, EngineInv, EngineShaped, OnlyKnown
<1>7. \A k : SentOf(k)' = SentOf(k) /\ ChargedOf(k)' = ChargedOf(k)
  BY DEF SentOf, ChargedOf
<1>8. \A k \in Markets \ {m} : Indexes(k)' = Indexes(k)
  BY <1>5 DEF Indexes, Known
<1>9. \A k \in Markets \ {m} : Rests(k)
  BY <1>7, <1>8 DEF Rests
<1>10. \A k \in Markets : UpdatesOf(k)' = UpdatesOf(k) \/ Known(k)'
  BY <1>5
<1>11. \A k \in Markets \ (adjusted' \cup reindexed') : Rests(k)
  BY <1>9
<1>12. UNCHANGED <<now, cycle, late, charged>> /\ adjusted \subseteq adjusted'
  OBVIOUS
<1> QED BY <1>3, <1>4, <1>5, <1>6, <1>10, <1>11, <1>12, RecordsMove

LEMMA OperatorsUpdate ==
    ASSUME EngineInv, NEW m \in Markets, NEW index \in FundingIndices, NEW answered \in BOOLEAN,
           OperatorUpdates(m, index, answered)
    PROVE  EngineInv'
<1>1. /\ Free /\ Known(m) /\ Upsert(m, TRUE, index)
      /\ records' = IF answered THEN [records EXCEPT ![m].index = index] ELSE records
      /\ adjusted' = adjusted \cup {m}
      /\ UNCHANGED <<now, updates, cycle, refresh, listing, late, charged>>
  BY DEF OperatorUpdates
<1>2. records[m] \in KnownRecords
  BY <1>1 DEF Known, EngineInv, EngineShaped
<1>3. PICK r : r = [records[m] EXCEPT !.index = index]
  OBVIOUS
<1>4. r \in KnownRecords
  BY <1>2, <1>3 DEF KnownRecords
<1>5. records' \in {records, [records EXCEPT ![m] = r]}
  BY <1>1, <1>3
<1>6. /\ fundingIndex' = [fundingIndex EXCEPT ![m] = index]
      /\ UNCHANGED markPrice /\ reindexed \subseteq reindexed'
  BY <1>1 DEF Upsert
<1>7. fundingIndex \in [Markets -> FundingIndices]
  BY DEF EngineInv, EngineShaped
<1>8. /\ fundingIndex' \in [Markets -> FundingIndices]
      /\ \A k \in Markets \ {m} : fundingIndex'[k] = fundingIndex[k]
  BY <1>6, <1>7
<1>9. /\ updates' \subseteq [market : Markets, at : Nat, old : FundingIndices,
                             new : FundingIndices]
      /\ \A u \in updates' : u.at <= now
      /\ \A k : UpdatesOf(k)' = UpdatesOf(k)
  BY <1>1 DEF EngineInv, EngineShaped, InTime, UpdatesOf
<1> QED BY <1>1, <1>4, <1>5, <1>6, <1>8, <1>9, OperatorMoves

LEMMA OperatorsAdvance ==
    ASSUME EngineInv, NEW m \in Markets, NEW delta \in {-1, 1}, OperatorAdvances(m, delta)
    PROVE  EngineInv'
<1>1. PICK index : index = records[m].index + delta
  OBVIOUS
<1>2. PICK u : u = [market |-> m, at |-> now, old |-> records[m].index, new |-> index]
  OBVIOUS
<1>3. /\ Free /\ Known(m) /\ index \in FundingIndices
      /\ records' = [records EXCEPT ![m].index = index]
      /\ updates' = updates \cup {u}
      /\ adjusted' = adjusted \cup {m}
      /\ UNCHANGED <<now, cycle, refresh, listing, late, charged, fundingIndex, markPrice,
                     reindexed>>
  BY <1>1, <1>2 DEF OperatorAdvances, marketVars
<1>4. records[m] \in KnownRecords /\ now \in Nat
  BY <1>3 DEF Known, EngineInv, EngineShaped
<1>5. PICK r : r = [records[m] EXCEPT !.index = index]
  OBVIOUS
<1>6. r \in KnownRecords /\ records' = [records EXCEPT ![m] = r]
  BY <1>3, <1>4, <1>5 DEF KnownRecords
<1>7. /\ u \in [market : Markets, at : Nat, old : FundingIndices, new : FundingIndices]
      /\ u.market = m /\ u.at = now
  BY <1>2, <1>3, <1>4 DEF KnownRecords
<1>8. /\ updates' \subseteq [market : Markets, at : Nat, old : FundingIndices,
                             new : FundingIndices]
      /\ \A v \in updates' : v.at <= now
  BY <1>3, <1>4, <1>7 DEF EngineInv, EngineShaped, InTime
<1>9. \A k \in Markets \ {m} : UpdatesOf(k)' = UpdatesOf(k)
  BY <1>3, <1>7 DEF UpdatesOf
<1>10. fundingIndex' \in [Markets -> FundingIndices]
  BY <1>3 DEF EngineInv, EngineShaped
<1>11. records' \in {records, [records EXCEPT ![m] = r]}
  BY <1>6
<1> QED BY <1>3, <1>6, <1>8, <1>9, <1>10, <1>11, OperatorMoves

\* When time passes nothing is under way that holds another index.
LEMMA TimeMoves ==
    ASSUME EngineInv, TimePasses
    PROVE  EngineInv'
<1>1. /\ refresh = NoRefresh /\ \A m \in Markets : listing[m] = 0
      /\ now' = now + 1
      /\ UNCHANGED <<records, updates, cycle, refresh, listing, late, charged, adjusted, reindexed,
                     fundingIndex, markPrice>>
  BY DEF TimePasses, marketVars
<1>2. now \in Nat
  BY DEF EngineInv, EngineShaped
<1>3. EngineShaped' /\ CycleShaped'
  BY <1>1, <1>2 DEF EngineInv, EngineShaped, CycleShaped
<1>4. InTime'
  <2>1. cycle.at \in Nat /\ cycle.at <= now
    BY DEF EngineInv, CycleShaped, InTime
  <2>2. \A d \in late : d.to \in Nat /\ d.to <= now
    BY DEF EngineInv, EngineShaped, SentSteps, InTime
  <2>3. \A u \in updates : u.at \in Nat /\ u.at <= now
    BY DEF EngineInv, EngineShaped, InTime
  <2>4. ~(refresh' # NoRefresh \/ \E m \in Markets : listing'[m] > 0)
    BY <1>1
  <2> QED BY <1>1, <1>2, <2>1, <2>2, <2>3, <2>4 DEF InTime
<1>5. \A k : /\ SentOf(k)' = SentOf(k) /\ ChargedOf(k)' = ChargedOf(k)
             /\ UpdatesOf(k)' = UpdatesOf(k) /\ Known(k)' = Known(k)
             /\ Indexes(k)' = Indexes(k)
  BY <1>1 DEF SentOf, ChargedOf, UpdatesOf, Known, Indexes
<1>6. OnlyKnown'
  BY <1>1, <1>5 DEF EngineInv, OnlyKnown, Known
<1>7. ASSUME NEW k \in Markets \ (adjusted' \cup reindexed') PROVE MarketOK(k)'
  <2>1. MarketOK(k)
    BY <1>1, <1>7 DEF EngineInv
  <2>2. Rests(k)
    BY <1>1, <1>5 DEF Rests
  <2>3. \A i, j \in Indexes(k)' : i = j
    BY <1>1, <1>7 DEF Indexes
  <2> QED BY <2>1, <2>2, <2>3, RestingMarket
<1> QED BY <1>1, <1>3, <1>4, <1>6, <1>7 DEF EngineInv

LEMMA EngineInvNext == EngineInv /\ [Next]_vars => EngineInv'
<1> SUFFICES ASSUME EngineInv, [Next]_vars PROVE EngineInv'
  OBVIOUS
<1>1. CASE EngineStep
  BY <1>1, SamplesAreTaken, CyclesStart, MarketsAreSkipped, StepsAreSent, StepsAreSettled,
     CyclesFail, StepsLandLate DEF EngineStep
<1>2. CASE RecordStep
  <2>1. CASE \E m \in Markets : StartList(m) \/ StartRefresh(m)
    BY <2>1, ListsStart, RefreshStarts
  <2>2. CASE \E m \in Markets, price \in Prices : FinishList(m, price)
    BY <2>2, ListsFinish
  <2>3. CASE \E ok \in BOOLEAN : AnswerRefresh(ok) \/ RefreshUpserts(ok)
    BY <2>3, RefreshIsAnswered
  <2>4. CASE FinishRefresh
    BY <2>4, RefreshFinishes
  <2>5. CASE \E m \in Markets, index \in FundingIndices, answered \in BOOLEAN :
               OperatorUpdates(m, index, answered)
    BY <2>5, OperatorsUpdate
  <2>6. CASE \E m \in Markets, delta \in {-1, 1} : OperatorAdvances(m, delta)
    BY <2>6, OperatorsAdvance
  <2> QED BY <1>2, <2>1, <2>2, <2>3, <2>4, <2>5, <2>6 DEF RecordStep
<1>3. CASE ContractStep
  BY <1>3, ContractSteps
<1>4. CASE TimePasses
  BY <1>4, TimeMoves
<1>5. CASE UNCHANGED vars
  <2>1. /\ UNCHANGED <<now, cycle, late, adjusted, fundingIndex, markPrice, reindexed>>
        /\ ServerRests
    BY <1>5 DEF vars, serverVars, marketVars, ServerRests
  <2> QED BY <2>1, ContractsMove DEF EngineInv, EngineShaped
<1> QED BY <1>1, <1>2, <1>3, <1>4, <1>5 DEF Next

\* No stretch of time is charged twice to a market whose index nobody replaced by
\* hand, for any number of markets, prices, rates and intervals, whatever
\* answers are lost and whenever a settlement that was given up lands
\* (FundingEngineService.runOnce, MarketsService.refreshFromOracle and list).
THEOREM PeriodsAreChargedOnce == Spec => []PeriodsChargedOnce
<1>1. EngineInv => PeriodsChargedOnce
  <2> SUFFICES ASSUME EngineInv, NEW a \in charged, NEW b \in charged,
                      a.market = b.market, a.market \notin adjusted \cup reindexed
               PROVE  a = b \/ a.to <= b.from \/ b.to <= a.from
    BY DEF PeriodsChargedOnce
  <2>1. PICK m \in Markets : m = a.market
    BY DEF EngineInv, EngineShaped
  <2>2. a \in ChargedOf(m) /\ b \in ChargedOf(m)
    BY <2>1 DEF ChargedOf
  <2> QED BY <2>1, <2>2 DEF EngineInv, MarketOK, ChargedOnce
<1> QED BY <1>1, EngineInvInit, EngineInvNext, PTL DEF Spec
=============================================================================
