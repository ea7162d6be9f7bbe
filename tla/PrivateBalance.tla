---------------------------- MODULE PrivateBalance ----------------------------
(***************************************************************************)
(* One account's private balance, held in four places: the opening of each *)
(* note and its status in the browser, encrypted copies of the openings in *)
(* a table of the server, the server's list of notes and nullifiers, and   *)
(* the shielded pool.  No place sees the others change: each operation is  *)
(* a client task that goes on from one answer to the next, and several     *)
(* tasks run at once.                                                      *)
(*                                                                         *)
(* A request that relays a transaction holds the server until the relay    *)
(* reports, so it is one step; what the client does with the answer is     *)
(* another one when it matters in between.  A task may be abandoned at any *)
(* await - the tab is closed, or an answer is lost - and the storage of    *)
(* the browser may be wiped.                                               *)
(***************************************************************************)
EXTENDS Integers, Sequences, FiniteSets, SequencesExt, FiniteSetsExt

CONSTANTS
  Deposits, DepositAmount,  \* the deposits the user may make
  Groups, Margin,           \* the orders the user may place, with their margin
  NoOrder,
  MaxAttempts,              \* bound: notes made for one close or one claim
  MaxOperations,            \* bound: operations the user starts
  MaxTasks, MaxLoads,       \* bounds: user operations and page loads at once
  MaxMishaps                \* bound: tasks abandoned, relays failing, wipes

ASSUME PrivateBalanceAssumption == Margin \in [Groups -> Nat \ {0}]

VARIABLES
  wallet,   \* browser: note -> its status and the order that locks it
  tasks,    \* browser: the operations in progress
  backups,  \* server: the notes of which an encrypted copy is stored
  server,   \* server: the protocol store, as far as this account goes
  chain,    \* the shielded pool, the residuals and the positions
  started,  \* operations the user has started
  mishaps

counters == <<started, mishaps>>
balanceVars == <<wallet, tasks, backups, server, chain, counters>>

NoNote == [kind |-> "none"]

DepositNote(d) == [kind |-> "deposit", of |-> d, try |-> 1, amount |-> DepositAmount[d]]

\* What is left of the note that an order takes its margin from.
ChangeNote(c, part) ==
  IF part.note.amount = part.margin THEN NoNote
  ELSE [kind |-> "change", of |-> c, try |-> 1, amount |-> part.note.amount - part.margin]

CloseNote(c, k, margin) == [kind |-> "close", of |-> c, try |-> k, amount |-> margin]
ClaimNote(c, k, margin) == [kind |-> "claim", of |-> c, try |-> k, amount |-> margin]

NotesOf(note) == {note} \ {NoNote}

\* Orders are named by the group and the fragment they are, a residual by its
\* source and a mark.
ResidualOf(c) == Append(c, 0)
IsResidual(c) == Len(c) = 3

NoteStatuses == {"available", "locked", "pending", "claiming", "spent"}
Active == {"open", "partially-filled"}

BalanceTypeOK ==
  /\ \A n \in DOMAIN wallet : wallet[n].status \in NoteStatuses
  /\ \A c \in DOMAIN server.orders : server.orders[c].status \in Active \cup {"filled", "cancelled"}
  /\ Cardinality({t \in tasks : t.op # "load"}) <= MaxTasks
  /\ started \in 0..MaxOperations /\ mishaps \in 0..MaxMishaps

BalanceInit ==
  /\ wallet = <<>> /\ tasks = {} /\ backups = {}
  /\ server = [known |-> {}, spent |-> {}, pending |-> {}, relays |-> {},
               orders |-> <<>>, positions |-> <<>>]
  /\ chain = [pool |-> {}, nullified |-> {}, residuals |-> <<>>, claimed |-> <<>>,
              positions |-> {}, settled |-> <<>>]
  /\ started = 0 /\ mishaps = 0

-----------------------------------------------------------------------------
(* The notes of the browser.                                               *)

Extended(f, key, value) == [k \in DOMAIN f \cup {key} |-> IF k = key THEN value ELSE f[k]]

Entry(status, lock) == [status |-> status, lock |-> lock]

Saved(notes, note, status, lock) == Extended(notes, note, Entry(status, lock))

MarkedSpent(notes, note) ==
  IF note \in DOMAIN notes THEN [notes EXCEPT ![note].status = "spent"] ELSE notes

Locked(notes, note, order) ==
  IF note \in DOMAIN notes THEN [notes EXCEPT ![note] = Entry("locked", order)] ELSE notes

Available(notes) == {n \in DOMAIN notes : notes[n].status = "available"}
Unspent(notes) == {n \in DOMAIN notes : notes[n].status # "spent"}

\* The notes, the larger before the smaller.
LargestFirst(notes) ==
  {ordered \in SetToSeqs(notes) :
     \A i, j \in DOMAIN ordered : i < j => ordered[i].amount >= ordered[j].amount}

TotalOf(notes) == FoldSeq(LAMBDA n, sum : sum + n.amount, 0, notes)

\* The smallest note that suffices, or else the largest ones until it does.
Allocations(notes, amount) ==
  LET sufficient == {n \in Available(notes) : n.amount >= amount}
      least      == Min({n.amount : n \in sufficient})
      before(ordered, k) == TotalOf(SubSeq(ordered, 1, k - 1))
      part(ordered, k) ==
        [note |-> ordered[k], margin |-> Min({ordered[k].amount, amount - before(ordered, k)})]
      parts(ordered) ==
        [k \in 1..Cardinality({k \in DOMAIN ordered : before(ordered, k) < amount}) |->
           part(ordered, k)]
  IN  IF sufficient # {}
      THEN {<<[note |-> n, margin |-> amount]>> : n \in {n \in sufficient : n.amount = least}}
      ELSE {parts(ordered) : ordered \in
              {s \in LargestFirst(Available(notes)) : before(s, Len(s) + 1) >= amount}}

-----------------------------------------------------------------------------
(* Reconciliation: what orders of the server say of the notes they lock.   *)

OrderRow(orders, c) ==
  [id |-> c, status |-> orders[c].status, note |-> orders[c].note, source |-> orders[c].source]

\* A residual says of its source that it was filled in part.
ExactStatuses(rows, c) ==
  {row.status : row \in {row \in rows : row.id = c}}
    \cup IF \E row \in rows : row.source = c THEN {"partially-filled"} ELSE {}

Strongest(statuses) ==
  CHOOSE s \in statuses :
    \/ s \in {"filled", "cancelled"}
    \/ s = "partially-filled" /\ statuses \cap {"filled", "cancelled"} = {}
    \/ statuses = {s}

\* The order is not among the rows: its note is looked for among the others'.
FallbackStatus(rows, notes, c) ==
  LET byNote == {row.status : row \in {row \in rows :
                   row.note \in DOMAIN notes /\ notes[row.note] = Entry("locked", c)}}
  IN  IF byNote \cap Active # {} \/ byNote = {} THEN "open"
      ELSE IF "filled" \in byNote THEN "filled" ELSE "cancelled"

OrderStatus(rows, notes, c) ==
  LET exact == ExactStatuses(rows, c)
  IN  IF exact = {} THEN FallbackStatus(rows, notes, c) ELSE Strongest(exact)

\* Mutant: a cancelled order frees its change as well.
Resolved_FreesBoth(entry, status) ==
  IF status = "open" \/ entry.status \notin {"locked", "pending"} THEN entry
  ELSE IF entry.status = "pending" \/ status = "cancelled" THEN Entry("available", NoOrder)
  ELSE [entry EXCEPT !.status = "spent"]

\* The source of an order is spent when it is filled and its change comes
\* free; when it is cancelled it is the other way round.
Resolved(entry, status) ==
  IF status = "open" \/ entry.status \notin {"locked", "pending"} THEN entry
  ELSE IF (entry.status = "locked") = (status = "cancelled") THEN Entry("available", NoOrder)
  ELSE [entry EXCEPT !.status = "spent"]

Reconciled(notes, rows) ==
  [n \in DOMAIN notes |->
     IF notes[n].lock = NoOrder THEN notes[n]
     ELSE Resolved(notes[n], OrderStatus(rows, notes, notes[n].lock))]

-----------------------------------------------------------------------------
(* Tasks, their faults, and the backup every task that makes a note waits  *)
(* for before it asks for anything.                                        *)

Mishap == mishaps < MaxMishaps /\ mishaps' = mishaps + 1 /\ UNCHANGED started

Fault(outcome) == IF outcome = "done" THEN UNCHANGED counters ELSE Mishap
Outcomes == {"done", "notSent", "unreported"}

Starts(t) ==
  /\ Cardinality({u \in tasks : u.op # "load"}) < MaxTasks
  /\ started < MaxOperations /\ started' = started + 1
  /\ tasks' = tasks \cup {t}
  /\ UNCHANGED mishaps

Goes(t, next) == tasks' = (tasks \ {t}) \cup {next}
Ends(t) == tasks' = tasks \ {t}

GoesIf(outcome, t, next) == IF outcome = "done" THEN Goes(t, next) ELSE Ends(t)

Abandon(t) ==
  /\ Mishap /\ Ends(t)
  /\ UNCHANGED <<wallet, backups, server, chain>>

WipeBrowser ==
  /\ Mishap /\ wallet # <<>>
  /\ wallet' = <<>> /\ tasks' = {}
  /\ UNCHANGED <<backups, server, chain>>

\* The first copy of an opening that is stored stays.
WithCopies(copies, notes) == copies \cup notes

BackUp(t) ==
  /\ t.step = "backUp"
  /\ backups' = WithCopies(backups, {t.note})
  /\ Goes(t, [t EXCEPT !.step = "post"])
  /\ UNCHANGED <<wallet, server, chain, counters>>

\* What the server and the pool say of a note that is to be restored.
IsRestorable(n) ==
  /\ n \in server.known \cap chain.pool
  /\ n \notin server.spent \cup chain.nullified

ActiveOrderOn(n) ==
  LET on == {c \in DOMAIN server.orders :
               server.orders[c].note = n /\ server.orders[c].status \in Active}
  IN  IF on = {} THEN NoOrder ELSE CHOOSE c \in on : TRUE

\* A wallet that connects takes back the notes of the backups that this browser
\* does not have; those it has keep the status they have here.
SyncBackups ==
  LET restored == {n \in backups \ DOMAIN wallet : IsRestorable(n)}
      entry(n) == IF ActiveOrderOn(n) = NoOrder THEN Entry("available", NoOrder)
                  ELSE Entry("locked", ActiveOrderOn(n))
  IN  /\ restored # {}
      /\ wallet' = [n \in DOMAIN wallet \cup restored |->
                      IF n \in DOMAIN wallet THEN wallet[n] ELSE entry(n)]
      /\ UNCHANGED <<tasks, backups, server, chain, counters>>

-----------------------------------------------------------------------------
(* Deposits.                                                               *)

IsNewDeposit(n) == n \notin server.pending \cup server.known
Prepared(store, n) == [store EXCEPT !.pending = @ \cup {n}]

\* The deposit was prepared here, and its transaction relayed with success.
CanFinalize(n) == n \in (server.pending \cap server.relays) \ server.known
Credited(store, n) == [store EXCEPT !.known = @ \cup {n}]

StartDeposit(d) ==
  LET note == DepositNote(d)
  IN  /\ IsNewDeposit(note)
      /\ server' = Prepared(server, note)
      /\ wallet' = Saved(wallet, note, "pending", NoOrder)
      /\ backups' = WithCopies(backups, Unspent(wallet))
      /\ Starts([op |-> "deposit", step |-> "backUp", note |-> note])
      /\ UNCHANGED chain

Deposited(n) == [chain EXCEPT !.pool = @ \cup {n}]

RelaySignedDeposit(t, outcome) ==
  /\ t.op = "deposit" /\ t.step = "post"
  /\ Fault(outcome)
  /\ chain' = IF outcome = "notSent" THEN chain ELSE Deposited(t.note)
  /\ server' = IF outcome = "done" THEN [server EXCEPT !.relays = @ \cup {t.note}] ELSE server
  /\ GoesIf(outcome, t, [t EXCEPT !.step = "finalize"])
  /\ UNCHANGED <<wallet, backups>>

\* Mutant: the relay is not asked for.
FinalizeDeposit_Unrelayed(t) ==
  /\ t.op = "deposit" /\ t.step \in {"post", "finalize"} /\ t.note \in server.pending
  /\ server' = Credited(server, t.note)
  /\ Goes(t, [t EXCEPT !.step = "finish"])
  /\ UNCHANGED <<wallet, backups, chain, counters>>

FinalizeDeposit(t) ==
  /\ t.op = "deposit" /\ t.step = "finalize"
  /\ CanFinalize(t.note)
  /\ server' = Credited(server, t.note)
  /\ Goes(t, [t EXCEPT !.step = "finish"])
  /\ UNCHANGED <<wallet, backups, chain, counters>>

\* The last step of a deposit and of a close: the note may be used.
NoteIsCredited(t) ==
  /\ t.op \in {"deposit", "close"} /\ t.step = "finish"
  /\ wallet' = Saved(wallet, t.note, "available", NoOrder)
  /\ Ends(t)
  /\ UNCHANGED <<backups, server, chain, counters>>

-----------------------------------------------------------------------------
(* Orders.  An order takes its margin from one note, or from several in    *)
(* fragments that are submitted one after the other.                       *)

Fragment(t) == <<t.group, Len(t.sent) + 1>>

\* The server proves the membership of the notes it has; a note it does not have
\* would be written off, but none is available here (AvailableIsKnown).
HasMembership(n) == n \in server.known

StartOrder(g) ==
  /\ \A c \in DOMAIN server.orders : c[1] # g
  /\ \A t \in tasks : t.op = "order" => t.group # g
  /\ \A n \in DOMAIN wallet \cup backups : n.kind = "change" => n.of[1] # g
  /\ \E parts \in Allocations(wallet, Margin[g]) :
       /\ \A k \in DOMAIN parts : HasMembership(parts[k].note)
       /\ Starts([op |-> "order", step |-> "prove", note |-> NoNote,
                                group |-> g, left |-> parts, sent |-> <<>>])
  /\ UNCHANGED <<wallet, backups, server, chain>>

\* Mutant: the change is saved when the intent was accepted.
SaveChange_Late(t) ==
  /\ t.op = "order" /\ t.step = "prove"
  /\ Goes(t, [t EXCEPT !.step = "post"])
  /\ UNCHANGED <<wallet, backups, server, chain, counters>>

\* The proof is there: the change is saved before the intent is sent.
SaveChange(t) ==
  LET change == ChangeNote(Fragment(t), Head(t.left))
  IN  /\ t.op = "order" /\ t.step = "prove"
      /\ IF change = NoNote
         THEN /\ Goes(t, [t EXCEPT !.step = "post"])
              /\ UNCHANGED wallet
         ELSE /\ wallet' = Saved(wallet, change, "pending", NoOrder)
              /\ Goes(t, [t EXCEPT !.step = "backUp", !.note = change])
      /\ UNCHANGED <<backups, server, chain, counters>>

RestsOn(note) ==
  {c \in DOMAIN server.orders : server.orders[c].note = note /\ server.orders[c].status # "cancelled"}

CanPlaceOrder(note) == note \notin server.spent /\ RestsOn(note) = {}

PostIntent(t, outcome) ==
  LET c    == Fragment(t)
      note == Head(t.left).note
      ok   == CanPlaceOrder(note)
      order == [status |-> "open", note |-> note, source |-> NoOrder,
                change |-> ChangeNote(c, Head(t.left)), margin |-> Head(t.left).margin]
  IN  /\ t.op = "order" /\ t.step = "post"
      /\ Fault(outcome) /\ (outcome # "done" => ok)
      /\ server' = IF outcome = "done" /\ ok
                   THEN [server EXCEPT !.orders = Extended(@, c, order)] ELSE server
      /\ Goes(t, [t EXCEPT !.step = IF outcome = "done" /\ ok THEN "accepted"
                                    ELSE IF note \in server.spent THEN "spent" ELSE "refused"])
      /\ UNCHANGED <<wallet, backups, chain>>

IntentIsAccepted(t) ==
  LET c      == Fragment(t)
      change == ChangeNote(c, Head(t.left))
      kept   == IF change = NoNote THEN wallet ELSE Saved(wallet, change, "pending", c)
  IN  /\ t.op = "order" /\ t.step = "accepted"
      /\ wallet' = Locked(kept, Head(t.left).note, c)
      /\ IF Len(t.left) = 1 THEN Ends(t)
         ELSE Goes(t, [t EXCEPT !.step = "prove", !.left = Tail(@), !.sent = Append(@, c)])
      /\ UNCHANGED <<backups, server, chain, counters>>

\* A refusal that says the nullifier is spent writes the note off.  Whatever
\* the refusal, the fragments that were accepted are cancelled.
IntentIsRefused(t) ==
  /\ t.op = "order" /\ t.step \in {"spent", "refused"}
  /\ wallet' = IF t.step = "spent" THEN MarkedSpent(wallet, Head(t.left).note) ELSE wallet
  /\ IF t.sent = <<>> THEN Ends(t) ELSE Goes(t, [t EXCEPT !.step = "undo"])
  /\ UNCHANGED <<backups, server, chain, counters>>

IsCancellableOrder(c) ==
  /\ c \in DOMAIN server.orders /\ server.orders[c].status = "open"
  /\ c \notin DOMAIN chain.settled

CancelledRow(c) == {[id |-> c, status |-> "cancelled", note |-> NoNote, source |-> NoOrder]}

UndoFragment(t) ==
  LET c == Last(t.sent)
  IN  /\ t.op = "order" /\ t.step = "undo"
      /\ IF IsCancellableOrder(c)
         THEN /\ server' = [server EXCEPT !.orders[c].status = "cancelled"]
              /\ wallet' = Reconciled(wallet, CancelledRow(c))
         ELSE UNCHANGED <<server, wallet>>
      /\ IF Len(t.sent) = 1 THEN Ends(t) ELSE Goes(t, [t EXCEPT !.sent = Front(@)])
      /\ UNCHANGED <<backups, chain, counters>>

\* The user cancels an order; without the answer only the server knows.
CancelOrder(c, outcome) ==
  /\ IsCancellableOrder(c)
  /\ Fault(outcome) /\ outcome # "notSent"
  /\ server' = [server EXCEPT !.orders[c].status = "cancelled"]
  /\ wallet' = IF outcome = "done"
               THEN Reconciled(wallet, {[OrderRow(server.orders, c) EXCEPT !.status = "cancelled"]})
               ELSE wallet
  /\ UNCHANGED <<tasks, backups, chain>>

-----------------------------------------------------------------------------
(* A batch fills an order, in whole or leaving a residual: first on the    *)
(* chain, then in the store of the server.                                 *)

SettleOnchain(c, whole) ==
  LET order == server.orders[c]
  IN  /\ IsCancellableOrder(c)
      /\ order.note \notin chain.nullified
      /\ (IsResidual(c) => whole)
      /\ chain' = [chain EXCEPT
           !.nullified = @ \cup NotesOf(order.note),
           !.pool = @ \cup NotesOf(order.change),
           !.positions = @ \cup {c},
           !.residuals = IF whole THEN [r \in DOMAIN @ \ {c} |-> @[r]]
                         ELSE Extended(@, ResidualOf(c), order.margin),
           !.settled = Extended(@, c, whole)]
      /\ UNCHANGED <<wallet, tasks, backups, server, counters>>

CommitFill(c) ==
  LET order    == server.orders[c]
      whole    == chain.settled[c]
      residual == [order EXCEPT !.note = NoNote, !.source = c, !.change = NoNote]
      filled   == [server.orders EXCEPT ![c].status = IF whole THEN "filled" ELSE "partially-filled"]
  IN  /\ c \in DOMAIN chain.settled /\ server.orders[c].status = "open"
      /\ server' = [server EXCEPT
           !.known = @ \cup NotesOf(order.change),
           !.spent = @ \cup NotesOf(order.note),
           !.positions = Extended(@, c, "open"),
           !.orders = IF whole THEN filled ELSE Extended(filled, ResidualOf(c), residual)]
      /\ UNCHANGED <<wallet, tasks, backups, chain, counters>>

-----------------------------------------------------------------------------
(* The page loads the portfolio, and applies it when all it asked for is   *)
(* there.                                                                  *)

LoadPortfolio ==
  /\ Cardinality({t \in tasks : t.op = "load"}) < MaxLoads
  /\ server.orders # <<>>
  /\ tasks' = tasks \cup {[op |-> "load", step |-> "apply",
                           rows |-> {OrderRow(server.orders, c) : c \in DOMAIN server.orders}]}
  /\ UNCHANGED <<wallet, backups, server, chain, counters>>

ApplyPortfolio(t) ==
  /\ t.op = "load"
  /\ wallet' = Reconciled(wallet, t.rows)
  /\ Ends(t)
  /\ UNCHANGED <<backups, server, chain, counters>>

-----------------------------------------------------------------------------
(* Withdrawals: a proof is good for the note tree it was made against.     *)

StartWithdrawal(n) ==
  /\ n \in Available(wallet) /\ HasMembership(n)
  /\ Starts([op |-> "withdraw", step |-> "post", note |-> n, root |-> server.known])
  /\ UNCHANGED <<wallet, backups, server, chain>>

IsCurrentRoot(root) == root = server.known
CanWithdraw(n) == n \in chain.pool \ chain.nullified
Withdrawn(n) == [chain EXCEPT !.nullified = @ \cup {n}]
AddWithdrawal(store, n) == [store EXCEPT !.spent = @ \cup {n}]

PostWithdrawal(t, outcome) ==
  LET ok == IsCurrentRoot(t.root) /\ CanWithdraw(t.note)
  IN  /\ t.op = "withdraw" /\ t.step = "post"
      /\ Fault(outcome) /\ (outcome # "done" => ok)
      /\ chain' = IF ok /\ outcome # "notSent" THEN Withdrawn(t.note) ELSE chain
      /\ server' = IF ok /\ outcome = "done" THEN AddWithdrawal(server, t.note) ELSE server
      /\ IF ok /\ outcome = "done" THEN Goes(t, [t EXCEPT !.step = "finish"]) ELSE Ends(t)
      /\ UNCHANGED <<wallet, backups>>

NoteIsWithdrawn(t) ==
  /\ t.op = "withdraw" /\ t.step = "finish"
  /\ wallet' = MarkedSpent(wallet, t.note)
  /\ Ends(t)
  /\ UNCHANGED <<backups, server, chain, counters>>

-----------------------------------------------------------------------------
(* Closing a position returns its margin in a new note.                    *)

Tried(note) == note \in DOMAIN wallet \cup backups

IsOpen(c) == server.positions[c] = "open"

StartClose(c, k) ==
  LET note == CloseNote(c, k, server.orders[c].margin)
  IN  /\ IsOpen(c)
      /\ ~Tried(note) /\ (k > 1 => Tried([note EXCEPT !.try = k - 1]))
      /\ wallet' = Saved(wallet, note, "pending", NoOrder)
      /\ backups' = WithCopies(backups, Unspent(wallet))
      /\ Starts([op |-> "close", step |-> "backUp", note |-> note])
      /\ UNCHANGED <<server, chain>>

ClosedOnchain(c, n) == [chain EXCEPT !.positions = @ \ {c}, !.pool = @ \cup {n}]
AddPositionClose(store, c, n) == [store EXCEPT !.positions[c] = "closed", !.known = @ \cup {n}]

\* The mark price has moved since the proof was made: another attempt needs
\* another proof, and makes another note.
CloseIsRefused(t) ==
  /\ t.op = "close" /\ t.step = "post"
  /\ Ends(t)
  /\ UNCHANGED <<wallet, backups, server, chain, counters>>

PostClose(t, outcome) ==
  LET c  == t.note.of
      ok == IsOpen(c) /\ c \in chain.positions
  IN  /\ t.op = "close" /\ t.step = "post"
      /\ Fault(outcome) /\ (outcome # "done" => ok)
      /\ chain' = IF ok /\ outcome # "notSent" THEN ClosedOnchain(c, t.note) ELSE chain
      /\ server' = IF ok /\ outcome = "done" THEN AddPositionClose(server, c, t.note) ELSE server
      /\ IF ok /\ outcome = "done" THEN Goes(t, [t EXCEPT !.step = "finish"]) ELSE Ends(t)
      /\ UNCHANGED <<wallet, backups>>

-----------------------------------------------------------------------------
(* What a cancelled residual holds is claimed into a note.  The browser    *)
(* keeps that note through all attempts, for the first that lands binds    *)
(* the claim to it.                                                        *)

ClaimsOf(c) == {n \in DOMAIN wallet : n.kind = "claim" /\ n.of = c}
Claiming(c) == {n \in ClaimsOf(c) : wallet[n].status = "claiming"}

ClaimedNote(c) == IF c \in DOMAIN chain.claimed THEN chain.claimed[c] ELSE NoNote
HoldsMargin(c) == c \in DOMAIN chain.residuals

\* A residual is claimed once, by its owner, after it was cancelled.
IsClaimable(c) ==
  /\ IsResidual(c) /\ server.orders[c].status = "cancelled"
  /\ ClaimedNote(c) # NoNote \/ HoldsMargin(c)

ClaimedOnchain(c, n) ==
  [chain EXCEPT !.claimed = Extended(@, c, n), !.pool = @ \cup {n},
                !.residuals = [r \in DOMAIN @ \ {c} |-> @[r]]]

StartClaim(c) ==
  /\ IsClaimable(c)
  /\ Starts([op |-> "claim", step |-> "choose", note |-> NoNote,
                           order |-> c, claimed |-> ClaimedNote(c)])
  /\ UNCHANGED <<wallet, backups, server, chain>>

\* Mutant: what an earlier attempt has saved is given up for a new note.
ChooseClaim_Afresh(t) ==
  /\ t.op = "claim" /\ t.step = "choose"
  /\ tasks' = (tasks \ {t}) \cup IF t.claimed = NoNote THEN {[t EXCEPT !.step = "make"]} ELSE {}
  /\ wallet' = IF t.claimed # NoNote THEN wallet
               ELSE [n \in DOMAIN wallet |->
                       IF n \in Claiming(t.order) THEN Entry("spent", NoOrder) ELSE wallet[n]]
  /\ UNCHANGED <<backups, server, chain, counters>>

\* A claim that landed is finished with its note or not at all; otherwise a
\* note that is still claiming is used again, and a new one made without.
ChooseClaim(t) ==
  LET existing == IF t.claimed # NoNote THEN {t.claimed} \cap ClaimsOf(t.order) ELSE Claiming(t.order)
  IN  /\ t.op = "claim" /\ t.step = "choose"
      /\ IF existing # {}
         THEN \E n \in existing : Goes(t, [t EXCEPT !.step = "backUp", !.note = n])
         ELSE IF t.claimed = NoNote THEN Goes(t, [t EXCEPT !.step = "make"]) ELSE Ends(t)
      /\ UNCHANGED <<wallet, backups, server, chain, counters>>

MakeClaimNote(t, k) ==
  LET note == ClaimNote(t.order, k, server.orders[t.order].margin)
  IN  /\ t.op = "claim" /\ t.step = "make"
      /\ ~Tried(note) /\ (k > 1 => Tried([note EXCEPT !.try = k - 1]))
      /\ wallet' = Saved(wallet, note, "claiming", NoOrder)
      /\ Goes(t, [t EXCEPT !.step = "backUp", !.note = note])
      /\ UNCHANGED <<backups, server, chain, counters>>

\* The server credits a claim that landed in an earlier attempt.
PostClaim(t, outcome) ==
  LET c      == t.order
      landed == ClaimedNote(c)
      ok     == landed = t.note \/ (landed = NoNote /\ HoldsMargin(c))
      lands  == ok /\ landed = NoNote /\ outcome # "notSent"
  IN  /\ t.op = "claim" /\ t.step = "post"
      /\ Fault(outcome) /\ (outcome # "done" => ok)
      /\ chain' = IF lands THEN ClaimedOnchain(c, t.note) ELSE chain
      /\ server' = IF ok /\ outcome = "done" THEN Credited(server, t.note) ELSE server
      /\ IF ok /\ outcome = "done" THEN Goes(t, [t EXCEPT !.step = "finish"]) ELSE Ends(t)
      /\ UNCHANGED <<wallet, backups>>

\* The other notes that claim the same residual are given up.
ClaimIsConfirmed(t) ==
  /\ t.op = "claim" /\ t.step = "finish"
  /\ wallet' = [n \in DOMAIN wallet |->
                  IF n = t.note THEN [wallet[n] EXCEPT !.status = "available"]
                  ELSE IF n \in Claiming(t.order) THEN Entry("spent", NoOrder) ELSE wallet[n]]
  /\ Ends(t)
  /\ UNCHANGED <<backups, server, chain, counters>>

-----------------------------------------------------------------------------
Request ==
  \/ \E d \in Deposits : StartDeposit(d)
  \/ \E g \in Groups : StartOrder(g)
  \/ \E c \in DOMAIN server.orders, outcome \in Outcomes : CancelOrder(c, outcome)
  \/ LoadPortfolio \/ SyncBackups
  \/ \E n \in DOMAIN wallet : StartWithdrawal(n)
  \/ \E c \in DOMAIN server.positions, k \in 1..MaxAttempts : StartClose(c, k)
  \/ \E c \in DOMAIN server.orders : StartClaim(c)

Post(t, outcome) ==
  \/ RelaySignedDeposit(t, outcome) \/ PostIntent(t, outcome) \/ PostWithdrawal(t, outcome)
  \/ PostClose(t, outcome) \/ PostClaim(t, outcome)

Step(t) ==
  \/ \E outcome \in Outcomes : Post(t, outcome)
  \/ BackUp(t) \/ FinalizeDeposit(t) \/ NoteIsCredited(t)
  \/ SaveChange(t) \/ IntentIsAccepted(t) \/ IntentIsRefused(t) \/ UndoFragment(t)
  \/ ApplyPortfolio(t) \/ NoteIsWithdrawn(t) \/ CloseIsRefused(t)
  \/ ChooseClaim(t) \/ (\E k \in 1..MaxAttempts : MakeClaimNote(t, k)) \/ ClaimIsConfirmed(t)
  \/ Abandon(t)

BalanceNext ==
  \/ Request
  \/ \E t \in tasks : Step(t)
  \/ \E c \in DOMAIN server.orders, whole \in BOOLEAN : SettleOnchain(c, whole)
  \/ \E c \in DOMAIN server.orders : CommitFill(c)
  \/ WipeBrowser

BalanceSpec == BalanceInit /\ [][BalanceNext]_balanceVars

-----------------------------------------------------------------------------
\* Every note in the pool that is not spent can be opened by its owner: the
\* opening is in the browser or in the backups, whatever was lost on the way.
OpeningsSurvive ==
  \A n \in chain.pool \ chain.nullified : n \in DOMAIN wallet \cup backups

\* The server counts as money only what is in the pool, and as spent only what
\* the pool has nullified.
ServerFollowsPool ==
  /\ server.known \subseteq chain.pool
  /\ server.spent \subseteq chain.nullified

\* What the browser offers for orders and withdrawals the server can prove the
\* membership of: no note comes free before it is money.
AvailableIsKnown == Available(wallet) \subseteq server.known

\* A claim that landed and that the server has not credited can still be
\* finished from the browser that holds its note.
ClaimsCanBeFinished ==
  \A c \in DOMAIN chain.claimed :
    LET n == chain.claimed[c]
    IN  n \in DOMAIN wallet \ server.known => wallet[n].status = "claiming"

\* What an account has in the pool it can reach: it can open its notes and finish
\* its claims, whatever was abandoned, failed or wiped on the way.
MoneyStaysInReach == OpeningsSurvive /\ ClaimsCanBeFinished
=============================================================================
