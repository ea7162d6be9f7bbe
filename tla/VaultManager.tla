---------------------------- MODULE VaultManager ----------------------------
(***************************************************************************)
(* The operator's maker manager: it funds the maker from the vault and     *)
(* brings the principal back.  A pass, under a lease, first reconciles one *)
(* closed position, then drains the allocations of a series that a         *)
(* provider wants to leave, and last funds a new allocation.  It shares    *)
(* the two collections with the server and the chain with everyone; a pass *)
(* may fail or be killed between any two of its calls.                     *)
(*                                                                         *)
(* The vault is the contract of LiquidityVault with one series.  Two       *)
(* managers at once, which takes a lost lease, are left out.               *)
(***************************************************************************)
EXTENDS MakerOrders

CONSTANTS
  Owners, MaxSeries, MaxBalance, MaxShares, AllocationLimits,   \* of LiquidityVault
  Capital,      \* what each provider has deposited
  Requests,     \* the shares a provider may ask to redeem at once
  MinimumReady, \* --ready-usdc
  MaxEpoch      \* bound: the funding intervals

VARIABLES
  vaultPaused, allocationLimit, vaultBalance, currentSeries, liquid, principal, supply,
  otherLiquid, otherPrincipal, otherShares, shares, pending, pendingTotal, ownerSeries,
  wallet,     \* chain: the maker's tokens
  receipts,   \* output note -> its vault settlement
  mgr,        \* the pass in progress
  clock, funded   \* the current funding interval, the last one claimed

Vault == INSTANCE LiquidityVault

vaultState == <<vaultPaused, allocationLimit, vaultBalance, currentSeries, liquid, principal, supply,
                otherLiquid, otherPrincipal, otherShares, shares, pending, pendingTotal, ownerSeries>>
noteVars   == <<notes, allocations>>
chainVars  == <<vaultState, wallet>>
vars == <<noteVars, orderVars, chainVars, receipts, mgr, clock, funded>>

Series0 == 0

Off == [step |-> "idle", epoch |-> 0, todo |-> {}, alloc |-> None, queue |-> {},
        note |-> None, draining |-> FALSE, expected |-> 0]

ManagerSteps ==
  {"idle", "reconciling", "finalizing", "withdrawing", "withdrawal", "recovering",
   "proposing", "submitting", "applying", "marking", "confirming",
   "listing", "draining", "reserving", "collecting", "checking", "settling", "verifying",
   "planning", "allocating", "recording", "depositing", "landing", "registering"}

TypeOK ==
  /\ OrdersTypeOK /\ Vault!VaultTypeOK
  /\ wallet \in Nat /\ clock \in 0..MaxEpoch /\ funded \in 0..MaxEpoch
  /\ mgr.step \in ManagerSteps /\ mgr.todo \subseteq DOMAIN allocations
  /\ mgr.queue \subseteq DOMAIN notes /\ DOMAIN receipts \subseteq DOMAIN notes
  /\ \A a \in DOMAIN allocations : allocations[a].status \in {"outstanding", "draining", "closed"}

Init ==
  /\ OrdersInit
  /\ vaultPaused = FALSE /\ allocationLimit \in AllocationLimits
  /\ currentSeries = 0
  /\ vaultBalance = Capital * Cardinality(Owners)
  /\ supply = [s \in 0..MaxSeries |-> IF s = Series0 THEN Capital * Cardinality(Owners) ELSE 0]
  /\ shares = [s \in 0..MaxSeries |-> [o \in Owners |-> IF s = Series0 THEN Capital ELSE 0]]
  /\ liquid = [s \in 1..MaxSeries |-> 0] /\ principal = [s \in 0..MaxSeries |-> 0]
  /\ otherLiquid = 0 /\ otherPrincipal = 0 /\ otherShares = 0
  /\ pending = [s \in 0..MaxSeries |-> [o \in Owners |-> 0]]
  /\ pendingTotal = [s \in 0..MaxSeries |-> 0]
  /\ ownerSeries = [o \in Owners |-> {}]
  /\ wallet = 0 /\ receipts = <<>> /\ mgr = Off /\ clock = 1 /\ funded = 0

Out == principal[Series0]

\* What MongoDB records as out agrees with the chain.
RecordsAgree == RecordedPrincipal(allocations) = Out

Unclosed == {a \in DOMAIN allocations : allocations[a].status # "closed"}

To(step) == mgr' = [mgr EXCEPT !.step = step]

\* A failure ends the pass, but while it drains only this allocation's turn.
Failed == mgr' = IF mgr.draining
                 THEN [mgr EXCEPT !.step = "draining", !.queue = {}, !.note = None, !.draining = FALSE]
                 ELSE Off

\* A relayed call is answered, lands unanswered, or does not land.
Outcomes == {"done", "unanswered", "refused"}
Lands(outcome) == outcome # "refused"

-----------------------------------------------------------------------------
(* Reconciling one closed position.                                        *)

StartPass ==
  /\ mgr.step = "idle"
  /\ mgr' = [Off EXCEPT !.step = "reconciling", !.epoch = clock]
  /\ UNCHANGED <<noteVars, orderVars, chainVars, receipts, clock, funded>>

\* The closed positions of the vault against a client's closed one, whose
\* output is not settled and that the pass can bring further.
Reconcilable ==
  {q \in DOMAIN saved :
     LET output == OutputOf(q)
     IN  /\ IsMakerPosition(saved, q) /\ saved[q].status = "closed"
         /\ ~IsMakerPosition(saved, PairOf(q)) /\ saved[PairOf(q)].status = "closed"
         /\ output \in DOMAIN notes /\ ~notes[output].settled
         /\ LET n == notes[output].parent
                a == notes[output].allocation
            IN  /\ notes[n].status = "spent" /\ ~notes[n].recovered /\ notes[n].by = saved[q].order
                /\ saved[q].margin <= notes[n].amount
                /\ allocations[a].status # "closed"
                /\ notes[output].status = "pending" \/ allocations[a].status = "outstanding"}

NextStepOf(note) ==
  CASE note.status = "pending"                     -> "finalizing"
    [] note.status \in {"draining", "withdrawing"} -> "withdrawing"
    [] note.status = "spent" /\ note.recovered     -> "proposing"
    [] OTHER                                       -> "idle"

Reconcile(q) ==
  LET output == OutputOf(q)
  IN  /\ mgr.step = "reconciling" /\ q \in Reconcilable
      /\ mgr' = [mgr EXCEPT !.step = NextStepOf(notes[output]), !.note = output,
                            !.alloc = notes[output].allocation, !.queue = {output}]
      /\ UNCHANGED <<noteVars, orderVars, chainVars, receipts, clock, funded>>

NothingToReconcile ==
  /\ mgr.step = "reconciling" /\ Reconcilable = {}
  /\ To("listing")
  /\ UNCHANGED <<noteVars, orderVars, chainVars, receipts, clock, funded>>

\* The server may have been faster.
FinalizeOutput ==
  /\ mgr.step = "finalizing"
  /\ notes' = IF notes[mgr.note].status = "pending" THEN FinalizedOutput(notes, mgr.note) ELSE notes
  /\ mgr' = Off
  /\ UNCHANGED <<allocations, orderVars, chainVars, receipts, clock, funded>>

\* A withdrawal takes the note before it looks whether the note is spent.
TakeNote(n) ==
  /\ mgr.step = "withdrawing" /\ n \in mgr.queue
  /\ notes' = [notes EXCEPT ![n].status = "withdrawing"]
  /\ IF n \in spentNotes THEN Failed ELSE mgr' = [mgr EXCEPT !.step = "withdrawal", !.note = n]
  /\ UNCHANGED <<allocations, orderVars, chainVars, receipts, clock, funded>>

WithdrawNote(outcome) ==
  /\ mgr.step = "withdrawal" /\ mgr.note \in inPool
  /\ IF outcome = "done" THEN To("recovering") ELSE Failed
  /\ wallet' = IF Lands(outcome) THEN wallet + notes[mgr.note].amount ELSE wallet
  /\ spentNotes' = IF Lands(outcome) THEN spentNotes \cup {mgr.note} ELSE spentNotes
  /\ Fault(outcome)
  /\ UNCHANGED <<noteVars, bookVars, server, closing, inPool, ended, vaultState, receipts, clock, funded>>

RecordRecovery ==
  LET left == mgr.queue \ {mgr.note}
  IN  /\ mgr.step = "recovering"
      /\ notes' = Recovered(notes, mgr.note)
      /\ mgr' = IF left # {} THEN [mgr EXCEPT !.step = "withdrawing", !.queue = left]
                ELSE IF mgr.draining THEN [mgr EXCEPT !.step = "checking", !.queue = {}] ELSE Off
      /\ UNCHANGED <<allocations, orderVars, chainVars, receipts, clock, funded>>

-----------------------------------------------------------------------------
(* Returning the principal of one closed position, with a receipt.         *)

PrincipalOf(output) == positions[output[2]].margin

\* A receipt is proposed once.  One that was not seen submitted is left to the
\* operator, a submitted one is taken up again.
ProposeReceipt ==
  LET n == mgr.note
      allocation == allocations[mgr.alloc]
  IN  /\ mgr.step = "proposing"
      /\ IF n \in DOMAIN receipts
         THEN /\ receipts' = receipts
              /\ IF receipts[n].status = "pending" THEN mgr' = Off ELSE To("applying")
         ELSE IF /\ allocation.status = "outstanding" /\ PrincipalOf(n) <= allocation.remaining
                 /\ RecordsAgree /\ wallet >= notes[n].amount
         THEN /\ receipts' = Stored(receipts, n,
                   [status |-> "pending", before |-> allocation.remaining, out |-> Out,
                    liquid |-> vaultBalance, wallet |-> wallet])
              /\ To("submitting")
         ELSE receipts' = receipts /\ mgr' = Off
      /\ UNCHANGED <<noteVars, orderVars, chainVars, clock, funded>>

SubmitReceipt(outcome) ==
  LET n == mgr.note
      r == receipts[n]
  IN  /\ mgr.step = "submitting"
      /\ IF Out = r.out /\ vaultBalance = r.liquid /\ wallet = r.wallet
         THEN /\ IF Lands(outcome)
                 THEN Vault!Settle(Series0, PrincipalOf(n), notes[n].amount) /\ wallet' = wallet - notes[n].amount
                 ELSE UNCHANGED chainVars
              /\ IF outcome = "done"
                 THEN receipts' = [receipts EXCEPT ![n].status = "submitted"] /\ To("applying")
                 ELSE receipts' = receipts /\ mgr' = Off
              /\ Fault(outcome)
         ELSE outcome = "done" /\ mgr' = Off /\ UNCHANGED <<chainVars, receipts, mishaps>>
      /\ UNCHANGED <<noteVars, bookVars, server, closing, poolVars, clock, funded>>

\* The chain must show this settlement and nothing else; the principal of the
\* allocation is lowered once.
ApplyReceipt ==
  LET n == mgr.note
      r == receipts[n]
      after == r.before - PrincipalOf(n)
      a == mgr.alloc
      reconciles == /\ Out = r.out - PrincipalOf(n)
                    /\ vaultBalance = r.liquid + notes[n].amount /\ wallet = r.wallet - notes[n].amount
      unapplied == allocations[a].remaining = r.before /\ allocations[a].status = "outstanding"
  IN  /\ mgr.step = "applying"
      /\ IF reconciles /\ (allocations[a].remaining = after \/ unapplied)
         THEN allocations' = [allocations EXCEPT ![a].remaining = after] /\ To("marking")
         ELSE allocations' = allocations /\ mgr' = Off
      /\ UNCHANGED <<notes, orderVars, chainVars, receipts, clock, funded>>

MarkSettled ==
  /\ mgr.step = "marking"
  /\ notes' = [notes EXCEPT ![mgr.note].settled = TRUE]
  /\ To("confirming")
  /\ UNCHANGED <<allocations, orderVars, chainVars, receipts, clock, funded>>

\* The last receipt of an allocation closes it.
ConfirmReceipt ==
  LET n == mgr.note
      isLast == receipts[n].before = PrincipalOf(n)
  IN  /\ mgr.step = "confirming"
      /\ IF isLast /\ ~CanClose(notes, mgr.alloc)
         THEN UNCHANGED <<allocations, receipts>>
         ELSE /\ receipts' = [receipts EXCEPT ![n].status = "confirmed"]
              /\ allocations' = IF isLast THEN ClosedAllocation(allocations, mgr.alloc) ELSE allocations
      /\ mgr' = Off
      /\ UNCHANGED <<notes, orderVars, chainVars, clock, funded>>

-----------------------------------------------------------------------------
(* Draining the allocations of a series with a pending redemption.         *)

ListAllocations ==
  /\ mgr.step = "listing"
  /\ mgr' = [mgr EXCEPT !.step = "draining",
       !.todo = {a \in Unclosed : pendingTotal[Series0] > 0 \/ allocations[a].status = "draining"}]
  /\ UNCHANGED <<noteVars, orderVars, chainVars, receipts, clock, funded>>

BeginDrain(a) ==
  /\ mgr.step = "draining" /\ a \in mgr.todo
  /\ allocations' = [allocations EXCEPT ![a].status = "draining"]
  /\ mgr' = [mgr EXCEPT !.step = "reserving", !.todo = @ \ {a}, !.alloc = a, !.draining = TRUE]
  /\ UNCHANGED <<notes, orderVars, chainVars, receipts, clock, funded>>

ReserveNotes ==
  /\ mgr.step = "reserving"
  /\ notes' = DrainingNotes(notes, mgr.alloc)
  /\ To("collecting")
  /\ UNCHANGED <<allocations, orderVars, chainVars, receipts, clock, funded>>

CollectNotes ==
  LET owned == NotesOf(notes, mgr.alloc)
      queue == {n \in owned : notes[n].status \in {"draining", "withdrawing"}}
  IN  /\ mgr.step = "collecting"
      /\ IF \E n \in owned : notes[n].status \in {"pending", "available"} THEN Failed
         ELSE mgr' = [mgr EXCEPT !.step = IF queue = {} THEN "checking" ELSE "withdrawing", !.queue = queue]
      /\ UNCHANGED <<noteVars, orderVars, chainVars, receipts, clock, funded>>

CheckRecovered ==
  /\ mgr.step = "checking"
  /\ IF \E n \in NotesOf(notes, mgr.alloc) : notes[n].status # "spent" THEN Failed ELSE To("settling")
  /\ UNCHANGED <<noteVars, orderVars, chainVars, receipts, clock, funded>>

\* Variant of PositionsAreReconciled: an open position does not matter.
PositionsAreReconciled_WhileOpen(a) ==
  \A n \in NotesOf(notes, a) : notes[n].by # None =>
    \E q \in DOMAIN saved : /\ saved[q].order = notes[n].by
                            /\ saved[q].status = "closed" => OutputOf(q) \in DOMAIN notes

\* No position of the allocation is open, and each closed one has its output
\* among the notes.
PositionsAreReconciled(a) ==
  \A n \in NotesOf(notes, a) : notes[n].by # None =>
    LET opened == {q \in DOMAIN saved : saved[q].order = notes[n].by}
    IN  /\ opened # {}
        /\ \A q \in opened : saved[q].status # "open"
        /\ \E q \in opened : saved[q].status = "closed" => OutputOf(q) \in DOMAIN notes

\* What was recovered pays for all the principal that is left; nothing at all
\* is recorded as a loss.
SettleAllocation(outcome) ==
  LET a == mgr.alloc
      remaining == allocations[a].remaining
      returned  == AmountOf(notes, Returnable(notes, a))
  IN  /\ mgr.step = "settling"
      /\ IF CanClose(notes, a) /\ PositionsAreReconciled(a) /\ remaining > 0 /\ RecordsAgree /\ wallet >= returned
         THEN /\ IF ~Lands(outcome) THEN UNCHANGED chainVars
                 ELSE /\ IF returned = 0 THEN Vault!RecordLoss(Series0, remaining)
                                         ELSE Vault!Settle(Series0, remaining, returned)
                      /\ wallet' = wallet - returned
              /\ IF outcome = "done"
                 THEN mgr' = [mgr EXCEPT !.step = "verifying", !.expected = vaultBalance + returned]
                 ELSE Failed
              /\ Fault(outcome)
         ELSE outcome = "done" /\ Failed /\ UNCHANGED <<chainVars, mishaps>>
      /\ UNCHANGED <<noteVars, bookVars, server, closing, poolVars, receipts, clock, funded>>

VerifySettlement ==
  /\ mgr.step = "verifying"
  /\ allocations' = IF vaultBalance = mgr.expected /\ CanClose(notes, mgr.alloc)
                    THEN ClosedAllocation(allocations, mgr.alloc) ELSE allocations
  /\ Failed
  /\ UNCHANGED <<notes, orderVars, chainVars, receipts, clock, funded>>

Drained ==
  /\ mgr.step = "draining" /\ mgr.todo = {}
  /\ To("planning")
  /\ UNCHANGED <<noteVars, orderVars, chainVars, receipts, clock, funded>>

-----------------------------------------------------------------------------
(* Funding.                                                                *)

Share(amount) == (amount * allocationLimit) \div 10000

Ready == AmountOf(notes, Eligible(notes, allocations, Out))

\* One pool target or the minimum, within the limit of the vault.
TopUp ==
  LET target == Max({Share(vaultBalance + Out), MinimumReady})
  IN  Min({target - Ready, Share(vaultBalance + Out) - Out, vaultBalance})

Incomplete == {a \in Unclosed : allocations[a].registered # allocations[a].amount}

\* An allocation that is not registered is finished first, if it is clear how.
PlanFunding ==
  LET a == CHOOSE x \in Incomplete : TRUE
      linked == NotesOf(notes, a)
      finish == CASE linked = {} -> "depositing"
                  [] \E n \in linked : linked = {n} /\ notes[n].status = "available" -> "registering"
                  [] OTHER -> "idle"
      mayAllocate == /\ \A n \in DOMAIN notes : notes[n].status = "pending" => notes[n].allocation \notin Unclosed
                     /\ \A x \in Unclosed : allocations[x].status # "draining"
                     /\ pendingTotal[Series0] = 0 /\ clock = mgr.epoch /\ TopUp > 0
  IN  /\ mgr.step = "planning"
      /\ mgr' = CASE ~RecordsAgree \/ Cardinality(Incomplete) > 1 -> Off
                  [] RecordsAgree /\ Cardinality(Incomplete) = 1 ->
                       IF allocations[a].status = "outstanding" /\ allocations[a].registered = 0
                       THEN [mgr EXCEPT !.step = finish, !.alloc = a, !.note = Deposited(a)] ELSE Off
                  [] OTHER -> IF mayAllocate THEN [mgr EXCEPT !.step = "allocating", !.expected = TopUp] ELSE Off
      /\ UNCHANGED <<noteVars, orderVars, chainVars, receipts, clock, funded>>

\* One allocation per interval; the vault refuses it while a redemption is
\* pending.
Allocate(outcome) ==
  /\ mgr.step = "allocating"
  /\ funded' = IF funded < mgr.epoch THEN mgr.epoch ELSE funded
  /\ IF funded < mgr.epoch /\ pendingTotal[Series0] = 0 /\ supply[Series0] # 0 /\ RecordsAgree
     THEN /\ IF Lands(outcome)
             THEN Vault!Allocate(Series0, mgr.expected) /\ wallet' = wallet + mgr.expected
             ELSE UNCHANGED chainVars
          /\ IF outcome = "done" THEN mgr' = [mgr EXCEPT !.step = "recording", !.alloc = mgr.epoch] ELSE mgr' = Off
          /\ Fault(outcome)
     ELSE outcome = "done" /\ mgr' = Off /\ UNCHANGED <<chainVars, mishaps>>
  /\ UNCHANGED <<noteVars, bookVars, server, closing, poolVars, receipts, clock>>

RecordAllocation ==
  /\ mgr.step = "recording"
  /\ allocations' = Stored(allocations, mgr.alloc, NewAllocation(mgr.expected))
  /\ To("depositing")
  /\ UNCHANGED <<notes, orderVars, chainVars, receipts, clock, funded>>

\* The note is written before the deposit is submitted; the server that
\* prepares it may fail first.
PrepareDeposit(outcome) ==
  LET a == mgr.alloc
      canPay == wallet >= allocations[a].amount
  IN  /\ mgr.step = "depositing" /\ outcome # "unanswered"
      /\ ~canPay => outcome = "done"
      /\ IF canPay /\ outcome = "done"
         THEN /\ notes' = Stored(notes, Deposited(a), NewNote(allocations[a].amount, a))
              /\ mgr' = [mgr EXCEPT !.step = "landing", !.note = Deposited(a)]
         ELSE notes' = notes /\ mgr' = Off
      /\ Fault(outcome)
      /\ UNCHANGED <<allocations, bookVars, server, closing, poolVars, chainVars, receipts, clock, funded>>

LandDeposit(outcome) ==
  LET n == mgr.note
  IN  /\ mgr.step = "landing"
      /\ wallet' = IF Lands(outcome) THEN wallet - notes[n].amount ELSE wallet
      /\ inPool' = IF Lands(outcome) THEN inPool \cup {n} ELSE inPool
      /\ IF outcome = "done"
         THEN notes' = [notes EXCEPT ![n].status = "available"] /\ To("registering")
         ELSE notes' = notes /\ mgr' = Off
      /\ Fault(outcome)
      /\ UNCHANGED <<allocations, bookVars, server, closing, spentNotes, ended, vaultState, receipts, clock, funded>>

RegisterNote ==
  LET a == mgr.alloc
      n == mgr.note
  IN  /\ mgr.step = "registering"
      /\ allocations' = IF notes[n].status = "available" /\ n \in inPool \ spentNotes /\ RecordsAgree
                        THEN [allocations EXCEPT ![a].registered = notes[n].amount, ![a].notes = {n}]
                        ELSE allocations
      /\ mgr' = Off
      /\ UNCHANGED <<notes, orderVars, chainVars, receipts, clock, funded>>

ManagerCrashes ==
  /\ mgr.step # "idle" /\ Mishap
  /\ mgr' = Off
  /\ UNCHANGED <<noteVars, bookVars, server, closing, poolVars, chainVars, receipts, clock, funded>>

-----------------------------------------------------------------------------
(* The providers.                                                          *)

RequestRedemption(o, n) ==
  /\ Vault!RequestWithdraw(o, Series0, n)
  /\ UNCHANGED <<noteVars, orderVars, wallet, receipts, mgr, clock, funded>>

ClaimRedemption(o) ==
  /\ Vault!ClaimWithdrawal(o, Series0)
  /\ UNCHANGED <<noteVars, orderVars, wallet, receipts, mgr, clock, funded>>

NextInterval ==
  /\ clock < MaxEpoch
  /\ clock' = clock + 1
  /\ UNCHANGED <<noteVars, orderVars, chainVars, receipts, mgr, funded>>

-----------------------------------------------------------------------------

ManagerStep ==
  \/ StartPass \/ NothingToReconcile \/ FinalizeOutput \/ RecordRecovery
  \/ \E q \in DOMAIN saved : Reconcile(q)
  \/ \E n \in mgr.queue : TakeNote(n)
  \/ \E a \in mgr.todo : BeginDrain(a)
  \/ ProposeReceipt \/ ApplyReceipt \/ MarkSettled \/ ConfirmReceipt
  \/ ListAllocations \/ ReserveNotes \/ CollectNotes \/ CheckRecovered \/ VerifySettlement \/ Drained
  \/ PlanFunding \/ RecordAllocation \/ RegisterNote
  \/ \E outcome \in Outcomes :
       WithdrawNote(outcome) \/ SubmitReceipt(outcome) \/ SettleAllocation(outcome)
         \/ Allocate(outcome) \/ PrepareDeposit(outcome) \/ LandDeposit(outcome)

Server ==
  OrderStep(Out) /\ UNCHANGED <<chainVars, receipts, mgr, clock, funded>>

Next ==
  \/ Server
  \/ ManagerStep \/ ManagerCrashes
  \/ \E o \in Owners : ClaimRedemption(o) \/ \E n \in Requests : RequestRedemption(o, n)
  \/ NextInterval

\* The server and the manager are loops that never stop.  A trader closes a
\* position in the end, and a close in progress is answered.
Fairness ==
  /\ []<>(server.step = "idle") /\ []<>(server.step # "idle")
  /\ WF_vars(ManagerStep)
  /\ WF_vars(Flush /\ UNCHANGED <<chainVars, receipts, mgr, clock, funded>>)
  /\ WF_vars(\E p \in DOMAIN positions :
       /\ \/ \E out \in Outs : PrepareClose(p, out)
          \/ RelayClose(p, "done") \/ FinalizeClose(p)
       /\ UNCHANGED <<chainVars, receipts, mgr, clock, funded>>)
  /\ \A o \in Owners : WF_vars(ClaimRedemption(o))

Spec == Init /\ [][Next]_vars
FairSpec == Spec /\ Fairness

-----------------------------------------------------------------------------

\* A note that an open order of the vault rests on is locked by that order and
\* by no other and is not spent; so no two orders share a note, and neither a
\* drain nor a withdrawal takes a note from under an order.
\* Code: claimMakerNote, reapOrphanedMakerIntents, beginVaultMakerDrain, withdrawMakerNotes.
ReservedOnce ==
  \A o \in DOMAIN orders : (IsMaker(o) /\ IsOpen(o) /\ orders[o].note \in DOMAIN notes) =>
    LET n == orders[o].note
    IN  notes[n].status = "locked" /\ notes[n].by = o /\ n \notin spentNotes

\* A closed allocation is settled for good: it has no note left to trade or to
\* withdraw, no open position, and all that its notes were worth left the
\* maker's hands.
\* Code: settleVaultMaker, closeVaultMakerAllocation, settleVaultMakerPosition.
ClosedIsEmpty ==
  \A a \in DOMAIN allocations : allocations[a].status = "closed" =>
    \A n \in NotesOf(notes, a) :
      /\ n \in spentNotes
      /\ \A q \in DOMAIN positions : IsMakerPosition(positions, q) /\ positions[q].order = notes[n].by
                                       => positions[q].status # "open"

\* Between two passes, as long as nothing failed and the records agree with the
\* vault, the maker's wallet holds
\* the closed positions' notes that were withdrawn and not yet returned to the
\* vault, and nothing else: no receipt or drain returns a note twice or
\* forgets one.
\* Code: settleVaultMakerPosition, settleVaultMaker, provisionOnce.
WalletIsAccounted ==
  mgr.step = "idle" /\ mishaps = 0 /\ RecordsAgree =>
    wallet = AmountOf(notes, {n \in DOMAIN notes : notes[n].recovered /\ ~notes[n].settled
                                                     /\ notes[n].allocation \in Unclosed})

\* What was allocated is accounted for, open or closed: a closed allocation left
\* nothing behind, and the wallet has what the open ones are to give back.
\* Code: provisionOnce, settleVaultMaker, closeVaultMakerAllocation.
AllocationsAreAccounted == ClosedIsEmpty /\ WalletIsAccounted

\* Between two passes, and as long as nothing failed, the principal that the
\* records say is out is out on the chain.
\* Code: the manager stops for good when they differ, "series ... principal
\* differs from recorded vault allocations".
RecordsFollowVault == mgr.step = "idle" /\ mishaps = 0 => RecordsAgree

\* A redemption is served once every trader has closed, whatever the server
\* and the manager were at when it was asked for, unless something fails.
\* Code: provisionOnce, beginVaultMakerDrain, claim_withdrawal.
RedemptionIsServed ==
  pendingTotal[Series0] > 0 ~> (pendingTotal[Series0] = 0 \/ mishaps > 0)

=============================================================================
