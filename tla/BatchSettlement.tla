--------------------------- MODULE BatchSettlement ---------------------------
(***************************************************************************)
(* contracts/batch-settlement and the contracts it drives in one           *)
(* transaction: the intent registry, the shielded pool and the position    *)
(* tree, behind governance and the proof ledger.                           *)
(*                                                                         *)
(* settle applies a batch that the matcher proved: it spends the note      *)
(* nullifiers of the filled intents, records change notes, consumes the    *)
(* intents or rolls them over to residuals, appends the new positions and  *)
(* accrues fees.  claim_residual turns the margin left of a cancelled      *)
(* residual into a note.  A call that panics anywhere reverts everything,  *)
(* so each is one action whose guard is the conjunction of all the checks. *)
(*                                                                         *)
(* A statement of the batch circuit is a record                            *)
(*   batch      the batch id together with the market id                   *)
(*   fills      sequence of Fill (module IntentRegistry)                   *)
(*   makers, takers   the two sides of each execution                      *)
(*   nullifiers, changes, positions   sequences, as the contract gets them *)
(*   feeConfig, gross, rebate, insurance, treasury                         *)
(* The residual and volume totals are bound by the proof and only stored.  *)
(***************************************************************************)
EXTENDS IntentRegistry, ShieldedPool, PositionState, FiniteSets

CONSTANTS
    Batches,          \* keys of the Batch entries
    NoBatch,          \* the batch is not settled
    BatchCircuit,
    MaxPublicItems,   \* MAX_PUBLIC_ITEMS (the code: 8)
    FeeConfig         \* the fee schedule compiled into the contract

Settlement == [statement : Provable[BatchCircuit], firstIndex : Nat]

\* The fields have the types of the arguments of settle.
ASSUME BatchSettlementAssumption ==
    /\ IsFiniteSet(Batches)
    /\ MaxPublicItems \in Nat
    /\ NoBatch \notin Settlement
    /\ \A s \in Provable[BatchCircuit] :
          /\ s.batch \in Batches
          /\ s.fills \in Seq(Fill)
          /\ s.makers \in Seq(Intents) /\ s.takers \in Seq(Intents)
          /\ s.nullifiers \in Seq(Nullifiers)
          /\ s.changes \in Seq(Commitments)
          /\ s.positions \in Seq(Positions)
          /\ {s.gross, s.rebate, s.insurance, s.treasury} \subseteq Int

VARIABLES
    batches,          \* Batch: the settled statement and its first leaf index
    residualMargin,   \* ResidualMargin: intent -> margin left, 0 when absent
    claimedResidual,  \* ClaimedResidual: intent -> note, NoCommitment when absent
    feeToken          \* whether FeeToken is set

batchVars == <<batches, residualMargin, claimedResidual, feeToken>>
vars == <<gateVars, registryVars, poolVars, positionVars, batchVars>>

BatchContract == "batch-settlement"

BatchTypeOK ==
    /\ batches \in [Batches -> Settlement \cup {NoBatch}]
    /\ residualMargin \in [Intents -> Nat]
    /\ claimedResidual \in [Intents -> Commitments \cup {NoCommitment}]
    /\ feeToken \in BOOLEAN

TypeOK ==
    /\ GateTypeOK
    /\ RegistryTypeOK
    /\ PoolTypeOK
    /\ PositionTypeOK
    /\ BatchTypeOK

IsSettled(b) == batches[b] # NoBatch

-----------------------------------------------------------------------------
(* The checks of settle, in the order of the code.                         *)

ValidFees(s) ==
    /\ s.feeConfig = FeeConfig
    /\ \A fee \in {s.gross, s.rebate, s.insurance, s.treasury} : fee >= 0
    /\ s.gross = s.rebate + s.insurance + s.treasury

PublicItems(items) == Len(items) \in 1..MaxPublicItems

ValidCounts(s) ==
    /\ PublicItems(s.positions) /\ PublicItems(s.nullifiers) /\ PublicItems(s.fills)
    /\ PublicItems(s.makers) /\ PublicItems(s.takers)
    /\ Len(s.changes) <= MaxPublicItems
    /\ Len(s.makers) = Len(s.takers)
    /\ 2 * Len(s.makers) = Len(s.positions)

\* validate_active_intents: distinct, active, under the registered payload.
ValidIntents(fills) ==
    /\ \A j, k \in DOMAIN fills : fills[j].intent = fills[k].intent => j = k
    /\ \A k \in DOMAIN fills :
          /\ IsActive(fills[k].intent)
          /\ payloadOf[fills[k].intent] = fills[k].payload

\* validate_execution_priority: the maker was there first.
ValidPriority(s) ==
    \A e \in DOMAIN s.makers :
        /\ s.makers[e] # s.takers[e]
        /\ {s.makers[e], s.takers[e]} \subseteq Filled(s.fills)
        /\ sequence[s.makers[e]] < sequence[s.takers[e]]

\* Variant of ValidResiduals: the margin left before is not looked up.
ValidResiduals_MayGrow(fills) ==
    \A k \in DOMAIN fills :
        LET f == fills[k] IN
        IF f.residual = NoIntent
           THEN f.residualPayload = NoPayload /\ f.margin = 0
           ELSE f.residualPayload # NoPayload /\ f.margin > 0

\* The checks of consume_filled_intents on the margins and payloads it is given:
\* a residual that is filled again must keep less than it had.
ValidResiduals(fills) ==
    \A k \in DOMAIN fills :
        LET f == fills[k]
            previous == residualMargin[f.intent]
        IN  /\ previous > 0 => f.margin < previous
            /\ IF f.residual = NoIntent
                  THEN f.residualPayload = NoPayload /\ f.margin = 0
                  ELSE f.residualPayload # NoPayload /\ f.margin > 0

\* Variant of MoveResidualMargins: a filled intent keeps its entry.
MoveResidualMargins_KeepsSource(fills) ==
    residualMargin' = [i \in Intents |->
        IF i \in Residuals(fills) THEN fills[SourceOf(fills, i)].margin
        ELSE residualMargin[i]]

\* consume_filled_intents: the margin entries of the filled intents are removed
\* and the residuals get theirs.
MoveResidualMargins(fills) ==
    residualMargin' = [i \in Intents |->
        IF i \in Filled(fills) THEN 0
        ELSE IF i \in Residuals(fills) THEN fills[SourceOf(fills, i)].margin
        ELSE residualMargin[i]]

\* accrue_fees of the settlement contract: nothing to accrue is no call.
AccrueBatchFees(s) ==
    IF s.insurance = 0 /\ s.treasury = 0
       THEN UNCHANGED feeReserve
       ELSE feeToken /\ AccrueFees(s.insurance, s.treasury)

\* checked_market_price only lets a settlement through while the market is
\* active and has a fresh positive price: it is not, at any moment the market's
\* administrator or the oracle chooses, which here is a step not taken.
Settle(s) ==
    /\ ValidFees(s)
    /\ ValidCounts(s)
    /\ ProofAccepted(BatchCircuit, s)
    /\ ~IsSettled(s.batch)
    /\ ValidIntents(s.fills)
    /\ ValidPriority(s)
    /\ poolWriter
    /\ RecordNullifiers(s.nullifiers)
    /\ RecordCommitments(s.changes)
    /\ ValidResiduals(s.fills)
    /\ MoveResidualMargins(s.fills)
    /\ FillIntents(s.fills)
    /\ AppendMany(BatchContract, s.positions)
    /\ AccrueBatchFees(s)
    /\ batches' = [batches EXCEPT ![s.batch] =
                     [statement |-> s, firstIndex |-> Len(leaves)]]
    /\ UNCHANGED <<gateVars, withdrawals, poolBalance, feePaid, feeDestinations,
                   poolWriter, positionSpent, treeIsPoseidon2, positionWriters,
                   claimedResidual, feeToken>>

\* claim_residual, by the administrator: the Cancelled flag does not say who set
\* it, the margin entry does: a fill removes it.
ClaimResidual(i, c) ==
    /\ i \in cancelled
    /\ residualMargin[i] > 0
    /\ feeToken
    /\ DepositClaim(residualMargin[i], c)
    /\ residualMargin' = [residualMargin EXCEPT ![i] = 0]
    /\ claimedResidual' = [claimedResidual EXCEPT ![i] = c]
    /\ UNCHANGED <<gateVars, registryVars, positionVars, nullifiers, withdrawals,
                   poolBalance, feeReserve, feePaid, feeDestinations, poolWriter,
                   batches, feeToken>>

\* configure_fee_token, by the administrator, once.
ConfigureFeeToken ==
    /\ ~feeToken
    /\ feeToken' = TRUE
    /\ UNCHANGED <<gateVars, registryVars, poolVars, positionVars, batches,
                   residualMargin, claimedResidual>>

-----------------------------------------------------------------------------

Init ==
    /\ GateInit
    /\ RegistryInit
    /\ PoolInit
    /\ PositionInit
    /\ batches = [b \in Batches |-> NoBatch]
    /\ residualMargin = [i \in Intents |-> 0]
    /\ claimedResidual = [i \in Intents |-> NoCommitment]
    /\ feeToken = ("setup" \notin Administration)

GateStep ==
    GateNext /\ UNCHANGED <<registryVars, poolVars, positionVars, batchVars>>

RegistryStep ==
    /\ \/ \E i \in Intents, p \in Payloads : Submit(i, p)
       \/ \E i \in Intents : Cancel(i)
    /\ UNCHANGED <<gateVars, poolVars, positionVars, batchVars>>

PoolStep ==
    PoolNext /\ UNCHANGED <<gateVars, registryVars, positionVars, batchVars>>

PositionStep ==
    PositionNext /\ UNCHANGED <<gateVars, registryVars, poolVars, batchVars>>

Next ==
    \/ GateStep
    \/ RegistryStep
    \/ PoolStep
    \/ PositionStep
    \/ \E s \in Provable[BatchCircuit] : Settle(s)
    \/ \E i \in Intents, c \in Commitments : ClaimResidual(i, c)
    \/ "setup" \in Administration /\ ConfigureFeeToken

Spec == Init /\ [][Next]_vars

-----------------------------------------------------------------------------
(* Properties, and the mapping to IntentLineage.                           *)

SettledBatches == {b \in Batches : IsSettled(b)}

\* The intents that some settled batch filled, wholly or in part.
FilledIntents == UNION {Filled(batches[b].statement.fills) : b \in SettledBatches}

\* ResidualLedger: an entry of the residual-margin ledger belongs to an intent
\* that is registered and that no batch has filled, so the margin a claim pays
\* back was never traded; and a claimed residual was cancelled by the operator,
\* not consumed by a batch, and has no margin left to claim or fill again.
\* claim_residual only looks at the Cancelled flag, which fills set too.
ResidualLedger ==
    \A i \in Intents :
        /\ residualMargin[i] > 0 => Registered(i) /\ i \notin FilledIntents
        /\ claimedResidual[i] # NoCommitment =>
              i \in cancelled /\ i \notin FilledIntents /\ residualMargin[i] = 0

\* NoteUsedOnce: a note backs one thing only.  No two settled batches spent the
\* same nullifier, and none spent one that was withdrawn: withdrawals through
\* the pool and settlements race for the same note.
NoteUsedOnce ==
    /\ \A b1, b2 \in SettledBatches :
          b1 # b2 => Range(batches[b1].statement.nullifiers)
                        \cap Range(batches[b2].statement.nullifiers) = {}
    /\ \A b \in SettledBatches : \A n \in Range(batches[b].statement.nullifiers) :
          n \in nullifiers /\ withdrawals[n] = 0

\* OnePlaceOneOrder: at any time one active intent at most holds a place in the
\* queue, however often it was rolled over: the comparison of sequences by which
\* settle tells maker from taker is never a tie, and never reads an unset place.
OnePlaceOneOrder ==
    /\ \A i \in Intents : Registered(i) => sequence[i] \in 1..nextSequence
    /\ \A i, j \in Intents :
          IsActive(i) /\ IsActive(j) /\ sequence[i] = sequence[j] => i = j

FeeOf(half) ==
    [b \in Batches |-> IF IsSettled(b) THEN batches[b].statement[half] ELSE 0]

\* FeesAccounted: what the settled batches accrued is in the reserve or was
\* paid out, half by half: no settlement's fee is lost, paid twice or counted
\* for the other half, in any order of settlements and distributions.
FeesAccounted ==
    \A half \in {"insurance", "treasury"} :
        feeReserve[half] + feePaid[half] = SumFunctionOnSet(FeeOf(half), Batches)

\* LeavesInPlace: the positions of a settled batch are the leaves from the index
\* its receipt recorded, which is where the server looks for them.
LeavesInPlace ==
    \A b \in SettledBatches :
        LET new == batches[b].statement.positions
            at  == batches[b].firstIndex
        IN  /\ at + Len(new) <= Len(leaves)
            /\ SubSeq(leaves, at + 1, at + Len(new)) = new

\* ReceiptsHold: what the receipt of a settled batch says stays true of the
\* ledgers, whatever settles, is withdrawn or is appended after it: its notes
\* were spent for it alone, and its positions are where it says they are.
ReceiptsHold == NoteUsedOnce /\ LeavesInPlace

\* FeesAreKept: the fees reserved are those the settled batches accrued, less
\* what was paid out, and the pool holds them.
FeesAreKept == FeeReserveBacked /\ FeesAccounted

\* PauseFreezes: while governance is paused no proof is recorded, no batch
\* settles, no residual is claimed, no note is spent or withdrawn - on every path
\* through the contracts, each of which asks governance for itself.  Orders can
\* still be placed and cancelled, and reserved fees distributed.
PauseFreezes ==
    [][paused => UNCHANGED <<proofs, batches, residualMargin, claimedResidual,
                             nullifiers, withdrawals, positionSpent>>]_vars

-----------------------------------------------------------------------------
(* The lineage of an order: the intents that hold one place in the queue.   *)

Lineage(n) == {i \in Intents : Registered(i) /\ sequence[i] = n}

LineageStatus ==
    [n \in 1..MaxSequence |->
        IF n > nextSequence THEN "none"
        ELSE IF \E i \in Lineage(n) : IsActive(i) THEN "open"
        ELSE IF \E i \in Lineage(n) : claimedResidual[i] # NoCommitment THEN "claimed"
        ELSE IF \E i \in Lineage(n) : residualMargin[i] > 0 THEN "cancelled"
        ELSE "closed"]

LineageMargin ==
    [n \in 1..MaxSequence |->
        IF \E i \in Lineage(n) : residualMargin[i] > 0
           THEN residualMargin[CHOOSE i \in Lineage(n) : residualMargin[i] > 0]
           ELSE 0]

Orders == INSTANCE IntentLineage WITH
            Places <- 1..MaxSequence, Margins <- Nat,
            status <- LineageStatus, margin <- LineageMargin

\* OrdersKeepTheirPromise: the contracts implement IntentLineage.  Every
\* settlement, cancellation, claim and submission is, for the orders, a step
\* that specification allows, and every other transaction leaves them alone.
OrdersKeepTheirPromise == Orders!LineageSpec
=============================================================================
