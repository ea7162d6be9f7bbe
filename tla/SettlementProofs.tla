-------------------------- MODULE SettlementProofs --------------------------
(***************************************************************************)
(* Proofs, for every value of the constants, of what the runs check of the *)
(* settlement contracts on a small instance.  The order is the usual one:  *)
(* type correctness first, one lemma per contract; then each property from *)
(* the inductive invariant that carries it.                                *)
(***************************************************************************)
EXTENDS BatchSettlement, FiniteSums

-----------------------------------------------------------------------------
(* Sequences, as Functions sees them.                                      *)

\* The elements of a sequence over S are in S.
LEMMA RangeOfSeq ==
    ASSUME NEW S, NEW q \in Seq(S)
    PROVE  Range(q) \subseteq S
BY DEF Range

\* The elements of a sequence of one element.
LEMMA RangeOfOne ==
    ASSUME NEW a
    PROVE  Range(<<a>>) = {a}
BY DEF Range

-----------------------------------------------------------------------------
(* Type correctness of each contract.                                      *)

\* A transaction of the pool itself keeps its types; a withdrawal cannot take
\* the balance below zero, because it cannot take it below the fee reserve.
LEMMA PoolNextTyped ==
    ASSUME PoolTypeOK, PoolNext
    PROVE  PoolTypeOK'
<1> USE ShieldedPoolAssumption DEF PoolTypeOK, FeeAmounts
<1>1. CASE \E c \in Commitments : Deposit(c)
  BY <1>1, RangeOfOne DEF Deposit, RecordCommitments
<1>2. CASE \E p \in Provable[DepositCircuit] : DepositAsset(p.amount, p.commitment)
  BY <1>2, RangeOfOne DEF DepositAsset, RecordCommitments
<1>3. ASSUME NEW p \in Provable[WithdrawCircuit],
             WithdrawNote(p.nullifier, p.amount, p.change),
             poolBalance' = poolBalance \/ WithdrawAsset(p.nullifier, p.amount, p.change)
      PROVE  PoolTypeOK'
  <2> DEFINE note == IF p.change = NoCommitment THEN <<>> ELSE <<p.change>>
  <2>1. p.nullifier \in Nullifiers /\ p.amount \in Nat
    BY <1>3 DEF WithdrawNote
  <2>2. Range(note) \subseteq Commitments
    BY RangeOfSeq DEF Range
  <2>3. commitments' = commitments \cup Range(note)
    BY <1>3 DEF WithdrawNote, RecordCommitments
  <2>4. commitments' \subseteq Commitments
    <3> HIDE DEF note
    <3> QED BY <2>2, <2>3
  <2>5. nullifiers' \subseteq Nullifiers
    BY <1>3, <2>1, RangeOfOne DEF WithdrawNote, RecordNullifiers
  <2>6. poolBalance' \in Nat
    BY <1>3, <2>1 DEF WithdrawAsset, Reserved
  <2> QED BY <1>3, <2>1, <2>4, <2>5, <2>6 DEF WithdrawNote
<1>4. CASE \E p \in Provable[WithdrawCircuit] : Withdraw(p.nullifier, p.amount, p.change)
  BY <1>3, <1>4 DEF Withdraw
<1>5. CASE \E p \in Provable[WithdrawCircuit] : WithdrawAsset(p.nullifier, p.amount, p.change)
  BY <1>3, <1>5 DEF WithdrawAsset
<1>6. CASE \E half \in {"insurance", "treasury"} : DistributeFees(half)
  BY <1>6 DEF DistributeFees
<1>7. CASE ConfigureFeeDestinations
  BY <1>7 DEF ConfigureFeeDestinations
<1>8. CASE \E enabled \in BOOLEAN : SetPoolWriter(enabled)
  BY <1>8 DEF SetPoolWriter
<1> QED BY <1>1, <1>2, <1>4, <1>5, <1>6, <1>7, <1>8 DEF PoolNext

\* The fill that SourceOf names leaves the residual it is asked for.
LEMMA SourceOfResidual ==
    ASSUME NEW fills, NEW r \in Residuals(fills)
    PROVE  /\ SourceOf(fills, r) \in WithResidual(fills)
           /\ SourceOf(fills, r) \in DOMAIN fills
           /\ fills[SourceOf(fills, r)].residual = r
BY DEF Residuals, SourceOf, WithResidual

\* Consuming intents and rolling them over keeps the registry's types.
LEMMA FillIntentsTyped ==
    ASSUME RegistryTypeOK, NEW fills \in Seq(Fill), FillIntents(fills)
    PROVE  RegistryTypeOK'
<1>1. \A k \in DOMAIN fills : fills[k] \in Fill
  OBVIOUS
<1>2. cancelled' \subseteq Intents
  BY <1>1 DEF RegistryTypeOK, FillIntents, Filled, Fill
<1>3. ASSUME NEW i \in Residuals(fills)
      PROVE  /\ fills[SourceOf(fills, i)].residualPayload \in Payloads \cup {NoPayload}
             /\ InheritedSequence(fills, i) \in Nat
  BY <1>1, SourceOfResidual DEF RegistryTypeOK, InheritedSequence, Fill
<1> QED BY <1>2, <1>3 DEF RegistryTypeOK, FillIntents

\* Submissions and cancellations keep the registry's types.
LEMMA RegistryStepTyped ==
    ASSUME RegistryTypeOK, RegistryStep
    PROVE  RegistryTypeOK'
BY DEF RegistryTypeOK, RegistryStep, Submit, Cancel

-----------------------------------------------------------------------------
(* Type correctness of the composition.                                    *)

\* Only settlements and claims change what the settlement contract keeps.
LEMMA SettleTyped ==
    ASSUME TypeOK, NEW s \in Provable[BatchCircuit], Settle(s)
    PROVE  TypeOK'
<1> USE BatchSettlementAssumption
<1>1. GateTypeOK'
  BY DEF TypeOK, GateTypeOK, Settle, gateVars
<1>2. RegistryTypeOK'
  BY FillIntentsTyped DEF TypeOK, Settle
<1>3. PoolTypeOK'
  <2>1. commitments' \subseteq Commitments /\ nullifiers' \subseteq Nullifiers
    BY RangeOfSeq DEF TypeOK, PoolTypeOK, Settle, RecordNullifiers, RecordCommitments
  <2>2. feeReserve' \in FeeAmounts
    BY DEF TypeOK, PoolTypeOK, Settle, AccrueBatchFees, AccrueFees, FeeAmounts
  <2> QED BY <2>1, <2>2 DEF TypeOK, PoolTypeOK, Settle
<1>4. PositionTypeOK'
  <2>1. leaves \o s.positions \in Seq(Positions)
    BY DEF TypeOK, PositionTypeOK
  <2> QED BY <2>1 DEF TypeOK, PositionTypeOK, Settle, AppendMany
<1>5. BatchTypeOK'
  <2>1. residualMargin' \in [Intents -> Nat]
    <3>1. ASSUME NEW i \in Residuals(s.fills)
          PROVE  s.fills[SourceOf(s.fills, i)].margin \in Nat
      <4>1. /\ SourceOf(s.fills, i) \in DOMAIN s.fills
            /\ s.fills[SourceOf(s.fills, i)].residual # NoIntent
        BY SourceOfResidual DEF WithResidual
      <4>2. s.fills[SourceOf(s.fills, i)] \in Fill
        BY <4>1
      <4> QED BY <4>1, <4>2 DEF Settle, ValidResiduals, Fill
    <3> QED BY <3>1 DEF TypeOK, BatchTypeOK, Settle, MoveResidualMargins
  <2>2. [statement |-> s, firstIndex |-> Len(leaves)] \in Settlement
    BY DEF Settlement, TypeOK, PositionTypeOK
  <2>3. batches' \in [Batches -> Settlement \cup {NoBatch}]
    BY <2>2 DEF TypeOK, BatchTypeOK, Settle
  <2> QED BY <2>1, <2>3 DEF TypeOK, BatchTypeOK, Settle
<1> QED BY <1>1, <1>2, <1>3, <1>4, <1>5 DEF TypeOK

\* A claim records the note and removes the margin.
LEMMA ClaimResidualTyped ==
    ASSUME TypeOK, NEW i \in Intents, NEW c \in Commitments, ClaimResidual(i, c)
    PROVE  TypeOK'
<1>1. commitments' \subseteq Commitments
  BY RangeOfOne
  DEF TypeOK, PoolTypeOK, ClaimResidual, DepositClaim, RecordCommitments
<1>2. PoolTypeOK'
  BY <1>1 DEF TypeOK, PoolTypeOK, ClaimResidual
<1>3. BatchTypeOK'
  BY DEF TypeOK, BatchTypeOK, ClaimResidual
<1>4. GateTypeOK' /\ RegistryTypeOK' /\ PositionTypeOK'
  BY DEF TypeOK, GateTypeOK, RegistryTypeOK, PositionTypeOK, ClaimResidual,
         gateVars, registryVars, positionVars
<1> QED BY <1>2, <1>3, <1>4 DEF TypeOK

\* Every step of the composition keeps the types.
LEMMA NextTyped ==
    ASSUME TypeOK, [Next]_vars
    PROVE  TypeOK'
<1> USE DEF gateVars, registryVars, poolVars, positionVars, batchVars
<1>1. CASE GateStep
  <2>1. GateTypeOK'
    BY <1>1, GateNextTyped DEF TypeOK, GateStep
  <2> QED BY <1>1, <2>1
          DEF TypeOK, GateStep, RegistryTypeOK, PoolTypeOK, PositionTypeOK, BatchTypeOK
<1>2. CASE RegistryStep
  <2>1. RegistryTypeOK'
    BY <1>2, RegistryStepTyped DEF TypeOK
  <2> QED BY <1>2, <2>1
          DEF TypeOK, RegistryStep, GateTypeOK, PoolTypeOK, PositionTypeOK, BatchTypeOK
<1>3. CASE PoolStep
  <2>1. PoolTypeOK'
    BY <1>3, PoolNextTyped DEF TypeOK, PoolStep
  <2> QED BY <1>3, <2>1
          DEF TypeOK, PoolStep, GateTypeOK, RegistryTypeOK, PositionTypeOK, BatchTypeOK
<1>4. CASE PositionStep
  <2>1. PositionTypeOK'
    BY <1>4, PositionNextTyped DEF TypeOK, PositionStep
  <2> QED BY <1>4, <2>1
          DEF TypeOK, PositionStep, GateTypeOK, RegistryTypeOK, PoolTypeOK, BatchTypeOK
<1>5. CASE \E s \in Provable[BatchCircuit] : Settle(s)
  BY <1>5, SettleTyped
<1>6. CASE \E i \in Intents, c \in Commitments : ClaimResidual(i, c)
  BY <1>6, ClaimResidualTyped
<1>7. CASE ConfigureFeeToken
  BY <1>7 DEF ConfigureFeeToken, TypeOK, GateTypeOK, RegistryTypeOK, PoolTypeOK,
              PositionTypeOK, BatchTypeOK
<1>8. CASE UNCHANGED vars
  BY <1>8 DEF vars, TypeOK, GateTypeOK, RegistryTypeOK, PoolTypeOK,
              PositionTypeOK, BatchTypeOK
<1> QED BY <1>1, <1>2, <1>3, <1>4, <1>5, <1>6, <1>7, <1>8 DEF Next

\* The deployed protocol is well typed.
LEMMA InitTyped ==
    ASSUME Init
    PROVE  TypeOK
<1>1. GateTypeOK
  BY GateInitTyped DEF Init
<1>2. RegistryTypeOK /\ PoolTypeOK
  BY DEF Init, RegistryInit, PoolInit, RegistryTypeOK, PoolTypeOK, FeeAmounts
<1>3. PositionTypeOK
  <2>1. <<>> \in Seq(Positions)
    OBVIOUS
  <2> QED BY <2>1 DEF Init, PositionInit, PositionTypeOK
<1>4. BatchTypeOK
  BY DEF Init, BatchTypeOK
<1> QED BY <1>1, <1>2, <1>3, <1>4 DEF TypeOK

\* Type correctness: in particular no balance, reserve or residual margin is
\* ever negative, and the queue's counters stay natural numbers.
THEOREM TypeCorrect == Spec => []TypeOK
<1>1. Init => TypeOK
  BY InitTyped
<1>2. TypeOK /\ [Next]_vars => TypeOK'
  BY NextTyped
<1> QED BY <1>1, <1>2, PTL DEF Spec

-----------------------------------------------------------------------------
(* The fee reserve.                                                        *)

\* FeeReserveBacked is inductive given the types: the calls that add to the
\* reserve or take from the balance compare the two themselves, and a
\* distribution takes the same amount from both.
THEOREM ReserveBacked == Spec => []FeeReserveBacked
<1>1. Init => FeeReserveBacked
  BY DEF Init, PoolInit, FeeReserveBacked, Reserved
<1>2. ASSUME TypeOK, FeeReserveBacked, [Next]_vars
      PROVE  FeeReserveBacked'
  <2> USE <1>2 DEF TypeOK, PoolTypeOK, FeeAmounts, FeeReserveBacked, Reserved
  <2>1. CASE PoolStep
    <3>1. CASE \E c \in Commitments : Deposit(c)
      BY <3>1 DEF Deposit
    <3>2. CASE \E p \in Provable[DepositCircuit] : DepositAsset(p.amount, p.commitment)
      BY <3>2, ShieldedPoolAssumption DEF DepositAsset
    <3>3. CASE \E p \in Provable[WithdrawCircuit] : Withdraw(p.nullifier, p.amount, p.change)
      BY <3>3 DEF Withdraw, WithdrawNote
    <3>4. CASE \E p \in Provable[WithdrawCircuit] : WithdrawAsset(p.nullifier, p.amount, p.change)
      BY <3>4 DEF WithdrawAsset, WithdrawNote
    <3>5. CASE \E half \in {"insurance", "treasury"} : DistributeFees(half)
      BY <3>5 DEF DistributeFees
    <3>6. CASE ConfigureFeeDestinations \/ \E enabled \in BOOLEAN : SetPoolWriter(enabled)
      BY <3>6 DEF ConfigureFeeDestinations, SetPoolWriter
    <3> QED BY <2>1, <3>1, <3>2, <3>3, <3>4, <3>5, <3>6 DEF PoolStep, PoolNext
  <2>2. CASE \E s \in Provable[BatchCircuit] : Settle(s)
    BY <2>2 DEF Settle, AccrueBatchFees, AccrueFees
  <2>3. CASE \E i \in Intents, c \in Commitments : ClaimResidual(i, c)
    BY <2>3 DEF ClaimResidual
  <2>4. CASE GateStep \/ RegistryStep \/ PositionStep \/ ConfigureFeeToken \/ UNCHANGED vars
    BY <2>4 DEF GateStep, RegistryStep, PositionStep, ConfigureFeeToken, vars, poolVars
  <2> QED BY <2>1, <2>2, <2>3, <2>4 DEF Next
<1> QED BY <1>1, <1>2, TypeCorrect, PTL DEF Spec

-----------------------------------------------------------------------------
(* The pause switch.                                                       *)

\* PauseFreezes holds of every single step, from any state: each path asks
\* governance for itself.
THEOREM PauseIsRespected == Spec => PauseFreezes
<1> DEFINE frozen == <<proofs, batches, residualMargin, claimedResidual,
                       nullifiers, withdrawals, positionSpent>>
<1>1. ASSUME paused, [Next]_vars
      PROVE  UNCHANGED frozen
  <2> USE <1>1 DEF gateVars, registryVars, poolVars, positionVars, batchVars
  <2>1. CASE GateStep
    BY <2>1 DEF GateStep, GateNext, SetPaused, SetVerifier, RotateVk, SetImageId,
                VerifyAndRecord
  <2>2. CASE RegistryStep
    BY <2>2 DEF RegistryStep
  <2>3. CASE PoolStep
    BY <2>3 DEF PoolStep, PoolNext, Deposit, DepositAsset, Withdraw, WithdrawAsset,
                WithdrawNote, ProofAccepted, DistributeFees, ConfigureFeeDestinations,
                SetPoolWriter
  <2>4. CASE PositionStep
    BY <2>4 DEF PositionStep, PositionNext, SetPositionWriter, ResetForPoseidon2
  <2>5. CASE \E s \in Provable[BatchCircuit] : Settle(s)
    BY <2>5 DEF Settle, ProofAccepted
  <2>6. CASE \E i \in Intents, c \in Commitments : ClaimResidual(i, c)
    BY <2>6 DEF ClaimResidual, DepositClaim, ProofAccepted
  <2>7. CASE ConfigureFeeToken \/ UNCHANGED vars
    BY <2>7 DEF ConfigureFeeToken, vars
  <2> QED BY <2>1, <2>2, <2>3, <2>4, <2>5, <2>6, <2>7 DEF Next
<1>2. [Next]_vars => [paused => UNCHANGED frozen]_vars
  BY <1>1
<1> QED BY <1>2, PTL DEF Spec, PauseFreezes

-----------------------------------------------------------------------------
(* Intents and residual margins.                                           *)

\* Intents and margins change by settlements, claims and the operator's calls
\* to the registry only.
LEMMA StepKinds ==
    ASSUME [Next]_vars
    PROVE  \/ \E s \in Provable[BatchCircuit] : Settle(s)
           \/ \E i \in Intents, c \in Commitments : ClaimResidual(i, c)
           \/ RegistryStep
           \/ UNCHANGED <<registryVars, batches, residualMargin, claimedResidual>>
BY DEF Next, GateStep, PoolStep, PositionStep, ConfigureFeeToken, vars, batchVars

\* A settlement adds its receipt to those of the batches settled before.
LEMMA ReceiptAdded ==
    ASSUME TypeOK, NEW s \in Provable[BatchCircuit], Settle(s)
    PROVE  /\ s.batch \in Batches /\ s.batch \notin SettledBatches
           /\ SettledBatches' = SettledBatches \cup {s.batch}
           /\ \A b \in SettledBatches : batches'[b] = batches[b]
           /\ batches'[s.batch].statement = s
           /\ batches'[s.batch].firstIndex = Len(leaves)
<1> DEFINE receipt == [statement |-> s, firstIndex |-> Len(leaves)]
<1>1. receipt \in Settlement
  BY DEF Settlement, TypeOK, PositionTypeOK
<1>2. /\ s.batch \in Batches /\ batches[s.batch] = NoBatch
      /\ batches' = [batches EXCEPT ![s.batch] = receipt]
  BY BatchSettlementAssumption DEF Settle, IsSettled
<1>3. receipt # NoBatch /\ receipt.statement = s /\ receipt.firstIndex = Len(leaves)
  BY <1>1, BatchSettlementAssumption
<1> HIDE DEF receipt
<1>4. /\ s.batch \notin SettledBatches
      /\ SettledBatches' = SettledBatches \cup {s.batch}
      /\ \A b \in SettledBatches : batches'[b] = batches[b]
      /\ batches'[s.batch] = receipt
  BY <1>2, <1>3 DEF SettledBatches, IsSettled, TypeOK, BatchTypeOK
<1> QED BY <1>2, <1>3, <1>4

\* So it adds the intents it fills to those that batches have filled.
LEMMA FilledBySettle ==
    ASSUME TypeOK, NEW s \in Provable[BatchCircuit], Settle(s)
    PROVE  FilledIntents' = FilledIntents \cup Filled(s.fills)
BY ReceiptAdded DEF FilledIntents

\* ResidualLedger is not inductive: that a residual which a batch registers was
\* not filled before holds because what batches filled is flagged in the
\* registry, and only registered intents are flagged.
ResidualInv ==
    /\ ResidualLedger
    /\ FilledIntents \subseteq cancelled
    /\ \A i \in cancelled : Registered(i)

\* A settlement keeps it: filled intents were active, hence never claimed, and
\* lose their entry; residuals were not registered, hence never filled.
LEMMA SettleResidualInv ==
    ASSUME TypeOK, ResidualInv, NEW s \in Provable[BatchCircuit], Settle(s)
    PROVE  ResidualInv'
<1> DEFINE fills == s.fills
<1>1. fills \in Seq(Fill) /\ \A k \in DOMAIN fills : fills[k] \in Fill
  BY BatchSettlementAssumption
<1>2. FilledIntents' = FilledIntents \cup Filled(fills)
  BY FilledBySettle
<1>3. /\ FillIntents(fills) /\ MoveResidualMargins(fills) /\ ValidResiduals(fills)
      /\ claimedResidual' = claimedResidual
  BY DEF Settle
<1> HIDE DEF fills
<1>4. cancelled' = cancelled \cup Filled(fills)
  BY <1>3 DEF FillIntents
<1>5. \A i \in Filled(fills) : IsActive(i)
  BY <1>3 DEF FillIntents, Filled
<1>6. ASSUME NEW i \in Residuals(fills)
      PROVE  ~Registered(i) /\ Registered(i)'
  <2>1. /\ SourceOf(fills, i) \in WithResidual(fills)
        /\ SourceOf(fills, i) \in DOMAIN fills
        /\ fills[SourceOf(fills, i)].residual = i
    BY SourceOfResidual
  <2>2. ~Registered(i)
    BY <1>3, <2>1 DEF FillIntents, ResidualsAreNew
  <2>3. fills[SourceOf(fills, i)].residualPayload # NoPayload /\ i \in Intents
    BY <1>1, <1>3, <2>1 DEF ValidResiduals, WithResidual, Fill
  <2> QED BY <1>3, <2>2, <2>3 DEF FillIntents, Registered
<1>7. \A i \in Intents : Registered(i) => Registered(i)'
  BY <1>3, <1>6 DEF FillIntents, Registered
<1>8. Filled(fills) \subseteq Intents
  BY <1>1 DEF Filled, Fill
<1>9. ResidualLedger'
  <2> SUFFICES ASSUME NEW i \in Intents
               PROVE  /\ residualMargin'[i] > 0 => Registered(i)' /\ i \notin FilledIntents'
                      /\ claimedResidual'[i] # NoCommitment =>
                            i \in cancelled' /\ i \notin FilledIntents' /\ residualMargin'[i] = 0
    BY DEF ResidualLedger
  <2>1. residualMargin'[i] = IF i \in Filled(fills) THEN 0
                             ELSE IF i \in Residuals(fills) THEN fills[SourceOf(fills, i)].margin
                             ELSE residualMargin[i]
    BY <1>3 DEF MoveResidualMargins
  <2>2. i \in Residuals(fills) => i \notin FilledIntents /\ i \notin cancelled
    BY <1>6 DEF ResidualInv
  <2>3. claimedResidual[i] # NoCommitment => i \notin Filled(fills) /\ i \notin Residuals(fills)
    BY <1>5, <2>2 DEF ResidualInv, ResidualLedger, IsActive
  <2>4. residualMargin'[i] > 0 => Registered(i)' /\ i \notin FilledIntents'
    BY <1>2, <1>6, <1>7, <2>1, <2>2 DEF ResidualInv, ResidualLedger
  <2> QED BY <1>2, <1>3, <1>4, <2>1, <2>3, <2>4 DEF ResidualInv, ResidualLedger
<1>10. \A i \in cancelled' : Registered(i)'
  BY <1>4, <1>5, <1>7, <1>8 DEF ResidualInv, IsActive, TypeOK, RegistryTypeOK
<1> QED BY <1>2, <1>4, <1>9, <1>10 DEF ResidualInv

\* Every other step keeps it too: a claim needs a margin entry, which says that
\* no batch filled the intent.
LEMMA NextResidualInv ==
    ASSUME TypeOK, ResidualInv, [Next]_vars
    PROVE  ResidualInv'
<1> USE DEF ResidualInv, ResidualLedger, Registered, FilledIntents, SettledBatches, IsSettled
<1>1. CASE \E s \in Provable[BatchCircuit] : Settle(s)
  BY <1>1, SettleResidualInv
<1>2. ASSUME NEW i \in Intents, NEW c \in Commitments, ClaimResidual(i, c)
      PROVE  ResidualInv'
  BY <1>2, ShieldedPoolAssumption
  DEF ClaimResidual, registryVars, TypeOK, BatchTypeOK
<1>3. CASE \E i \in Intents, p \in Payloads : Submit(i, p) /\ RegistryStep
  BY <1>3, IntentRegistryAssumption
  DEF RegistryStep, Submit, batchVars, TypeOK, RegistryTypeOK
<1>4. CASE \E i \in Intents : Cancel(i) /\ RegistryStep
  BY <1>4 DEF RegistryStep, Cancel, IsActive, batchVars
<1>5. CASE UNCHANGED <<registryVars, batches, residualMargin, claimedResidual>>
  BY <1>5 DEF registryVars
<1> QED BY <1>1, <1>2, <1>3, <1>4, <1>5, StepKinds DEF RegistryStep

\* The margin a claim pays back was never traded, and what was claimed is never
\* traded afterwards.
THEOREM ResidualsPaidOnce == Spec => []ResidualLedger
<1>1. Init => ResidualInv
  BY ShieldedPoolAssumption
  DEF Init, RegistryInit, ResidualInv, ResidualLedger, FilledIntents, SettledBatches, IsSettled
<1>2. TypeOK /\ ResidualInv /\ [Next]_vars => ResidualInv'
  BY NextResidualInv
<1>3. ResidualInv => ResidualLedger
  BY DEF ResidualInv
<1> QED BY <1>1, <1>2, <1>3, TypeCorrect, PTL DEF Spec

-----------------------------------------------------------------------------
(* The queue.                                                              *)

\* A settlement keeps places and orders one to one: a residual takes the place
\* of the intent it continues, which is consumed in the same step.
LEMMA SettleKeepsPlaces ==
    ASSUME TypeOK, OnePlaceOneOrder, NEW s \in Provable[BatchCircuit], Settle(s)
    PROVE  OnePlaceOneOrder'
<1> DEFINE fills == s.fills
           source(i) == fills[SourceOf(fills, i)].intent
<1>1. \A k \in DOMAIN fills : fills[k] \in Fill
  BY BatchSettlementAssumption
<1>2. FillIntents(fills) /\ ValidResiduals(fills)
  BY DEF Settle
<1>3. \A j, k \in DOMAIN fills : fills[j].intent = fills[k].intent => j = k
  BY DEF Settle, ValidIntents
<1> HIDE DEF fills
<1>4. ASSUME NEW i \in Residuals(fills)
      PROVE  /\ source(i) \in Filled(fills) \cap Intents
             /\ IsActive(source(i))
             /\ sequence'[i] = sequence[source(i)]
  <2>1. SourceOf(fills, i) \in DOMAIN fills /\ fills[SourceOf(fills, i)].residual = i
    BY SourceOfResidual
  <2>2. i \in Intents
    BY <1>1, <2>1, SourceOfResidual DEF Fill, WithResidual
  <2> QED BY <1>1, <1>2, <2>1, <2>2 DEF FillIntents, InheritedSequence, Filled, Fill
<1>5. ASSUME NEW i \in Residuals(fills), NEW j \in Residuals(fills), source(i) = source(j)
      PROVE  i = j
  BY <1>3, <1>5, SourceOfResidual
<1>6. ASSUME NEW i \in Intents \ Residuals(fills)
      PROVE  /\ sequence'[i] = sequence[i]
             /\ Registered(i)' => Registered(i)
             /\ IsActive(i)' => IsActive(i) /\ i \notin Filled(fills)
  BY <1>2 DEF FillIntents, Registered, IsActive
<1>7. nextSequence' = nextSequence
  BY <1>2 DEF FillIntents
<1>8. ASSUME NEW i \in Intents, Registered(i)'
      PROVE  sequence'[i] \in 1..nextSequence'
  BY <1>4, <1>6, <1>7, <1>8 DEF OnePlaceOneOrder, IsActive
<1>9. ASSUME NEW i \in Intents, NEW j \in Intents, IsActive(i)', IsActive(j)',
             sequence'[i] = sequence'[j]
      PROVE  i = j
  <2>1. CASE i \in Residuals(fills) /\ j \in Residuals(fills)
    <3>1. source(i) = source(j)
      BY <1>4, <1>9, <2>1 DEF OnePlaceOneOrder
    <3> QED BY <1>5, <2>1, <3>1
  <2>2. CASE i \in Residuals(fills) /\ j \notin Residuals(fills)
    BY <1>4, <1>6, <1>9, <2>2 DEF OnePlaceOneOrder
  <2>3. CASE i \notin Residuals(fills) /\ j \in Residuals(fills)
    BY <1>4, <1>6, <1>9, <2>3 DEF OnePlaceOneOrder
  <2>4. CASE i \notin Residuals(fills) /\ j \notin Residuals(fills)
    BY <1>6, <1>9, <2>4 DEF OnePlaceOneOrder
  <2> QED BY <2>1, <2>2, <2>3, <2>4
<1> QED BY <1>8, <1>9 DEF OnePlaceOneOrder

\* No two active intents hold one place, so that settle's comparison of
\* sequences always tells maker from taker.
THEOREM PlacesAreUnique == Spec => []OnePlaceOneOrder
<1>1. Init => OnePlaceOneOrder
  BY DEF Init, RegistryInit, OnePlaceOneOrder, Registered, IsActive
<1>2. ASSUME TypeOK, OnePlaceOneOrder, [Next]_vars
      PROVE  OnePlaceOneOrder'
  <2> USE <1>2
  <2>1. CASE \E s \in Provable[BatchCircuit] : Settle(s)
    BY <2>1, SettleKeepsPlaces
  <2> USE DEF OnePlaceOneOrder, Registered, IsActive, TypeOK, RegistryTypeOK
  <2>2. ASSUME NEW i \in Intents, NEW p \in Payloads, Submit(i, p)
        PROVE  OnePlaceOneOrder'
    BY <2>2 DEF Submit
  <2>3. ASSUME NEW i \in Intents, Cancel(i)
        PROVE  OnePlaceOneOrder'
    BY <2>3 DEF Cancel
  <2>4. CASE \E i \in Intents, c \in Commitments : ClaimResidual(i, c)
    BY <2>4 DEF ClaimResidual, registryVars
  <2>5. CASE UNCHANGED <<registryVars, batches, residualMargin, claimedResidual>>
    BY <2>5 DEF registryVars
  <2> QED BY <2>1, <2>2, <2>3, <2>4, <2>5, StepKinds DEF RegistryStep
<1> QED BY <1>1, <1>2, TypeCorrect, PTL DEF Spec

-----------------------------------------------------------------------------
(* Keys.                                                                   *)

\* The circuits whose verifiers are all Noir verifiers.
IsNoir(c) == \A v \in Verifiers : CircuitOf[v] = c => v \notin Risc0Verifiers

\* A Noir verifier records under the hash of the key it checks with, now and
\* whenever it recorded.
KeyInv ==
    /\ \A v \in Verifiers \ Risc0Verifiers : vk[v] = verifierHash[v]
    /\ \A c \in Circuits : IsNoir(c) => \A p \in proofs[c] : p.key = p.hash

\* A proof under a key that governance no longer approves does not count.
THEOREM RotationIsRevocation == Spec => []RotationRevokes
<1>1. ASSUME Init
      PROVE  KeyInv
  <2>1. \A c \in Circuits : \A p \in proofs[c] : p.key = p.hash
    BY <1>1 DEF Init, GateInit
  <2> QED BY <1>1, <2>1 DEF Init, GateInit, KeyInv
<1>2. ASSUME TypeOK, KeyInv, [Next]_vars
      PROVE  KeyInv'
  <2> USE <1>2 DEF TypeOK, GateTypeOK, KeyInv
  <2>1. CASE GateStep
    <3>1. ASSUME NEW v \in Verifiers, NEW s \in Provable[CircuitOf[v]], VerifyAndRecord(v, s)
          PROVE  KeyInv'
      <4> DEFINE new == [hash |-> verifierHash[v], stmt |-> s, key |-> vk[v]]
      <4>1. CircuitOf[v] \in Circuits
        BY ProofGateAssumption
      <4>2. IsNoir(CircuitOf[v]) => new.key = new.hash
        BY DEF IsNoir
      <4>3. proofs' = [proofs EXCEPT ![CircuitOf[v]] = @ \cup {new}]
        BY <3>1 DEF VerifyAndRecord
      <4>4. \A c \in Circuits : IsNoir(c) => \A p \in proofs'[c] : p.key = p.hash
        <5> HIDE DEF new
        <5> QED BY <4>1, <4>2, <4>3
      <4> QED BY <3>1, <4>4 DEF VerifyAndRecord
    <3>2. CASE \E b \in BOOLEAN : SetPaused(b)
      BY <3>2 DEF SetPaused
    <3>3. CASE \E c \in Circuits, h \in Keys : \E v \in Authorities[c] : SetVerifier(c, h, v)
      BY <3>3 DEF SetVerifier
    <3>4. CASE \E v \in Verifiers, k \in Keys : RotateVk(v, k) \/ SetImageId(v, k)
      BY <3>4 DEF RotateVk, SetImageId
    <3> QED BY <2>1, <3>1, <3>2, <3>3, <3>4 DEF GateStep, GateNext
  <2>2. ASSUME UNCHANGED gateVars
        PROVE  KeyInv'
    BY <2>2 DEF gateVars
  <2> QED BY <2>1, <2>2 DEF Next, RegistryStep, PoolStep, PositionStep, Settle,
             ClaimResidual, ConfigureFeeToken, vars
<1>3. KeyInv => RotationRevokes
  BY DEF KeyInv, RotationRevokes, ProofAccepted, IsNoir
<1> QED BY <1>1, <1>2, <1>3, TypeCorrect, PTL DEF Spec

-----------------------------------------------------------------------------
(* Notes.                                                                  *)

\* What was withdrawn is flagged, so that a settlement of the same note is
\* refused; NoteUsedOnce itself says the same of what was settled.
NoteInv ==
    /\ NoteUsedOnce
    /\ \A n \in Nullifiers : withdrawals[n] # 0 => n \in nullifiers

\* A settlement spends notes that no settlement and no withdrawal spent before.
LEMMA SettleNoteInv ==
    ASSUME TypeOK, NoteInv, NEW s \in Provable[BatchCircuit], Settle(s)
    PROVE  NoteInv'
<1>1. /\ Range(s.nullifiers) \subseteq Nullifiers
      /\ Range(s.nullifiers) \cap nullifiers = {}
      /\ nullifiers' = nullifiers \cup Range(s.nullifiers)
      /\ withdrawals' = withdrawals
  BY RangeOfSeq, BatchSettlementAssumption DEF Settle, RecordNullifiers
<1>2. /\ SettledBatches' = SettledBatches \cup {s.batch}
      /\ \A b \in SettledBatches : batches'[b] = batches[b]
      /\ batches'[s.batch].statement = s
  BY ReceiptAdded
<1>3. \A b \in SettledBatches : Range(batches[b].statement.nullifiers) \subseteq nullifiers
  BY DEF NoteInv, NoteUsedOnce
<1>4. ASSUME NEW b \in SettledBatches', NEW n \in Range(batches'[b].statement.nullifiers)
      PROVE  n \in nullifiers' /\ withdrawals'[n] = 0
  <2>1. CASE b \in SettledBatches
    BY <1>1, <1>2, <1>4, <2>1 DEF NoteInv, NoteUsedOnce
  <2>2. CASE b = s.batch
    BY <1>1, <1>2, <1>4, <2>2 DEF NoteInv, NoteUsedOnce
  <2> QED BY <1>2, <2>1, <2>2
<1>5. ASSUME NEW b1 \in SettledBatches', NEW b2 \in SettledBatches', b1 # b2
      PROVE  Range(batches'[b1].statement.nullifiers)
               \cap Range(batches'[b2].statement.nullifiers) = {}
  <2>1. CASE b1 \in SettledBatches /\ b2 \in SettledBatches
    BY <1>2, <1>5, <2>1 DEF NoteInv, NoteUsedOnce
  <2>2. CASE b1 = s.batch \/ b2 = s.batch
    BY <1>1, <1>2, <1>3, <1>5, <2>2
  <2> QED BY <1>2, <2>1, <2>2
<1>6. \A n \in Nullifiers : withdrawals'[n] # 0 => n \in nullifiers'
  BY <1>1 DEF NoteInv
<1> QED BY <1>4, <1>5, <1>6 DEF NoteInv, NoteUsedOnce

\* A withdrawal takes a note that no settlement spent.
LEMMA WithdrawNoteInv ==
    ASSUME TypeOK, NoteInv, NEW p \in Provable[WithdrawCircuit],
           WithdrawNote(p.nullifier, p.amount, p.change), batches' = batches
    PROVE  NoteInv'
<1>1. /\ p.nullifier \in Nullifiers \ nullifiers
      /\ nullifiers' = nullifiers \cup {p.nullifier}
      /\ withdrawals' = [withdrawals EXCEPT ![p.nullifier] = p.amount]
  BY RangeOfOne, ShieldedPoolAssumption DEF WithdrawNote, RecordNullifiers
<1> QED BY <1>1 DEF NoteInv, NoteUsedOnce, SettledBatches, IsSettled, TypeOK, PoolTypeOK

\* No note is spent twice, by two batches or by a batch and a withdrawal.
THEOREM NotesUsedOnce == Spec => []NoteUsedOnce
<1>1. Init => NoteInv
  BY DEF Init, PoolInit, NoteInv, NoteUsedOnce, SettledBatches, IsSettled
<1>2. ASSUME TypeOK, NoteInv, [Next]_vars
      PROVE  NoteInv'
  <2> USE <1>2
  <2>1. CASE \E s \in Provable[BatchCircuit] : Settle(s)
    BY <2>1, SettleNoteInv
  <2>2. ASSUME NEW p \in Provable[WithdrawCircuit], batches' = batches,
               \/ Withdraw(p.nullifier, p.amount, p.change)
               \/ WithdrawAsset(p.nullifier, p.amount, p.change)
        PROVE  NoteInv'
    BY <2>2, WithdrawNoteInv DEF Withdraw, WithdrawAsset
  <2>3. ASSUME UNCHANGED <<nullifiers, withdrawals, batches>>
        PROVE  NoteInv'
    BY <2>3 DEF NoteInv, NoteUsedOnce, SettledBatches, IsSettled
  <2>4. CASE PoolStep
    BY <2>2, <2>3, <2>4
    DEF PoolStep, batchVars, PoolNext, Deposit, DepositAsset, DistributeFees,
        ConfigureFeeDestinations, SetPoolWriter
  <2>5. CASE \/ GateStep \/ RegistryStep \/ PositionStep \/ ConfigureFeeToken
             \/ \E i \in Intents, c \in Commitments : ClaimResidual(i, c)
             \/ UNCHANGED vars
    BY <2>3, <2>5 DEF GateStep, RegistryStep, PositionStep, ConfigureFeeToken,
                      ClaimResidual, vars, poolVars, batchVars
  <2> QED BY <2>1, <2>4, <2>5 DEF Next
<1>3. NoteInv => NoteUsedOnce
  BY DEF NoteInv
<1> QED BY <1>1, <1>2, <1>3, TypeCorrect, PTL DEF Spec

-----------------------------------------------------------------------------
(* The position tree.                                                      *)

\* What is appended starts where the sequence ended.
LEMMA AppendedAtEnd ==
    ASSUME NEW S, NEW q \in Seq(S), NEW new \in Seq(S)
    PROVE  SubSeq(q \o new, Len(q) + 1, Len(q) + Len(new)) = new
OBVIOUS

\* Appending leaves every stretch of the sequence where it was.
LEMMA AppendKeepsPlace ==
    ASSUME NEW S, NEW q \in Seq(S), NEW new \in Seq(S), NEW at \in Nat, NEW n \in Nat,
           at + n <= Len(q)
    PROVE  SubSeq(q \o new, at + 1, at + n) = SubSeq(q, at + 1, at + n)
OBVIOUS

\* A tree that is still to be migrated was appended to by no settlement, so
\* that the migration moves no leaf of one.
LeafInv ==
    /\ LeavesInPlace
    /\ SettledBatches # {} => treeIsPoseidon2

\* The positions of a batch stay at the index its receipt recorded.
THEOREM LeavesStayInPlace == Spec => []LeavesInPlace
<1>1. Init => LeafInv
  BY DEF Init, LeafInv, LeavesInPlace, SettledBatches, IsSettled
<1>2. ASSUME TypeOK, LeafInv, [Next]_vars
      PROVE  LeafInv'
  <2> USE <1>2
  <2>1. ASSUME NEW s \in Provable[BatchCircuit], Settle(s)
        PROVE  LeafInv'
    <3> DEFINE receipt(b) == batches[b].statement.positions
               at(b) == batches[b].firstIndex
    <3>1. leaves \in Seq(Positions) /\ s.positions \in Seq(Positions)
      BY BatchSettlementAssumption DEF TypeOK, PositionTypeOK
    <3>2. leaves' = leaves \o s.positions /\ treeIsPoseidon2' = TRUE
      BY <2>1 DEF Settle, AppendMany
    <3>3. ASSUME NEW b \in SettledBatches
          PROVE  /\ at(b) + Len(receipt(b)) <= Len(leaves')
                 /\ SubSeq(leaves', at(b) + 1, at(b) + Len(receipt(b))) = receipt(b)
      <4>1. at(b) \in Nat /\ receipt(b) \in Seq(Positions)
        BY BatchSettlementAssumption
        DEF SettledBatches, IsSettled, Settlement, TypeOK, BatchTypeOK
      <4>2. /\ at(b) + Len(receipt(b)) <= Len(leaves)
            /\ SubSeq(leaves, at(b) + 1, at(b) + Len(receipt(b))) = receipt(b)
        BY DEF LeafInv, LeavesInPlace
      <4>3. Len(leaves') = Len(leaves) + Len(s.positions)
        BY <3>1, <3>2
      <4>4. Len(receipt(b)) \in Nat /\ Len(leaves) \in Nat /\ Len(s.positions) \in Nat
        BY <3>1, <4>1
      <4> HIDE DEF receipt, at
      <4> QED BY <3>1, <3>2, <4>1, <4>2, <4>3, <4>4, AppendKeepsPlace
    <3>4. /\ Len(leaves) + Len(s.positions) <= Len(leaves')
          /\ SubSeq(leaves', Len(leaves) + 1, Len(leaves) + Len(s.positions)) = s.positions
      BY <3>1, <3>2, AppendedAtEnd
    <3>5. ASSUME NEW b \in SettledBatches'
          PROVE  LET new == batches'[b].statement.positions
                     first == batches'[b].firstIndex
                 IN  /\ first + Len(new) <= Len(leaves')
                     /\ SubSeq(leaves', first + 1, first + Len(new)) = new
      <4>1. CASE b = s.batch
        BY <2>1, <3>4, <4>1, ReceiptAdded
      <4>2. CASE b \in SettledBatches
        BY <2>1, <3>3, <4>2, ReceiptAdded
      <4> QED BY <2>1, <4>1, <4>2, ReceiptAdded
    <3> QED BY <3>2, <3>5 DEF LeafInv, LeavesInPlace
  <2>2. ASSUME UNCHANGED <<leaves, batches>>, treeIsPoseidon2 => treeIsPoseidon2'
        PROVE  LeafInv'
    BY <2>2 DEF LeafInv, LeavesInPlace, SettledBatches, IsSettled
  <2>3. ASSUME ResetForPoseidon2, batches' = batches
        PROVE  LeafInv'
    BY <2>3 DEF ResetForPoseidon2, LeafInv, LeavesInPlace, SettledBatches, IsSettled
  <2>4. CASE PositionStep
    BY <2>2, <2>3, <2>4 DEF PositionStep, PositionNext, SetPositionWriter, batchVars
  <2>5. CASE \/ GateStep \/ RegistryStep \/ PoolStep \/ ConfigureFeeToken
             \/ \E i \in Intents, c \in Commitments : ClaimResidual(i, c)
             \/ UNCHANGED vars
    BY <2>2, <2>5 DEF GateStep, RegistryStep, PoolStep, ConfigureFeeToken,
                      ClaimResidual, vars, positionVars, batchVars
  <2> QED BY <2>1, <2>4, <2>5 DEF Next
<1>3. LeafInv => LeavesInPlace
  BY DEF LeafInv
<1> QED BY <1>1, <1>2, <1>3, TypeCorrect, PTL DEF Spec

\* What receipts say stays true: the notes of a settled batch are its own for
\* good, and its positions stay where it says.
THEOREM ReceiptsStayTrue == Spec => []ReceiptsHold
<1>1. NoteUsedOnce /\ LeavesInPlace => ReceiptsHold
  BY DEF ReceiptsHold
<1> QED BY <1>1, NotesUsedOnce, LeavesStayInPlace, PTL

-----------------------------------------------------------------------------
(* Fees.                                                                   *)

\* A settlement adds its own fees to the reserve, half by half, and to what is
\* summed.
LEMMA SettleAccounted ==
    ASSUME TypeOK, FeesAccounted, NEW s \in Provable[BatchCircuit], Settle(s)
    PROVE  FeesAccounted'
<1> SUFFICES ASSUME NEW half \in {"insurance", "treasury"}
             PROVE  feeReserve'[half] + feePaid'[half] = SumFunctionOnSet(FeeOf(half)', Batches)
  BY DEF FeesAccounted
<1>1. /\ s.batch \in Batches /\ s.batch \notin SettledBatches
      /\ SettledBatches' = SettledBatches \cup {s.batch}
      /\ \A b \in SettledBatches : batches'[b] = batches[b]
      /\ batches'[s.batch].statement = s
  BY ReceiptAdded
<1>2. s[half] \in Int /\ s[half] >= 0
  BY BatchSettlementAssumption DEF Settle, ValidFees
<1>3. feeReserve[half] \in Nat /\ feePaid[half] \in Nat /\ feePaid' = feePaid
  BY DEF TypeOK, PoolTypeOK, FeeAmounts, Settle
<1>4. feeReserve'[half] = feeReserve[half] + s[half]
  BY <1>2, <1>3 DEF Settle, AccrueBatchFees, AccrueFees
<1> DEFINE f == FeeOf(half)
           g == FeeOf(half)'
<1>5. \A b \in Batches : f[b] \in Int
  BY BatchSettlementAssumption DEF FeeOf, IsSettled, TypeOK, BatchTypeOK, Settlement
<1>6. f[s.batch] = 0 /\ g[s.batch] = s[half]
  BY <1>1 DEF FeeOf, SettledBatches
<1>7. \A b \in Batches : b # s.batch => g[b] = f[b]
  BY <1>1 DEF FeeOf, SettledBatches
<1> HIDE DEF f, g
<1>8. SumFunctionOnSet(g, Batches) = SumFunctionOnSet(f, Batches) + g[s.batch] - f[s.batch]
  <2>1. IsFiniteSet(Batches) /\ s.batch \in Batches /\ g[s.batch] \in Int
    BY <1>1, <1>2, <1>6, BatchSettlementAssumption
  <2> QED BY <1>5, <1>7, <2>1, SumChange
<1>9. feeReserve[half] + feePaid[half] = SumFunctionOnSet(f, Batches)
  BY DEF FeesAccounted, f
<1>10. SumFunctionOnSet(g, Batches) = feeReserve'[half] + feePaid'[half]
  BY <1>2, <1>3, <1>4, <1>6, <1>8, <1>9
<1> QED BY <1>10 DEF g

\* Everything else leaves the receipts alone, and a distribution moves one half
\* of the reserve to what was paid.
LEMMA NextAccounted ==
    ASSUME TypeOK, FeesAccounted, [Next]_vars
    PROVE  FeesAccounted'
<1>1. ASSUME batches' = batches,
             \A half \in {"insurance", "treasury"} :
               feeReserve'[half] + feePaid'[half] = feeReserve[half] + feePaid[half]
      PROVE  FeesAccounted'
  BY <1>1 DEF FeesAccounted, FeeOf, IsSettled
<1>2. ASSUME NEW half \in {"insurance", "treasury"}, DistributeFees(half), batches' = batches
      PROVE  FeesAccounted'
  <2>1. \A h \in {"insurance", "treasury"} :
          feeReserve'[h] + feePaid'[h] = feeReserve[h] + feePaid[h]
    BY <1>2 DEF DistributeFees, TypeOK, PoolTypeOK, FeeAmounts
  <2> QED BY <1>1, <1>2, <2>1
<1>3. ASSUME UNCHANGED <<batches, feeReserve, feePaid>> PROVE FeesAccounted'
  BY <1>1, <1>3
<1>4. CASE PoolStep
  <2>1. batches' = batches
    BY <1>4 DEF PoolStep, batchVars
  <2>2. CASE \E half \in {"insurance", "treasury"} : DistributeFees(half)
    BY <1>2, <2>1, <2>2
  <2>3. CASE ~\E half \in {"insurance", "treasury"} : DistributeFees(half)
    <3>1. UNCHANGED <<feeReserve, feePaid>>
      BY <1>4, <2>3 DEF PoolStep, PoolNext, Deposit, DepositAsset, Withdraw, WithdrawAsset,
                        WithdrawNote, ConfigureFeeDestinations, SetPoolWriter
    <3> QED BY <1>3, <2>1, <3>1
  <2> QED BY <2>2, <2>3
<1>5. CASE \E s \in Provable[BatchCircuit] : Settle(s)
  BY <1>5, SettleAccounted
<1>6. CASE \/ GateStep \/ RegistryStep \/ PositionStep \/ ConfigureFeeToken
           \/ \E i \in Intents, c \in Commitments : ClaimResidual(i, c)
           \/ UNCHANGED vars
  BY <1>3, <1>6 DEF GateStep, RegistryStep, PositionStep, ConfigureFeeToken, ClaimResidual,
                    vars, poolVars, batchVars
<1> QED BY <1>4, <1>5, <1>6 DEF Next

\* The fee reserve of the shielded pool is at any time what the settled batches
\* accrued less what was distributed, for each half, and the pool holds it: in
\* any order of settlements, withdrawals and distributions.
THEOREM FeesStayKept == Spec => []FeesAreKept
<1>1. Init => FeesAccounted
  <2> SUFFICES ASSUME Init, NEW half \in {"insurance", "treasury"}
               PROVE  feeReserve[half] + feePaid[half] = SumFunctionOnSet(FeeOf(half), Batches)
    BY DEF FeesAccounted
  <2>1. \A b \in Batches : FeeOf(half)[b] = 0
    BY DEF Init, FeeOf, IsSettled
  <2>2. SumFunctionOnSet(FeeOf(half), Batches) = 0
    BY <2>1, SumZero, BatchSettlementAssumption
  <2> QED BY <2>2 DEF Init, PoolInit
<1>2. Spec => []FeesAccounted
  BY <1>1, NextAccounted, TypeCorrect, PTL DEF Spec
<1>3. FeeReserveBacked /\ FeesAccounted => FeesAreKept
  BY DEF FeesAreKept
<1> QED BY <1>2, <1>3, ReserveBacked, PTL

-----------------------------------------------------------------------------
(* The orders: the contracts implement IntentLineage.                      *)

\* The intents that still say something of the order whose place they hold.
Live(i) == IsActive(i) \/ residualMargin[i] > 0 \/ claimedResidual[i] # NoCommitment

\* The stage of an order, seen from its live intent.
StageBy(i) == IF IsActive(i) THEN "open"
              ELSE IF claimedResidual[i] # NoCommitment THEN "claimed"
              ELSE "cancelled"

\* That one active intent holds a place is not enough to follow an order past
\* its end: neither may a cancelled or a claimed one share the place.
LiveInv ==
    /\ nextSequence <= MaxSequence
    /\ \A i, j \in Intents : Live(i) /\ Live(j) /\ sequence[i] = sequence[j] => i = j

LineageInv == ResidualInv /\ OnePlaceOneOrder /\ LiveInv

\* What a settlement does to the intents of its fills and to all others.
LEMMA SettleMoves ==
    ASSUME TypeOK, LineageInv, NEW s \in Provable[BatchCircuit], Settle(s)
    PROVE  /\ \A k \in DOMAIN s.fills : s.fills[k] \in Fill
           /\ \A j, k \in DOMAIN s.fills : s.fills[j].intent = s.fills[k].intent => j = k
           /\ UNCHANGED <<nextSequence, claimedResidual>>
           /\ \A i \in Filled(s.fills) :
                 i \in Intents /\ IsActive(i) /\ ~Live(i)'
           /\ \A k \in WithResidual(s.fills) :
                 LET r == s.fills[k].residual
                     i == s.fills[k].intent
                 IN  /\ r \in Intents /\ r \in Residuals(s.fills) /\ r \notin Filled(s.fills)
                     /\ ~Live(r) /\ IsActive(r)'
                     /\ sequence'[r] = sequence[i]
                     /\ residualMargin'[r] = s.fills[k].margin
                     /\ residualMargin'[r] > 0
                     /\ residualMargin[i] > 0 => residualMargin'[r] < residualMargin[i]
           /\ \A i \in Intents : i \notin Filled(s.fills) /\ i \notin Residuals(s.fills) =>
                 /\ sequence'[i] = sequence[i]
                 /\ residualMargin'[i] = residualMargin[i]
                 /\ IsActive(i)' <=> IsActive(i)
                 /\ Live(i)' <=> Live(i)
           /\ \A i \in Filled(s.fills) : sequence'[i] = sequence[i]
<1> DEFINE fills == s.fills
<1>1. \A k \in DOMAIN fills : fills[k] \in Fill
  BY BatchSettlementAssumption
<1>2. /\ FillIntents(fills) /\ MoveResidualMargins(fills) /\ ValidResiduals(fills)
      /\ claimedResidual' = claimedResidual
      /\ \A j, k \in DOMAIN fills : fills[j].intent = fills[k].intent => j = k
  BY DEF Settle, ValidIntents
<1> HIDE DEF fills
<1>3. UNCHANGED <<nextSequence, claimedResidual>>
  BY <1>2 DEF FillIntents
<1>4. \A i \in Filled(fills) : i \in Intents /\ IsActive(i)
  BY <1>1, <1>2 DEF FillIntents, Filled, Fill
<1>5. \A r \in Residuals(fills) : ~Registered(r)
  BY <1>2 DEF FillIntents, ResidualsAreNew, Residuals
<1>6. \A r \in Residuals(fills) : r \notin Filled(fills)
  BY <1>4, <1>5 DEF IsActive
<1>7. ASSUME NEW i \in Filled(fills)
      PROVE  ~Live(i)' /\ sequence'[i] = sequence[i]
  <2>1. i \in Intents /\ i \notin cancelled /\ i \in cancelled'
    BY <1>2, <1>4 DEF FillIntents, IsActive
  <2>2. claimedResidual[i] = NoCommitment
    BY <2>1 DEF LineageInv, ResidualInv, ResidualLedger
  <2>3. residualMargin'[i] = 0
    BY <1>2, <2>1 DEF MoveResidualMargins
  <2>4. sequence'[i] = sequence[i]
    BY <1>2, <1>6, <2>1 DEF FillIntents
  <2> QED BY <1>2, <2>1, <2>2, <2>3, <2>4 DEF Live, IsActive
<1>8. ASSUME NEW k \in WithResidual(fills), NEW r, r = fills[k].residual,
             NEW i, i = fills[k].intent
      PROVE  /\ r \in Intents /\ r \in Residuals(fills) /\ r \notin Filled(fills)
             /\ ~Live(r) /\ IsActive(r)'
             /\ sequence'[r] = sequence[i]
             /\ residualMargin'[r] = fills[k].margin
             /\ residualMargin'[r] > 0
             /\ residualMargin[i] > 0 => residualMargin'[r] < residualMargin[i]
  <2>1. k \in DOMAIN fills /\ r # NoIntent /\ r \in Intents /\ r \in Residuals(fills)
    BY <1>1, <1>8 DEF WithResidual, Residuals, Fill
  <2>2. SourceOf(fills, r) = k
    <3>1. \A j, l \in WithResidual(fills) : fills[j].residual = fills[l].residual => j = l
      BY <1>2 DEF FillIntents, ResidualsAreNew
    <3> QED BY <1>8, <2>1, <3>1, SourceOfResidual
  <2>3. /\ fills[k].margin > 0
        /\ fills[k].residualPayload # NoPayload
        /\ residualMargin[i] > 0 => fills[k].margin < residualMargin[i]
    BY <1>2, <1>8, <2>1 DEF ValidResiduals
  <2>4. r \notin Filled(fills) /\ ~Registered(r)
    BY <1>5, <1>6, <2>1
  <2>5. r \notin cancelled /\ ~Live(r)
    BY <2>1, <2>4 DEF LineageInv, ResidualInv, ResidualLedger, Live, IsActive
  <2>6. residualMargin'[r] = fills[k].margin
    BY <1>2, <2>1, <2>2, <2>4 DEF MoveResidualMargins
  <2>7. payloadOf'[r] = fills[k].residualPayload /\ sequence'[r] = sequence[i]
    BY <1>2, <1>8, <2>1, <2>2 DEF FillIntents, InheritedSequence
  <2>8. IsActive(r)'
    BY <1>2, <2>3, <2>4, <2>5, <2>7 DEF FillIntents, IsActive, Registered
  <2> QED BY <2>1, <2>3, <2>4, <2>5, <2>6, <2>7, <2>8
<1>9. ASSUME NEW i \in Intents, i \notin Filled(fills), i \notin Residuals(fills)
      PROVE  /\ sequence'[i] = sequence[i]
             /\ residualMargin'[i] = residualMargin[i]
             /\ IsActive(i)' <=> IsActive(i)
             /\ Live(i)' <=> Live(i)
  <2>1. /\ sequence'[i] = sequence[i]
        /\ residualMargin'[i] = residualMargin[i]
        /\ payloadOf'[i] = payloadOf[i]
        /\ i \in cancelled' <=> i \in cancelled
    BY <1>2, <1>9 DEF FillIntents, MoveResidualMargins
  <2>2. IsActive(i)' <=> IsActive(i)
    BY <2>1 DEF IsActive, Registered
  <2> QED BY <1>2, <2>1, <2>2 DEF Live
<1> QED BY <1>1, <1>2, <1>3, <1>4, <1>7, <1>8, <1>9 DEF fills

\* Only a registered intent is live, so that it holds a place already given.
LEMMA LiveIsPlaced ==
    TypeOK /\ LineageInv =>
        \A i \in Intents : Live(i) => Registered(i) /\ sequence[i] \in 1..nextSequence
BY DEF LineageInv, ResidualInv, ResidualLedger, OnePlaceOneOrder, Live, IsActive

\* A residual is alone at its place: the intent it continues was, and goes.
LEMMA SettleLive ==
    ASSUME TypeOK, LineageInv, NEW s \in Provable[BatchCircuit], Settle(s)
    PROVE  LiveInv'
<1> DEFINE fills == s.fills
<1>1. ASSUME NEW r \in Residuals(fills)
      PROVE  \E k \in DOMAIN fills :
               /\ fills[k].residual = r /\ fills[k].intent \in Filled(fills)
               /\ fills[k].intent \in Intents
               /\ sequence'[r] = sequence[fills[k].intent]
               /\ Live(fills[k].intent)
  <2>1. PICK k \in WithResidual(fills) : fills[k].residual = r
    BY DEF Residuals
  <2>2. k \in DOMAIN fills /\ fills[k].intent \in Filled(fills)
    BY <2>1 DEF WithResidual, Filled
  <2>3. sequence'[r] = sequence[fills[k].intent]
    BY <2>1, SettleMoves
  <2>4. fills[k].intent \in Intents /\ IsActive(fills[k].intent)
    BY <2>2, SettleMoves
  <2> QED BY <2>1, <2>2, <2>3, <2>4 DEF Live
<1>2. \A j, k \in DOMAIN fills : fills[j].intent = fills[k].intent => j = k
  BY SettleMoves
<1>3. ASSUME NEW i \in Intents, Live(i)', i \notin Residuals(fills)
      PROVE  Live(i) /\ sequence'[i] = sequence[i] /\ i \notin Filled(fills)
  BY <1>3, SettleMoves
<1>4. nextSequence' <= MaxSequence
  BY SettleMoves DEF LineageInv, LiveInv
<1> HIDE DEF fills
<1>5. ASSUME NEW i \in Intents, NEW j \in Intents, Live(i)', Live(j)',
             sequence'[i] = sequence'[j]
      PROVE  i = j
  <2> USE DEF LineageInv, LiveInv
  <2>1. CASE i \in Residuals(fills) /\ j \in Residuals(fills)
    <3>1. PICK k \in DOMAIN fills : /\ fills[k].residual = i
                                    /\ fills[k].intent \in Intents
                                    /\ sequence'[i] = sequence[fills[k].intent]
                                    /\ Live(fills[k].intent)
      BY <1>1, <2>1
    <3>2. PICK l \in DOMAIN fills : /\ fills[l].residual = j
                                    /\ fills[l].intent \in Intents
                                    /\ sequence'[j] = sequence[fills[l].intent]
                                    /\ Live(fills[l].intent)
      BY <1>1, <2>1
    <3>3. fills[k].intent = fills[l].intent
      BY <1>5, <3>1, <3>2
    <3> QED BY <1>2, <3>1, <3>2, <3>3
  <2>2. CASE i \in Residuals(fills) /\ j \notin Residuals(fills)
    BY <1>1, <1>3, <1>5, <2>2
  <2>3. CASE i \notin Residuals(fills) /\ j \in Residuals(fills)
    BY <1>1, <1>3, <1>5, <2>3
  <2>4. CASE i \notin Residuals(fills) /\ j \notin Residuals(fills)
    BY <1>3, <1>5, <2>4
  <2> QED BY <2>1, <2>2, <2>3, <2>4
<1> QED BY <1>4, <1>5 DEF LiveInv

\* Every step keeps the live intents at places of their own.
LEMMA NextLive ==
    ASSUME TypeOK, LineageInv, [Next]_vars
    PROVE  LiveInv'
<1>1. CASE \E s \in Provable[BatchCircuit] : Settle(s)
  BY <1>1, SettleLive
<1>2. ASSUME NEW i \in Intents, NEW c \in Commitments, ClaimResidual(i, c)
      PROVE  LiveInv'
  <2>1. \A j \in Intents : Live(j)' => Live(j)
    BY <1>2 DEF ClaimResidual, registryVars, Live, IsActive, Registered, TypeOK, BatchTypeOK
  <2>2. UNCHANGED <<sequence, nextSequence>>
    BY <1>2 DEF ClaimResidual, registryVars
  <2> QED BY <2>1, <2>2 DEF LineageInv, LiveInv
<1>3. ASSUME NEW i \in Intents, NEW p \in Payloads, Submit(i, p), UNCHANGED batchVars
      PROVE  LiveInv'
  <2>1. nextSequence' = nextSequence + 1 /\ nextSequence < MaxSequence /\ nextSequence \in Nat
    BY <1>3 DEF Submit, TypeOK, RegistryTypeOK
  <2>2. \A j \in Intents \ {i} : sequence'[j] = sequence[j] /\ (Live(j)' => Live(j))
    BY <1>3 DEF Submit, batchVars, Live, IsActive, Registered, TypeOK, RegistryTypeOK
  <2>3. sequence'[i] = nextSequence + 1
    BY <1>3 DEF Submit, TypeOK, RegistryTypeOK
  <2>4. \A j \in Intents : Live(j) => sequence[j] \in 1..nextSequence
    BY LiveIsPlaced
  <2> QED BY <2>1, <2>2, <2>3, <2>4, IntentRegistryAssumption DEF LineageInv, LiveInv
<1>4. ASSUME NEW i \in Intents, Cancel(i), UNCHANGED batchVars
      PROVE  LiveInv'
  <2>1. \A j \in Intents : Live(j)' => Live(j)
    BY <1>4 DEF Cancel, batchVars, Live, IsActive, Registered
  <2>2. UNCHANGED <<sequence, nextSequence>>
    BY <1>4 DEF Cancel
  <2> QED BY <2>1, <2>2 DEF LineageInv, LiveInv
<1>5. CASE UNCHANGED <<registryVars, batches, residualMargin, claimedResidual>>
  BY <1>5 DEF registryVars, LineageInv, LiveInv, Live, IsActive, Registered
<1> QED BY <1>1, <1>2, <1>3, <1>4, <1>5, StepKinds DEF RegistryStep

\* The order at the place of a live intent is what that intent says.
LivePlacesShow ==
    \A i \in Intents : Live(i) =>
        /\ sequence[i] \in 1..MaxSequence
        /\ LineageStatus[sequence[i]] = StageBy(i)
        /\ LineageMargin[sequence[i]] = residualMargin[i]

\* A place without a live intent was not given yet, or its order is at its end.
EmptyPlacesShow ==
    \A n \in 1..MaxSequence : (\A i \in Intents : Live(i) => sequence[i] # n) =>
        /\ LineageStatus[n] = IF n > nextSequence THEN "none" ELSE "closed"
        /\ LineageMargin[n] = 0

\* A live intent is the only one that its place is looked up by.
LEMMA PlaceOfLive == TypeOK /\ LineageInv => LivePlacesShow
<1> SUFFICES ASSUME TypeOK, LineageInv, NEW i \in Intents, Live(i)
             PROVE  /\ sequence[i] \in 1..MaxSequence
                    /\ LineageStatus[sequence[i]] = StageBy(i)
                    /\ LineageMargin[sequence[i]] = residualMargin[i]
  BY DEF LivePlacesShow
<1> DEFINE n == sequence[i]
<1>1. Registered(i) /\ n \in 1..nextSequence
  BY LiveIsPlaced
<1>2. n \in 1..MaxSequence /\ ~(n > nextSequence)
  BY <1>1, IntentRegistryAssumption DEF TypeOK, RegistryTypeOK, LineageInv, LiveInv
<1>3. i \in Lineage(n) /\ \A j \in Lineage(n) : j \in Intents /\ (Live(j) => j = i)
  BY <1>1 DEF Lineage, LineageInv, LiveInv
<1>4. residualMargin[i] \in Nat
  BY DEF TypeOK, BatchTypeOK
<1> HIDE DEF n
<1>5. LineageStatus[n] = StageBy(i)
  <2>1. LineageStatus[n] =
          IF \E j \in Lineage(n) : IsActive(j) THEN "open"
          ELSE IF \E j \in Lineage(n) : claimedResidual[j] # NoCommitment THEN "claimed"
          ELSE IF \E j \in Lineage(n) : residualMargin[j] > 0 THEN "cancelled"
          ELSE "closed"
    BY <1>2 DEF LineageStatus
  <2>2. /\ (\E j \in Lineage(n) : IsActive(j)) <=> IsActive(i)
        /\ (\E j \in Lineage(n) : claimedResidual[j] # NoCommitment)
              <=> claimedResidual[i] # NoCommitment
        /\ (\E j \in Lineage(n) : residualMargin[j] > 0) <=> residualMargin[i] > 0
    BY <1>3 DEF Live
  <2> QED BY <2>1, <2>2 DEF StageBy, Live
<1>6. LineageMargin[n] = residualMargin[i]
  <2>1. CASE residualMargin[i] > 0
    <3>1. (CHOOSE j \in Lineage(n) : residualMargin[j] > 0) = i
      BY <1>3, <2>1 DEF Live
    <3> QED BY <1>2, <1>3, <2>1, <3>1 DEF LineageMargin
  <2>2. CASE ~(residualMargin[i] > 0)
    <3>1. ~\E j \in Lineage(n) : residualMargin[j] > 0
      BY <1>3, <2>2 DEF Live
    <3> QED BY <1>2, <1>4, <2>2, <3>1 DEF LineageMargin
  <2> QED BY <2>1, <2>2
<1> QED BY <1>2, <1>5, <1>6 DEF n

\* Without a live intent nothing is found at a place.
LEMMA PlaceOfNone == EmptyPlacesShow
<1> SUFFICES ASSUME NEW n \in 1..MaxSequence, \A i \in Intents : Live(i) => sequence[i] # n
             PROVE  /\ LineageStatus[n] = IF n > nextSequence THEN "none" ELSE "closed"
                    /\ LineageMargin[n] = 0
  BY DEF EmptyPlacesShow
<1>1. \A i \in Lineage(n) : ~Live(i)
  BY DEF Lineage
<1>2. /\ ~\E i \in Lineage(n) : IsActive(i)
      /\ ~\E i \in Lineage(n) : claimedResidual[i] # NoCommitment
      /\ ~\E i \in Lineage(n) : residualMargin[i] > 0
  BY <1>1 DEF Live
<1>3. LineageMargin[n] = 0
  BY <1>2 DEF LineageMargin
<1>4. LineageStatus[n] = IF n > nextSequence THEN "none" ELSE "closed"
  BY <1>2 DEF LineageStatus
<1> QED BY <1>3, <1>4

\* A place whose live intents stay, in their stages and with their margins, shows
\* the same order.
LEMMA PlaceKept ==
    ASSUME TypeOK, LineageInv, TypeOK', LineageInv', NEW n \in 1..MaxSequence,
           n > nextSequence <=> n > nextSequence',
           \A i \in Intents :
             (Live(i) /\ sequence[i] = n) \/ (Live(i)' /\ sequence'[i] = n) =>
               /\ Live(i) /\ Live(i)' /\ sequence[i] = n /\ sequence'[i] = n
               /\ StageBy(i)' = StageBy(i)
               /\ residualMargin'[i] = residualMargin[i]
    PROVE  LineageStatus'[n] = LineageStatus[n] /\ LineageMargin'[n] = LineageMargin[n]
<1>1. LivePlacesShow /\ EmptyPlacesShow
  BY PlaceOfLive, PlaceOfNone
<1>2. LivePlacesShow' /\ EmptyPlacesShow'
  <2>1. (TypeOK /\ LineageInv => LivePlacesShow)'
    BY PlaceOfLive, PTL
  <2>2. EmptyPlacesShow'
    BY PlaceOfNone, PTL
  <2> QED BY <2>1, <2>2
<1>3. ASSUME NEW i \in Intents, Live(i), sequence[i] = n
      PROVE  LineageStatus'[n] = LineageStatus[n] /\ LineageMargin'[n] = LineageMargin[n]
  <2>1. Live(i)' /\ sequence'[i] = n /\ StageBy(i)' = StageBy(i)
        /\ residualMargin'[i] = residualMargin[i]
    BY <1>3
  <2>2. LineageStatus'[sequence'[i]] = StageBy(i)' /\ LineageMargin'[sequence'[i]] = residualMargin'[i]
    BY <1>2, <2>1 DEF LivePlacesShow
  <2>3. LineageStatus[n] = StageBy(i) /\ LineageMargin[n] = residualMargin[i]
    BY <1>1, <1>3 DEF LivePlacesShow
  <2> QED BY <2>1, <2>2, <2>3
<1>4. CASE \A i \in Intents : ~(Live(i) /\ sequence[i] = n)
  <2>1. \A i \in Intents : Live(i)' => sequence'[i] # n
    BY <1>4
  <2>2. LineageStatus'[n] = (IF n > nextSequence' THEN "none" ELSE "closed") /\ LineageMargin'[n] = 0
    BY <1>2, <2>1 DEF EmptyPlacesShow
  <2>3. LineageStatus[n] = (IF n > nextSequence THEN "none" ELSE "closed") /\ LineageMargin[n] = 0
    BY <1>1, <1>4 DEF EmptyPlacesShow
  <2> QED BY <2>2, <2>3
<1> QED BY <1>3, <1>4

\* The orders seen from the contracts have the types of IntentLineage, and a
\* place that was given is never without an order again.
PlacesShow ==
    /\ LivePlacesShow
    /\ EmptyPlacesShow
    /\ LineageStatus \in [1..MaxSequence -> Orders!Stages]
    /\ LineageMargin \in [1..MaxSequence -> Nat]
    /\ \A n \in 1..MaxSequence : LineageStatus[n] = "none" <=> n > nextSequence

\* Live intents make the order of a place a stage and a margin.
LEMMA PlacesTyped == TypeOK /\ LineageInv => PlacesShow
<1> SUFFICES ASSUME TypeOK, LineageInv PROVE PlacesShow
  OBVIOUS
<1>1. LivePlacesShow /\ EmptyPlacesShow
  BY PlaceOfLive, PlaceOfNone
<1>2. \A i \in Intents : residualMargin[i] \in Nat
  BY DEF TypeOK, BatchTypeOK
<1>3. LineageStatus \in [1..MaxSequence -> Orders!Stages]
  BY DEF LineageStatus, Orders!Stages
<1>4. ASSUME NEW n \in 1..MaxSequence
      PROVE  LineageMargin[n] \in Nat /\ (LineageStatus[n] = "none" <=> n > nextSequence)
  <2>1. ASSUME NEW i \in Intents, Live(i), sequence[i] = n
        PROVE  LineageMargin[n] \in Nat /\ (LineageStatus[n] = "none" <=> n > nextSequence)
    <3>1. LineageMargin[n] \in Nat /\ LineageStatus[n] # "none"
      BY <1>1, <1>2, <2>1 DEF LivePlacesShow, StageBy
    <3>2. ~(n > nextSequence)
      BY <2>1, LiveIsPlaced DEF TypeOK, RegistryTypeOK
    <3> QED BY <3>1, <3>2
  <2>2. CASE \A i \in Intents : Live(i) => sequence[i] # n
    BY <1>1, <2>2 DEF EmptyPlacesShow
  <2> QED BY <2>1, <2>2
<1>5. LineageMargin = [n \in 1..MaxSequence |-> LineageMargin[n]]
  BY DEF LineageMargin
<1> QED BY <1>1, <1>3, <1>4, <1>5 DEF PlacesShow

\* A function changed at one place.
LEMMA ChangedAtOne ==
    ASSUME NEW S, NEW T, NEW f \in [S -> T], NEW g \in [S -> T], NEW x \in S,
           \A y \in S : y # x => g[y] = f[y]
    PROVE  g = [f EXCEPT ![x] = g[x]]
OBVIOUS

\* A step that changes at most one place.
LEMMA OnePlaceChanged ==
    ASSUME PlacesShow, PlacesShow', NEW n \in 1..MaxSequence,
           \A k \in 1..MaxSequence : k # n =>
             LineageStatus'[k] = LineageStatus[k] /\ LineageMargin'[k] = LineageMargin[k]
    PROVE  /\ LineageStatus' = [LineageStatus EXCEPT ![n] = LineageStatus'[n]]
           /\ LineageMargin' = [LineageMargin EXCEPT ![n] = LineageMargin'[n]]
           /\ LineageMargin'[n] = LineageMargin[n] => LineageMargin' = LineageMargin
<1>1. /\ LineageStatus \in [1..MaxSequence -> Orders!Stages]
      /\ LineageMargin \in [1..MaxSequence -> Nat]
      /\ LineageStatus' \in [1..MaxSequence -> Orders!Stages]
      /\ LineageMargin' \in [1..MaxSequence -> Nat]
  BY DEF PlacesShow
<1>2. LineageStatus' = [LineageStatus EXCEPT ![n] = LineageStatus'[n]]
  BY <1>1, ChangedAtOne
<1>3. LineageMargin' = [LineageMargin EXCEPT ![n] = LineageMargin'[n]]
  BY <1>1, ChangedAtOne
<1> QED BY <1>1, <1>2, <1>3

\* The two states of a step both show their orders.
LEMMA PlacesShown ==
    ASSUME TypeOK, LineageInv, TypeOK', LineageInv'
    PROVE  PlacesShow /\ PlacesShow'
<1>1. (TypeOK /\ LineageInv => PlacesShow)'
  BY PlacesTyped, PTL
<1> QED BY <1>1, PlacesTyped

\* A submission opens the next place.
LEMMA SubmitOpens ==
    ASSUME TypeOK, LineageInv, TypeOK', LineageInv', NEW i \in Intents, NEW p \in Payloads,
           Submit(i, p), UNCHANGED batchVars
    PROVE  \E n \in 1..MaxSequence : Orders!Open(n)
<1> DEFINE n == nextSequence + 1
<1>1. n \in 1..MaxSequence /\ nextSequence' = n /\ nextSequence \in Nat
  BY IntentRegistryAssumption DEF Submit, TypeOK, RegistryTypeOK
<1>2. \A j \in Intents \ {i} : /\ sequence'[j] = sequence[j] /\ residualMargin'[j] = residualMargin[j]
                               /\ Live(j)' <=> Live(j)
                               /\ StageBy(j)' = StageBy(j)
  BY DEF Submit, batchVars, Live, StageBy, IsActive, Registered, TypeOK, RegistryTypeOK
<1>3. sequence'[i] = n /\ ~Registered(i)
  BY DEF Submit, TypeOK, RegistryTypeOK
<1>4. i \notin cancelled /\ residualMargin[i] = 0
  BY <1>3 DEF LineageInv, ResidualInv, ResidualLedger, TypeOK, BatchTypeOK
<1>5. IsActive(i)' /\ ~Live(i) /\ residualMargin'[i] = 0
  BY <1>3, <1>4, IntentRegistryAssumption, LiveIsPlaced
  DEF Submit, batchVars, IsActive, Registered, TypeOK, RegistryTypeOK
<1>6. PlacesShow /\ PlacesShow'
  BY PlacesShown
<1>7. LineageStatus'[n] = "open" /\ LineageMargin'[n] = 0
  <2>1. LineageStatus'[sequence'[i]] = StageBy(i)' /\ LineageMargin'[sequence'[i]] = residualMargin'[i]
    BY <1>5, <1>6 DEF PlacesShow, LivePlacesShow, Live
  <2> QED BY <1>3, <1>5, <2>1 DEF StageBy
<1>8. LineageStatus[n] = "none" /\ LineageMargin[n] = 0
  <2>1. \A j \in Intents : Live(j) => sequence[j] # n
    BY <1>1, LiveIsPlaced
  <2> QED BY <1>1, <2>1, PlaceOfNone DEF EmptyPlacesShow
<1> HIDE DEF n
<1>9. ASSUME NEW k \in 1..MaxSequence, k # n
      PROVE  LineageStatus'[k] = LineageStatus[k] /\ LineageMargin'[k] = LineageMargin[k]
  <2>1. k > nextSequence <=> k > nextSequence'
    BY <1>1, <1>9 DEF n
  <2>2. \A j \in Intents : j = i => ~Live(j) /\ sequence'[j] # k
    BY <1>3, <1>5, <1>9
  <2>3. \A j \in Intents :
          (Live(j) /\ sequence[j] = k) \/ (Live(j)' /\ sequence'[j] = k) =>
               /\ Live(j) /\ Live(j)' /\ sequence[j] = k /\ sequence'[j] = k
               /\ StageBy(j)' = StageBy(j)
               /\ residualMargin'[j] = residualMargin[j]
    BY <1>2, <2>2
  <2> QED BY <2>1, <2>3, PlaceKept
<1>10. \A k \in 1..MaxSequence : k < n => LineageStatus[k] # "none"
  BY <1>1, <1>6 DEF n, PlacesShow
<1>11. LineageStatus' = [LineageStatus EXCEPT ![n] = "open"] /\ LineageMargin' = LineageMargin
  BY <1>1, <1>6, <1>7, <1>8, <1>9, OnePlaceChanged
<1>12. Orders!Open(n)
  BY <1>8, <1>10, <1>11 DEF Orders!Open
<1> QED BY <1>1, <1>12

\* A cancellation withdraws the order of the intent.
LEMMA CancelWithdraws ==
    ASSUME TypeOK, LineageInv, TypeOK', LineageInv', NEW i \in Intents,
           Cancel(i), UNCHANGED batchVars
    PROVE  \E n \in 1..MaxSequence : Orders!Withdraw(n)
<1> DEFINE n == sequence[i]
<1>1. /\ IsActive(i) /\ Live(i) /\ ~IsActive(i)'
      /\ UNCHANGED <<sequence, nextSequence, residualMargin, claimedResidual, payloadOf>>
      /\ residualMargin[i] \in Nat
  BY DEF Cancel, batchVars, Live, IsActive, TypeOK, BatchTypeOK
<1>2. claimedResidual[i] = NoCommitment
  BY <1>1 DEF IsActive, LineageInv, ResidualInv, ResidualLedger
<1>3. \A j \in Intents : j # i => (IsActive(j)' <=> IsActive(j))
  BY DEF Cancel, IsActive, Registered
<1>4. \A j \in Intents : j # i => (Live(j)' <=> Live(j)) /\ StageBy(j)' = StageBy(j)
  BY <1>1, <1>3 DEF Live, StageBy
<1>5. PlacesShow /\ PlacesShow'
  BY PlacesShown
<1>6. n \in 1..MaxSequence /\ ~(n > nextSequence)
      /\ LineageStatus[n] = "open" /\ LineageMargin[n] = residualMargin[i]
  <2>1. n \in 1..MaxSequence /\ LineageStatus[n] = StageBy(i) /\ LineageMargin[n] = residualMargin[i]
    BY <1>1, <1>5 DEF PlacesShow, LivePlacesShow
  <2>2. LineageStatus[n] = "open"
    BY <1>1, <2>1 DEF StageBy
  <2> HIDE DEF n
  <2> QED BY <1>5, <2>1, <2>2 DEF PlacesShow
<1>7. \A j \in Intents : j # i => ~(Live(j) /\ sequence[j] = n)
  BY <1>1 DEF LineageInv, LiveInv
<1>8. /\ LineageStatus'[n] = IF residualMargin[i] > 0 THEN "cancelled" ELSE "closed"
      /\ LineageMargin'[n] = residualMargin[i]
  <2>1. CASE residualMargin[i] > 0
    <3>1. Live(i)' /\ StageBy(i)' = "cancelled"
      BY <1>1, <1>2, <2>1 DEF Live, StageBy
    <3>2. LineageStatus'[sequence'[i]] = StageBy(i)' /\ LineageMargin'[sequence'[i]] = residualMargin'[i]
      BY <1>5, <3>1 DEF PlacesShow, LivePlacesShow
    <3> QED BY <1>1, <2>1, <3>1, <3>2
  <2>2. CASE ~(residualMargin[i] > 0)
    <3>1. ~Live(i)'
      BY <1>1, <1>2, <2>2 DEF Live
    <3>2. \A j \in Intents : Live(j)' => sequence'[j] # n
      BY <1>1, <1>4, <1>7, <3>1
    <3>3. LineageStatus'[n] = (IF n > nextSequence' THEN "none" ELSE "closed") /\ LineageMargin'[n] = 0
      BY <1>5, <1>6, <3>2 DEF PlacesShow, EmptyPlacesShow
    <3> QED BY <1>1, <1>6, <2>2, <3>3
  <2> QED BY <2>1, <2>2
<1> HIDE DEF n
<1>9. ASSUME NEW k \in 1..MaxSequence, k # n
      PROVE  LineageStatus'[k] = LineageStatus[k] /\ LineageMargin'[k] = LineageMargin[k]
  <2>1. \A j \in Intents :
          (Live(j) /\ sequence[j] = k) \/ (Live(j)' /\ sequence'[j] = k) =>
               /\ Live(j) /\ Live(j)' /\ sequence[j] = k /\ sequence'[j] = k
               /\ StageBy(j)' = StageBy(j)
               /\ residualMargin'[j] = residualMargin[j]
    BY <1>1, <1>4, <1>9 DEF n
  <2>2. k > nextSequence <=> k > nextSequence'
    BY <1>1
  <2> QED BY <2>1, <2>2, PlaceKept
<1>10. /\ LineageStatus' = [LineageStatus EXCEPT ![n] = LineageStatus'[n]]
       /\ LineageMargin' = LineageMargin
  BY <1>5, <1>6, <1>8, <1>9, OnePlaceChanged
<1>11. Orders!Withdraw(n)
  BY <1>6, <1>8, <1>10 DEF Orders!Withdraw
<1> QED BY <1>6, <1>11

\* A claim pays the order of the residual back.
LEMMA ClaimPaysBack ==
    ASSUME TypeOK, LineageInv, TypeOK', LineageInv', NEW i \in Intents, NEW c \in Commitments,
           ClaimResidual(i, c)
    PROVE  \E n \in 1..MaxSequence : Orders!PayBack(n)
<1> DEFINE n == sequence[i]
<1>1. /\ i \in cancelled /\ residualMargin[i] > 0
      /\ UNCHANGED registryVars
      /\ residualMargin' = [residualMargin EXCEPT ![i] = 0]
      /\ claimedResidual' = [claimedResidual EXCEPT ![i] = c]
  BY DEF ClaimResidual
<1>2. c # NoCommitment
  BY ShieldedPoolAssumption
<1>3. \A j \in Intents : IsActive(j)' <=> IsActive(j)
  BY <1>1 DEF registryVars, IsActive, Registered
<1>4. /\ \A j \in Intents : j # i => /\ residualMargin'[j] = residualMargin[j]
                                     /\ claimedResidual'[j] = claimedResidual[j]
      /\ residualMargin'[i] = 0 /\ claimedResidual'[i] = c
      /\ residualMargin[i] # 0
  BY <1>1 DEF TypeOK, BatchTypeOK
<1>5. Live(i) /\ Live(i)' /\ ~IsActive(i) /\ ~IsActive(i)' /\ claimedResidual[i] = NoCommitment
  BY <1>1, <1>2, <1>3, <1>4 DEF Live, IsActive, LineageInv, ResidualInv, ResidualLedger
<1>6. \A j \in Intents : j # i => (Live(j)' <=> Live(j)) /\ StageBy(j)' = StageBy(j)
  BY <1>3, <1>4 DEF Live, StageBy
<1>7. PlacesShow /\ PlacesShow'
  BY PlacesShown
<1>8. n \in 1..MaxSequence /\ LineageStatus[n] = "cancelled"
  BY <1>5, <1>7 DEF PlacesShow, LivePlacesShow, StageBy
<1>9. sequence' = sequence /\ nextSequence' = nextSequence
  BY <1>1 DEF registryVars
<1>10. LineageStatus'[n] = "claimed" /\ LineageMargin'[n] = 0
  <2>1. LineageStatus'[sequence'[i]] = StageBy(i)' /\ LineageMargin'[sequence'[i]] = residualMargin'[i]
    BY <1>5, <1>7 DEF PlacesShow, LivePlacesShow
  <2> QED BY <1>2, <1>4, <1>5, <1>9, <2>1 DEF StageBy
<1> HIDE DEF n
<1>11. ASSUME NEW k \in 1..MaxSequence, k # n
       PROVE  LineageStatus'[k] = LineageStatus[k] /\ LineageMargin'[k] = LineageMargin[k]
  <2>1. \A j \in Intents :
          (Live(j) /\ sequence[j] = k) \/ (Live(j)' /\ sequence'[j] = k) =>
               /\ Live(j) /\ Live(j)' /\ sequence[j] = k /\ sequence'[j] = k
               /\ StageBy(j)' = StageBy(j)
               /\ residualMargin'[j] = residualMargin[j]
    BY <1>4, <1>6, <1>9, <1>11 DEF n
  <2>2. k > nextSequence <=> k > nextSequence'
    BY <1>9
  <2> QED BY <2>1, <2>2, PlaceKept
<1>12. /\ LineageStatus' = [LineageStatus EXCEPT ![n] = LineageStatus'[n]]
       /\ LineageMargin' = [LineageMargin EXCEPT ![n] = LineageMargin'[n]]
  BY <1>7, <1>8, <1>11, OnePlaceChanged
<1>13. Orders!PayBack(n)
  BY <1>8, <1>10, <1>12 DEF Orders!PayBack
<1> QED BY <1>8, <1>13

\* A batch trades the orders of the intents it fills: two at least, those of its
\* first execution.
LEMMA SettleTrades ==
    ASSUME TypeOK, LineageInv, TypeOK', LineageInv', NEW s \in Provable[BatchCircuit], Settle(s)
    PROVE  \E traded \in SUBSET (1..MaxSequence) : Orders!Trade(traded)
<1> DEFINE fills == s.fills
           traded == {sequence[i] : i \in Filled(fills)}
<1>1. PlacesShow /\ PlacesShow'
  BY PlacesShown
<1>2. \A i \in Filled(fills) : /\ i \in Intents /\ IsActive(i) /\ Live(i)
                               /\ sequence[i] \in 1..MaxSequence
                               /\ LineageStatus[sequence[i]] = "open"
                               /\ LineageMargin[sequence[i]] = residualMargin[i]
                               /\ ~Live(i)'
  <2>1. \A i \in Filled(fills) : i \in Intents /\ IsActive(i) /\ ~Live(i)'
    BY SettleMoves
  <2> QED BY <1>1, <2>1 DEF PlacesShow, LivePlacesShow, Live, StageBy
<1>3. /\ \A j, k \in DOMAIN fills : fills[j].intent = fills[k].intent => j = k
      /\ UNCHANGED <<nextSequence, claimedResidual>>
  BY SettleMoves
<1>4. \A k \in WithResidual(fills) :
        /\ fills[k].residual \in Intents
        /\ Live(fills[k].residual)' /\ IsActive(fills[k].residual)'
        /\ sequence'[fills[k].residual] = sequence[fills[k].intent]
        /\ residualMargin'[fills[k].residual] > 0
        /\ residualMargin[fills[k].intent] > 0 =>
              residualMargin'[fills[k].residual] < residualMargin[fills[k].intent]
  BY SettleMoves DEF Live
<1>5. \A i \in Intents : i \notin Filled(fills) /\ i \notin Residuals(fills) =>
        /\ sequence'[i] = sequence[i]
        /\ residualMargin'[i] = residualMargin[i]
        /\ IsActive(i)' <=> IsActive(i)
        /\ Live(i)' <=> Live(i)
        /\ StageBy(i)' = StageBy(i)
  BY SettleMoves DEF StageBy
<1>6. \A r \in Residuals(fills) : /\ ~Live(r)
                                  /\ \E k \in WithResidual(fills) : r = fills[k].residual
  BY SettleMoves DEF Residuals
<1>7. \E n, k \in traded : n # k
  <2>1. /\ s.makers \in Seq(Intents) /\ s.takers \in Seq(Intents)
        /\ Len(s.makers) >= 1 /\ ValidPriority(s)
    BY BatchSettlementAssumption DEF Settle, ValidCounts, PublicItems
  <2>2. /\ s.makers[1] \in Filled(fills) /\ s.takers[1] \in Filled(fills)
        /\ sequence[s.makers[1]] < sequence[s.takers[1]]
    BY <2>1 DEF ValidPriority
  <2>3. sequence[s.makers[1]] # sequence[s.takers[1]]
    BY <1>2, <2>2
  <2> QED BY <2>2, <2>3
<1>8. ASSUME NEW k \in DOMAIN fills
      PROVE  LET n == sequence[fills[k].intent] IN
             \/ LineageStatus'[n] = "closed" /\ LineageMargin'[n] = 0
             \/ /\ LineageStatus'[n] = "open"
                /\ LineageMargin'[n] > 0
                /\ LineageMargin[n] > 0 => LineageMargin'[n] < LineageMargin[n]
  <2> DEFINE i == fills[k].intent
             n == sequence[i]
  <2>1. i \in Filled(fills)
    BY DEF Filled
  <2>2. CASE k \in WithResidual(fills)
    <3> DEFINE r == fills[k].residual
    <3>1. /\ LineageStatus'[sequence'[r]] = StageBy(r)'
          /\ LineageMargin'[sequence'[r]] = residualMargin'[r]
      BY <1>1, <1>4, <2>2 DEF PlacesShow, LivePlacesShow
    <3>2. StageBy(r)' = "open" /\ sequence'[r] = n
      BY <1>4, <2>2 DEF StageBy
    <3> QED BY <1>2, <1>4, <2>1, <2>2, <3>1, <3>2
  <2>3. CASE k \notin WithResidual(fills)
    <3>1. ASSUME NEW j \in Intents, Live(j)', sequence'[j] = n
          PROVE  FALSE
      <4>1. CASE j \in Residuals(fills)
        <5>1. PICK l \in WithResidual(fills) : j = fills[l].residual
          BY <1>6, <4>1
        <5>2. sequence[fills[l].intent] = n /\ fills[l].intent \in Filled(fills) /\ l \in DOMAIN fills
          BY <1>4, <3>1, <5>1 DEF WithResidual, Filled
        <5>3. fills[l].intent = i
          <6>1. /\ fills[l].intent \in Intents /\ i \in Intents
                /\ Live(fills[l].intent) /\ Live(i)
            BY <1>2, <2>1, <5>2
          <6> QED BY <5>2, <6>1 DEF LineageInv, LiveInv
        <5> QED BY <1>3, <2>3, <5>2, <5>3
      <4>2. CASE j \notin Residuals(fills)
        <5>1. j \notin Filled(fills)
          BY <1>2, <3>1
        <5>2. Live(j) /\ sequence[j] = n
          BY <1>5, <3>1, <4>2, <5>1
        <5> QED BY <1>2, <2>1, <5>1, <5>2 DEF LineageInv, LiveInv
      <4> QED BY <4>1, <4>2
    <3>2. n \in 1..MaxSequence /\ ~(n > nextSequence)
      BY <1>1, <1>2, <2>1 DEF PlacesShow
    <3>3. LineageStatus'[n] = (IF n > nextSequence' THEN "none" ELSE "closed") /\ LineageMargin'[n] = 0
      BY <1>1, <3>1, <3>2 DEF PlacesShow, EmptyPlacesShow
    <3> QED BY <1>3, <3>2, <3>3
  <2> QED BY <2>2, <2>3
<1>9. ASSUME NEW n \in 1..MaxSequence, n \notin traded
      PROVE  LineageStatus'[n] = LineageStatus[n] /\ LineageMargin'[n] = LineageMargin[n]
  <2>1. ASSUME NEW j \in Intents, Live(j), sequence[j] = n
        PROVE  j \notin Filled(fills) /\ j \notin Residuals(fills)
    BY <1>6, <1>9, <2>1
  <2>2. ASSUME NEW j \in Intents, Live(j)', sequence'[j] = n
        PROVE  j \notin Filled(fills) /\ j \notin Residuals(fills)
    <3>1. j \notin Filled(fills)
      BY <1>2, <2>2
    <3>2. ASSUME NEW l \in WithResidual(fills), j = fills[l].residual PROVE FALSE
      <4>1. fills[l].intent \in Filled(fills)
        BY DEF WithResidual, Filled
      <4> QED BY <1>4, <1>9, <2>2, <3>2, <4>1
    <3> QED BY <1>6, <3>1, <3>2
  <2> HIDE DEF traded, fills
  <2>3. \A j \in Intents :
          (Live(j) /\ sequence[j] = n) \/ (Live(j)' /\ sequence'[j] = n) =>
               /\ Live(j) /\ Live(j)' /\ sequence[j] = n /\ sequence'[j] = n
               /\ StageBy(j)' = StageBy(j)
               /\ residualMargin'[j] = residualMargin[j]
    BY <1>5, <2>1, <2>2
  <2>4. n > nextSequence <=> n > nextSequence'
    BY <1>3
  <2> QED BY <2>3, <2>4, PlaceKept
<1>10. \A n \in traded : \E k \in DOMAIN fills : n = sequence[fills[k].intent]
  BY DEF Filled
<1>11. \A n \in traded :
         /\ n \in 1..MaxSequence /\ LineageStatus[n] = "open"
         /\ \/ LineageStatus'[n] = "closed" /\ LineageMargin'[n] = 0
            \/ /\ LineageStatus'[n] = "open"
               /\ LineageMargin'[n] > 0
               /\ LineageMargin[n] > 0 => LineageMargin'[n] < LineageMargin[n]
  BY <1>2, <1>8, <1>10
<1> HIDE DEF traded, fills
<1>12. /\ LineageStatus' \in [1..MaxSequence -> Orders!Stages]
       /\ LineageMargin' \in [1..MaxSequence -> Nat]
  BY <1>1 DEF PlacesShow
<1>13. Orders!Trade(traded)
  BY <1>7, <1>9, <1>11, <1>12 DEF Orders!Trade
<1> QED BY <1>11, <1>13

\* LineageInv is inductive given the types: its parts are, each with the others.
LEMMA LineageInvariant == Spec => []LineageInv
<1>1. Init => ResidualInv /\ LiveInv
  BY ShieldedPoolAssumption, IntentRegistryAssumption
  DEF Init, RegistryInit, ResidualInv, ResidualLedger, FilledIntents, SettledBatches, IsSettled,
      LiveInv, Live, IsActive, Registered
<1>2. TypeOK /\ LineageInv /\ [Next]_vars => ResidualInv' /\ LiveInv'
  BY NextResidualInv, NextLive DEF LineageInv
<1>3. LineageInv <=> ResidualInv /\ OnePlaceOneOrder /\ LiveInv
  BY DEF LineageInv
<1> QED BY <1>1, <1>2, <1>3, TypeCorrect, PlacesAreUnique, PTL DEF Spec

\* Every step of the contracts is a step of the orders, or none.
LEMMA StepsKeepPromise ==
    ASSUME TypeOK, LineageInv, TypeOK', LineageInv', [Next]_vars
    PROVE  [Orders!LineageNext]_(Orders!lineageVars)
<1>1. CASE \E s \in Provable[BatchCircuit] : Settle(s)
  BY <1>1, SettleTrades DEF Orders!LineageNext
<1>2. CASE \E i \in Intents, c \in Commitments : ClaimResidual(i, c)
  BY <1>2, ClaimPaysBack DEF Orders!LineageNext
<1>3. ASSUME NEW i \in Intents, NEW p \in Payloads, Submit(i, p), UNCHANGED batchVars
      PROVE  [Orders!LineageNext]_(Orders!lineageVars)
  BY <1>3, SubmitOpens DEF Orders!LineageNext
<1>4. ASSUME NEW i \in Intents, Cancel(i), UNCHANGED batchVars
      PROVE  [Orders!LineageNext]_(Orders!lineageVars)
  BY <1>4, CancelWithdraws DEF Orders!LineageNext
<1>5. CASE UNCHANGED <<registryVars, batches, residualMargin, claimedResidual>>
  BY <1>5 DEF Orders!lineageVars, registryVars, LineageStatus, LineageMargin, Lineage, IsActive,
              Registered
<1> QED BY <1>1, <1>2, <1>3, <1>4, <1>5, StepKinds DEF RegistryStep

\* The contracts implement the lineage of orders: an order keeps its place from
\* submission to its end, what a fill leaves of its margin only shrinks, and what
\* is left is traded to the end or paid back, never both.
THEOREM PromiseIsKept == Spec => OrdersKeepTheirPromise
<1>1. Init => Orders!LineageInit
  <2> SUFFICES ASSUME Init PROVE Orders!LineageInit
    OBVIOUS
  <2>1. nextSequence = 0 /\ \A i \in Intents : ~Registered(i)
    BY DEF Init, RegistryInit, Registered
  <2>2. \A n \in 1..MaxSequence : n > nextSequence /\ Lineage(n) = {}
    BY <2>1 DEF Lineage
  <2> QED BY <2>2 DEF Orders!LineageInit, LineageStatus, LineageMargin
<1>2. TypeOK /\ LineageInv /\ TypeOK' /\ LineageInv' /\ [Next]_vars
        => [Orders!LineageNext]_(Orders!lineageVars)
  BY StepsKeepPromise
<1> QED BY <1>1, <1>2, TypeCorrect, LineageInvariant, PTL
        DEF Spec, OrdersKeepTheirPromise, Orders!LineageSpec
=============================================================================
