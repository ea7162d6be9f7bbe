---------------------------- MODULE ShieldedPool ----------------------------
(***************************************************************************)
(* contracts/shielded-pool: the escrow of the collateral token, the set of *)
(* note commitments, the set of spent nullifiers and the fee reserve.      *)
(*                                                                         *)
(* One token is modelled (the reserve is kept per token and the calls of   *)
(* one token do not touch another's).  Amounts are those the circuits      *)
(* prove; i128 overflow, which the code turns into a panic, is out of the  *)
(* bounds.  The calls made by batch-settlement in the middle of its own    *)
(* transactions are building blocks over single variables; the calls that  *)
(* anyone makes directly are actions.                                      *)
(***************************************************************************)
EXTENDS ProofGate, Integers, Functions

CONSTANTS
    Nullifiers,     \* note nullifiers
    Commitments,    \* note commitments
    NoCommitment,   \* the all-zero commitment: a withdrawal without change
    DepositCircuit,
    WithdrawCircuit,
    MaxPoolBalance  \* bound on what the pool holds in a run

ASSUME ShieldedPoolAssumption ==
    /\ NoCommitment \notin Commitments
    /\ MaxPoolBalance \in Nat
    /\ Provable[DepositCircuit] \subseteq [amount : Int, commitment : Commitments]
    /\ Provable[WithdrawCircuit] \subseteq [nullifier : Nullifiers, amount : Int,
                                           change : Commitments \cup {NoCommitment}]

VARIABLES
    commitments,      \* Commitment flags
    nullifiers,       \* Nullifier flags
    withdrawals,      \* Withdrawal and AssetWithdrawal: nullifier -> amount, 0 if none
    poolBalance,      \* the token balance of the contract
    feeReserve,       \* FeeReserve of the token
    feePaid,          \* FeePaid of the token
    feeDestinations,  \* whether FeeDestinations is set
    poolWriter        \* the Writer flag of batch-settlement

poolVars == <<commitments, nullifiers, withdrawals, poolBalance,
              feeReserve, feePaid, feeDestinations, poolWriter>>

FeeAmounts == [insurance : Nat, treasury : Nat]

PoolTypeOK ==
    /\ commitments \subseteq Commitments
    /\ nullifiers \subseteq Nullifiers
    /\ withdrawals \in [Nullifiers -> Nat]
    /\ poolBalance \in Nat
    /\ feeReserve \in FeeAmounts
    /\ feePaid \in FeeAmounts
    /\ feeDestinations \in BOOLEAN
    /\ poolWriter \in BOOLEAN

Reserved(r) == r.insurance + r.treasury

-----------------------------------------------------------------------------
(* Calls that other contracts make inside their own transactions.          *)

\* Variant of RecordNullifiers: only repetitions inside one call are refused.
RecordNullifiers_NoLookup(ns) ==
    /\ IsInjective(ns)
    /\ nullifiers' = nullifiers \cup Range(ns)

\* spend, once per nullifier of the sequence: a nullifier seen before, in the
\* set or earlier in the sequence, is refused.
RecordNullifiers(ns) ==
    /\ IsInjective(ns)
    /\ Range(ns) \cap nullifiers = {}
    /\ nullifiers' = nullifiers \cup Range(ns)

\* deposit, once per commitment of the sequence.
RecordCommitments(cs) ==
    /\ IsInjective(cs)
    /\ Range(cs) \cap commitments = {}
    /\ commitments' = commitments \cup Range(cs)

\* Variant of AccrueFees: the reserve grows whatever the balance is.
AccrueFees_Unbacked(insurance, treasury) ==
    /\ poolWriter
    /\ insurance >= 0 /\ treasury >= 0
    /\ insurance > 0 \/ treasury > 0 => feeDestinations
    /\ feeReserve' = [insurance |-> feeReserve.insurance + insurance,
                      treasury  |-> feeReserve.treasury + treasury]

\* accrue_fees, by a writer: the reserve grows only while the balance covers it.
AccrueFees(insurance, treasury) ==
    LET reserve == [insurance |-> feeReserve.insurance + insurance,
                    treasury  |-> feeReserve.treasury + treasury]
    IN  /\ poolWriter
        /\ insurance >= 0 /\ treasury >= 0
        /\ insurance > 0 \/ treasury > 0 => feeDestinations
        /\ poolBalance >= Reserved(reserve)
        /\ feeReserve' = reserve

\* deposit_claim, by a writer: a note for value that is already in the pool.
DepositClaim(amount, c) ==
    /\ poolWriter
    /\ amount > 0
    /\ ProofAccepted(DepositCircuit, [amount |-> amount, commitment |-> c])
    /\ RecordCommitments(<<c>>)

-----------------------------------------------------------------------------
(* Transactions of the pool itself.                                        *)

\* deposit: anyone may record a commitment; no value moves.
Deposit(c) ==
    /\ RecordCommitments(<<c>>)
    /\ UNCHANGED <<nullifiers, withdrawals, poolBalance, feeReserve, feePaid,
                   feeDestinations, poolWriter>>

\* deposit_asset: the token moves in and the proved note is recorded.
DepositAsset(amount, c) ==
    /\ amount > 0
    /\ poolBalance + amount <= MaxPoolBalance
    /\ ProofAccepted(DepositCircuit, [amount |-> amount, commitment |-> c])
    /\ poolBalance' = poolBalance + amount
    /\ RecordCommitments(<<c>>)
    /\ UNCHANGED <<nullifiers, withdrawals, feeReserve, feePaid,
                   feeDestinations, poolWriter>>

\* What withdraw and withdraw_asset share: the proof, the nullifier, the record
\* and the change note.
WithdrawNote(n, amount, change) ==
    /\ amount > 0
    /\ ProofAccepted(WithdrawCircuit,
                     [nullifier |-> n, amount |-> amount, change |-> change])
    /\ RecordNullifiers(<<n>>)
    /\ withdrawals' = [withdrawals EXCEPT ![n] = amount]
    /\ RecordCommitments(IF change = NoCommitment THEN <<>> ELSE <<change>>)
    /\ UNCHANGED <<feeReserve, feePaid, feeDestinations, poolWriter>>

\* withdraw: the withdrawal is recorded and no token moves.
Withdraw(n, amount, change) ==
    /\ WithdrawNote(n, amount, change)
    /\ UNCHANGED poolBalance

\* Variant of WithdrawAsset: the balance is not checked.
WithdrawAsset_Unchecked(n, amount, change) ==
    /\ WithdrawNote(n, amount, change)
    /\ poolBalance' = poolBalance - amount

\* withdraw_asset: the token moves out, and never out of the fee reserve.
WithdrawAsset(n, amount, change) ==
    /\ poolBalance - amount >= Reserved(feeReserve)
    /\ WithdrawNote(n, amount, change)
    /\ poolBalance' = poolBalance - amount

\* Variant of DistributeFees: the half that was paid stays reserved.
DistributeFees_KeepsReserve(half) ==
    /\ feeDestinations
    /\ feeReserve[half] > 0
    /\ poolBalance >= feeReserve[half]
    /\ feePaid' = [feePaid EXCEPT ![half] = @ + feeReserve[half]]
    /\ poolBalance' = poolBalance - feeReserve[half]
    /\ UNCHANGED <<commitments, nullifiers, withdrawals, feeReserve,
                   feeDestinations, poolWriter>>

\* distribute_fee_reserve: one half of the reserve is paid to its destination.
DistributeFees(half) ==
    /\ feeDestinations
    /\ feeReserve[half] > 0
    /\ poolBalance >= feeReserve[half]
    /\ feeReserve' = [feeReserve EXCEPT ![half] = 0]
    /\ feePaid' = [feePaid EXCEPT ![half] = @ + feeReserve[half]]
    /\ poolBalance' = poolBalance - feeReserve[half]
    /\ UNCHANGED <<commitments, nullifiers, withdrawals, feeDestinations, poolWriter>>

\* configure_fee_destinations, by the administrator, once.
ConfigureFeeDestinations ==
    /\ ~feeDestinations
    /\ feeDestinations' = TRUE
    /\ UNCHANGED <<commitments, nullifiers, withdrawals, poolBalance,
                   feeReserve, feePaid, poolWriter>>

\* set_writer for batch-settlement, by the administrator.
SetPoolWriter(enabled) ==
    /\ poolWriter' = enabled
    /\ UNCHANGED <<commitments, nullifiers, withdrawals, poolBalance,
                   feeReserve, feePaid, feeDestinations>>

\* A deployed pool; what an instance's administration sets up itself is not yet
\* set up.
PoolInit ==
    /\ commitments = {}
    /\ nullifiers = {}
    /\ withdrawals = [n \in Nullifiers |-> 0]
    /\ poolBalance = 0
    /\ feeReserve = [insurance |-> 0, treasury |-> 0]
    /\ feePaid = [insurance |-> 0, treasury |-> 0]
    /\ feeDestinations = ("setup" \notin Administration)
    /\ poolWriter = ("writers" \notin Administration)

PoolNext ==
    \/ \E c \in Commitments : Deposit(c)
    \/ \E p \in Provable[DepositCircuit] : DepositAsset(p.amount, p.commitment)
    \/ \E p \in Provable[WithdrawCircuit] : Withdraw(p.nullifier, p.amount, p.change)
    \/ \E p \in Provable[WithdrawCircuit] : WithdrawAsset(p.nullifier, p.amount, p.change)
    \/ \E half \in {"insurance", "treasury"} : DistributeFees(half)
    \/ "setup" \in Administration /\ ConfigureFeeDestinations
    \/ "writers" \in Administration /\ \E enabled \in BOOLEAN : SetPoolWriter(enabled)

-----------------------------------------------------------------------------

\* FeeReserveBacked: the pool always holds the tokens of its fee reserve, so
\* that a distribution can be paid, whatever the order of settlements that
\* accrue fees, withdrawals and distributions.
FeeReserveBacked == poolBalance >= Reserved(feeReserve)
=============================================================================
