--------------------------- MODULE ProofRequests ---------------------------
(***************************************************************************)
(* The prover's requests that are about notes, intents, disclosures and    *)
(* funding (PositionEnds has those about positions): what ProverService    *)
(* checks before it starts nargo, and what the Noir circuits assert.  The  *)
(* two are written in two languages by hand, and a request the first lets  *)
(* through and the second refuses costs a build to find out.               *)
(*                                                                         *)
(* A digest is what it opens to: a request says whether a commitment is    *)
(* that of the opening beside it, whether the nullifier is the note's, and *)
(* where the membership path leads.  A blank is a zero among the digests   *)
(* that only the circuit compares with zero.                               *)
(***************************************************************************)
EXTENDS Integers

CONSTANTS
    Amounts,       \* amounts of notes, sizes, margins and prices
    Batches,       \* batch numbers
    Rates,         \* premium rates of funding, signed
    Elapsed,       \* elapsed times of funding
    Interval,      \* intervalMs
    FundingScale,  \* RATE_SCALE
    Caps,          \* maxFundingDelta, 0 for none
    OldIndexes     \* funding indexes before an update

ASSUME RequestsAssumption ==
    /\ Amounts \subseteq Nat /\ Batches \subseteq Nat /\ Caps \subseteq Nat
    /\ Elapsed \subseteq Nat \ {0}
    /\ Interval \in Nat \ {0} /\ FundingScale \in Nat \ {0}
    /\ Rates \subseteq Int /\ OldIndexes \subseteq Int

VARIABLES
    request,  \* the request in hand
    answer    \* "asked", "refused" by the prover, "failed" in nargo, "proved"

requestVars == <<request, answer>>

\* A path of the right length leads to the root or elsewhere.
Paths == {"root", "elsewhere", "short"}
\* The opening of a change note: two digests, zero digests, or fields left out.
ChangeOpenings == {"given", "zero", "missing"}

-----------------------------------------------------------------------------
(* deposit-note                                                            *)

Deposits == [kind : {"deposit"}, amount : Amounts, token : BOOLEAN, commitment : BOOLEAN,
             opens : BOOLEAN]

\* proveDepositNote
DepositPlanned(r) == r.amount > 0 /\ r.token /\ r.commitment /\ r.opens

\* fn main of deposit-note
DepositFailures(r) ==
    {a \in {"amount", "blank", "opening"} :
        \/ a = "amount" /\ r.amount = 0
        \/ a = "blank" /\ ~(r.token /\ r.commitment)
        \/ a = "opening" /\ ~r.opens}

-----------------------------------------------------------------------------
(* intent-validity                                                         *)

\* change: the change commitment is zero, that of the change, or another one.
Intents == [kind : {"intent"}, size : {0, 1}, margin : Amounts, price : {0, 1},
            expiry : Batches, batch : Batches, note : Amounts, digests : BOOLEAN,
            path : Paths, opens : BOOLEAN, nullifies : BOOLEAN,
            change : {"zero", "right", "wrong"}, opening : {"given", "zero"}, blank : BOOLEAN]

\* Variant of ChangeIsNamed: a change whose digests are zero passes.
ChangeIsNamed_AnyOpening(r) ==
    IF r.note = r.margin THEN r.change = "zero" ELSE r.change = "right"

\* The change note of an intent: none, or one with an opening that can be found.
ChangeIsNamed(r) ==
    IF r.note = r.margin THEN r.change = "zero"
    ELSE r.change = "right" /\ r.opening = "given"

\* intentValidityProofPlan; digests: the margin root and the nullifier are there.
IntentPlanned(r) ==
    /\ r.size > 0 /\ r.margin > 0 /\ r.price > 0
    /\ r.expiry >= r.batch
    /\ r.digests
    /\ r.note >= r.margin
    /\ r.path # "short"
    /\ r.opens /\ r.nullifies
    /\ ChangeIsNamed(r)

\* fn main of intent-validity
IntentFailures(r) ==
    {a \in {"amount", "expiry", "blank", "path", "opening", "change"} :
        \/ a = "amount" /\ (r.size = 0 \/ r.margin = 0 \/ r.price = 0 \/ r.note < r.margin)
        \/ a = "expiry" /\ r.expiry < r.batch
        \/ a = "blank" /\ (r.blank \/ ~r.digests)
        \/ a = "path" /\ r.path # "root"
        \/ a = "opening" /\ ~(r.opens /\ r.nullifies)
        \/ a = "change" /\ IF r.note = r.margin THEN r.change # "zero"
                           ELSE r.change # "right" \/ r.opening # "given"}

-----------------------------------------------------------------------------
(* withdraw                                                                *)

\* The prover makes the change commitment itself, from the opening given.
Withdrawals == [kind : {"withdrawal"}, note : Amounts, amount : Amounts, path : Paths,
                opens : BOOLEAN, nullifies : BOOLEAN, asset : BOOLEAN,
                opening : ChangeOpenings, blank : BOOLEAN]

\* proveWithdrawal: a change opening has to be there, whatever it says.
WithdrawalPlanned(r) ==
    /\ r.note > 0 /\ r.amount > 0 /\ r.amount <= r.note
    /\ r.path # "short"
    /\ r.opens /\ r.nullifies /\ r.asset
    /\ r.amount < r.note => r.opening # "missing"

\* fn main of withdraw
WithdrawalFailures(r) ==
    {a \in {"amount", "blank", "path", "opening", "asset", "change opening"} :
        \/ a = "amount" /\ (r.note = 0 \/ r.amount = 0 \/ r.amount > r.note)
        \/ a = "blank" /\ r.blank
        \/ a = "path" /\ r.path # "root"
        \/ a = "opening" /\ ~(r.opens /\ r.nullifies)
        \/ a = "asset" /\ ~r.asset
        \/ a = "change opening" /\ r.amount < r.note /\ r.opening # "given"}

-----------------------------------------------------------------------------
(* conditional-close and disclosure                                        *)

Conditionals == [kind : {"conditional"}, isLong : BOOLEAN, takesProfit : BOOLEAN,
                 reduceOnly : BOOLEAN, size : {0, 1}, trigger : Amounts, mark : Amounts,
                 blank : BOOLEAN]

\* isConditionalCloseTriggered
ConditionHolds(r) ==
    IF r.isLong
    THEN IF r.takesProfit THEN r.mark >= r.trigger ELSE r.mark <= r.trigger
    ELSE IF r.takesProfit THEN r.mark <= r.trigger ELSE r.mark >= r.trigger

\* proveConditionalClose
ConditionalPlanned(r) ==
    /\ r.reduceOnly /\ r.size > 0 /\ r.trigger > 0 /\ r.mark > 0
    /\ ConditionHolds(r)

\* fn main of conditional-close: the same four comparisons.
ConditionalFailures(r) ==
    {a \in {"amount", "blank", "condition"} :
        \/ a = "amount" /\ (~r.reduceOnly \/ r.size = 0 \/ r.trigger = 0 \/ r.mark = 0)
        \/ a = "blank" /\ r.blank
        \/ a = "condition" /\ CASE r.isLong /\ r.takesProfit -> r.mark < r.trigger
                                [] r.isLong /\ ~r.takesProfit -> r.mark > r.trigger
                                [] ~r.isLong /\ r.takesProfit -> r.mark > r.trigger
                                [] OTHER -> r.mark < r.trigger}

Disclosures == [kind : {"disclosure"}, value : Amounts, threshold : Amounts, path : Paths,
                blank : BOOLEAN]

\* proveDisclosure: the one request whose path the prover walks itself.
DisclosurePlanned(r) == r.value <= r.threshold /\ r.path = "root"

\* fn main of disclosure
DisclosureFailures(r) ==
    {a \in {"amount", "blank", "path"} :
        \/ a = "amount" /\ r.value > r.threshold
        \/ a = "blank" /\ r.blank
        \/ a = "path" /\ r.path # "root"}

-----------------------------------------------------------------------------
(* funding-update                                                          *)

\* bigint division rounds towards zero.
Quotient(n, d) == IF n >= 0 THEN n \div d ELSE -((-n) \div d)
Magnitude(n) == IF n < 0 THEN -n ELSE n

\* fundingIndexDelta: signed, capped on both sides.
IndexDelta(r) ==
    LET raw == Quotient(r.mark * r.rate * r.elapsed, FundingScale * Interval)
    IN  CASE r.cap = 0 -> raw
          [] r.cap > 0 /\ raw > r.cap -> r.cap
          [] r.cap > 0 /\ raw < -r.cap -> -r.cap
          [] OTHER -> raw

\* What the engine asks to be proved: the index moved by the delta.
Fundings == [kind : {"funding"}, old : OldIndexes, mark : Amounts, rate : Rates,
             elapsed : Elapsed, cap : Caps]

\* proveFundingSettlement
FundingPlanned(r) == IndexDelta(r) # 0 /\ r.mark > 0

\* Variant of CircuitDelta: the sign is applied before the division, which
\* rounds down.
CircuitDelta_Floored(r) ==
    LET raw == (r.mark * r.rate * r.elapsed) \div (FundingScale * Interval)
        magnitude == Magnitude(raw)
    IN  IF r.cap > 0 /\ magnitude > r.cap THEN r.cap ELSE magnitude

\* funding_delta: of the magnitudes.
CircuitDelta(r) ==
    LET raw == (r.mark * Magnitude(r.rate) * r.elapsed) \div (FundingScale * Interval)
    IN  IF r.cap > 0 /\ raw > r.cap THEN r.cap ELSE raw

\* signedParts of the prover.
Parts(n) == [abs |-> Magnitude(n), negative |-> n < 0]

\* assert_signed_add: the sum of two magnitudes with signs, zero not negative.
SignedAdd(a, delta, negative) ==
    IF a.negative = negative THEN [abs |-> a.abs + delta, negative |-> negative]
    ELSE IF a.abs > delta THEN [abs |-> a.abs - delta, negative |-> a.negative]
    ELSE IF a.abs = delta THEN [abs |-> 0, negative |-> FALSE]
    ELSE [abs |-> delta - a.abs, negative |-> negative]

\* fn main of funding-update
FundingFailures(r) ==
    {a \in {"delta", "sum"} :
        \/ a = "delta" /\ CircuitDelta(r) = 0
        \/ a = "sum" /\ SignedAdd(Parts(r.old), CircuitDelta(r), r.rate < 0)
                          # Parts(r.old + IndexDelta(r))}

-----------------------------------------------------------------------------
(* A request and its answer                                                *)

Requests == Deposits \cup Intents \cup Withdrawals \cup Conditionals \cup Disclosures
              \cup Fundings

Planned(r) ==
    CASE r.kind = "deposit" -> DepositPlanned(r)
      [] r.kind = "intent" -> IntentPlanned(r)
      [] r.kind = "withdrawal" -> WithdrawalPlanned(r)
      [] r.kind = "conditional" -> ConditionalPlanned(r)
      [] r.kind = "disclosure" -> DisclosurePlanned(r)
      [] r.kind = "funding" -> FundingPlanned(r)

Failures(r) ==
    CASE r.kind = "deposit" -> DepositFailures(r)
      [] r.kind = "intent" -> IntentFailures(r)
      [] r.kind = "withdrawal" -> WithdrawalFailures(r)
      [] r.kind = "conditional" -> ConditionalFailures(r)
      [] r.kind = "disclosure" -> DisclosureFailures(r)
      [] r.kind = "funding" -> FundingFailures(r)

\* The prover throws before it writes anything.
Refuse ==
    /\ answer = "asked" /\ ~Planned(request)
    /\ answer' = "refused"
    /\ UNCHANGED request

\* buildProofArtifact: nargo execute fails at an assertion, or the proof is made.
Build ==
    /\ answer = "asked" /\ Planned(request)
    /\ answer' = IF Failures(request) = {} THEN "proved" ELSE "failed"
    /\ UNCHANGED request

RequestsInit == request \in Requests /\ answer = "asked"
RequestsNext == Refuse \/ Build
RequestsSpec == RequestsInit /\ [][RequestsNext]_requestVars

-----------------------------------------------------------------------------
(* Properties                                                              *)

\* What the prover leaves to the circuits on purpose: that a path leads to the
\* root, and the digests it never compares with zero.
LeftToCircuit(r) ==
    {"path", "blank"} \cup (IF r.kind = "withdrawal" THEN {"change opening"} ELSE {})

\* A request the prover accepts fails in the circuit for nothing but those: every
\* amount, order, change, condition and rounding of the TypeScript is the circuit's.
AcceptedIsProvable ==
    answer = "failed" => Failures(request) \subseteq LeftToCircuit(request)
=============================================================================
