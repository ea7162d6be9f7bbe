------------------------- MODULE PositionLifecycle -------------------------
(***************************************************************************)
(* contracts/position-close, liquidation and conditional-order over the    *)
(* position tree, the markets and the proof ledger: how a position ends.   *)
(*                                                                         *)
(* A position is opened by a batch settlement.  It is closed by its owner, *)
(* by a triggered conditional order, or with a maker's position in one     *)
(* transaction; or anybody liquidates it with a proof.  Each contract has  *)
(* its own record of what it did, and the three race for a nullifier in    *)
(* position-state, which is all that the contracts compare.                *)
(*                                                                         *)
(* Statements (public inputs of the circuits; the market is in none):      *)
(*   close        [mark, root, position, nullifier, close, new, output]    *)
(*   liquidation  [mark, rate, root, position, nullifier, reward]          *)
(*   trigger      [mark, nullifier, close]                                 *)
(***************************************************************************)
EXTENDS PositionState, Market

CONSTANTS
    CloseIds,            \* close commitments
    Outputs,             \* commitments of margin outputs and rewards
    NoRecord,            \* the entry is absent
    RhoOf,               \* position -> digest of the rho its commitment hides
    RhoIn,               \* nullifier -> digest of the rho it was hashed from
    Openings,            \* sequences of positions a batch may open
    Registrations,       \* arguments of register that callers use
    CloseCircuit, LiquidationCircuit, TriggerCircuit

CloseWriter == "position-close"
LiquidationWriter == "liquidation"
BatchWriter == "batch-settlement"

\* What the circuits assert of a statement: the position is a leaf under the
\* root, and the nullifier is a hash of a spend secret and the position's rho.
\* The spend secret is a witness that nothing else binds, so that a position has
\* as many nullifiers as there are secrets.
Membership(s) ==
    /\ s.root \in Seq(Positions)
    /\ \E k \in DOMAIN s.root : s.root[k] = s.position
    /\ s.nullifier \in PositionNullifiers
    /\ RhoIn[s.nullifier] = RhoOf[s.position]

VARIABLES
    closes,       \* Close: close commitment -> record
    closeSpent,   \* PositionSpent flags of position-close
    liquidated,   \* Liquidated: position nullifier -> record
    orders,       \* Order: close commitment -> market and nullifier
    triggers      \* Trigger: close commitment -> market, nullifier and price

endVars == <<closes, closeSpent, liquidated, orders, triggers>>
vars == <<gateVars, positionVars, marketVars, endVars>>

\* index is output_position_index; conditional is history: the entry point that
\* asked for a trigger made this record.
CloseRecord == [market : Markets, statement : Provable[CloseCircuit], index : Nat,
                conditional : BOOLEAN]
LiquidationRecord == [market : Markets, statement : Provable[LiquidationCircuit]]
OrderRecord == [market : Markets, nullifier : PositionNullifiers]
TriggerRecord == [market : Markets, nullifier : PositionNullifiers, mark : Prices]

ASSUME LifecycleAssumption ==
    /\ DOMAIN RhoOf = Positions /\ DOMAIN RhoIn = PositionNullifiers
    /\ Openings \subseteq Seq(Positions)
    /\ Registrations \subseteq [market : Markets, nullifier : PositionNullifiers,
                                close : CloseIds]
    /\ \A s \in Provable[CloseCircuit] :
          /\ Membership(s) /\ s.mark \in Prices /\ s.close \in CloseIds
          /\ s.new \in Positions /\ s.output \in Outputs
    /\ \A s \in Provable[LiquidationCircuit] :
          /\ Membership(s) /\ s.mark \in Prices /\ s.rate \in Int /\ s.reward \in Outputs
    /\ \A s \in Provable[TriggerCircuit] :
          s.mark \in Prices /\ s.nullifier \in PositionNullifiers /\ s.close \in CloseIds
    /\ NoRecord \notin CloseRecord \cup LiquidationRecord \cup OrderRecord \cup TriggerRecord

EndTypeOK ==
    /\ closes \in [CloseIds -> CloseRecord \cup {NoRecord}]
    /\ closeSpent \subseteq PositionNullifiers
    /\ liquidated \in [PositionNullifiers -> LiquidationRecord \cup {NoRecord}]
    /\ orders \in [CloseIds -> OrderRecord \cup {NoRecord}]
    /\ triggers \in [CloseIds -> TriggerRecord \cup {NoRecord}]

LifecycleTypeOK ==
    /\ GateTypeOK
    /\ PositionTypeOK
    /\ MarketTypeOK
    /\ EndTypeOK

-----------------------------------------------------------------------------
(* conditional-order                                                       *)

\* register: by anyone, once per close commitment.
Register(m, n, c) ==
    /\ orders[c] = NoRecord
    /\ orders' = [orders EXCEPT ![c] = [market |-> m, nullifier |-> n]]
    /\ UNCHANGED <<gateVars, positionVars, marketVars, closes, closeSpent, liquidated,
                   triggers>>

\* trigger: the registered order, at the price of now, once.
Trigger(m, s) ==
    /\ orders[s.close] = [market |-> m, nullifier |-> s.nullifier]
    /\ MarkedAt(m, s.mark)
    /\ ProofAccepted(TriggerCircuit, s)
    /\ triggers[s.close] = NoRecord
    /\ triggers' = [triggers EXCEPT
                      ![s.close] = [market |-> m, nullifier |-> s.nullifier, mark |-> s.mark]]
    /\ UNCHANGED <<gateVars, positionVars, marketVars, closes, closeSpent, liquidated, orders>>

\* Variant of IsTriggeredFor: whose position the order closes is not compared.
IsTriggeredFor_AnyPosition(m, n, c) ==
    /\ triggers[c] # NoRecord
    /\ triggers[c].market = m

\* is_triggered_for: whatever the price has done since.
IsTriggeredFor(m, n, c) ==
    /\ triggers[c] # NoRecord
    /\ triggers[c].market = m
    /\ triggers[c].nullifier = n

-----------------------------------------------------------------------------
(* position-close                                                          *)

\* The checks of settle_position_close that come before position-state is
\* called.
CloseAllowed(m, s, conditional) ==
    /\ MarkedAt(m, s.mark)
    /\ ProofAccepted(CloseCircuit, s)
    /\ conditional => IsTriggeredFor(m, s.nullifier, s.close)
    /\ closes[s.close] = NoRecord
    /\ s.nullifier \notin closeSpent

\* The leaves once the first k of the closes have appended their new position.
LeavesAfter(ss, k) == leaves \o [j \in 1..k |-> ss[j].new]

\* Variant of RecordCloses: every leg of a pair is given the index of the first.
RecordCloses_SameIndex(m, ss, conditional) ==
    /\ closes' = [c \in CloseIds |->
                    IF \E k \in DOMAIN ss : ss[k].close = c
                    THEN LET k == CHOOSE k \in DOMAIN ss : ss[k].close = c IN
                         [market |-> m, statement |-> ss[k],
                          index |-> Len(leaves), conditional |-> conditional /\ k = 1]
                    ELSE closes[c]]
    /\ closeSpent' = closeSpent \cup {ss[k].nullifier : k \in DOMAIN ss}

\* The Close and PositionSpent entries: only the first leg of a conditional pair
\* asked for a trigger.
RecordCloses(m, ss, conditional) ==
    /\ closes' = [c \in CloseIds |->
                    IF \E k \in DOMAIN ss : ss[k].close = c
                    THEN LET k == CHOOSE k \in DOMAIN ss : ss[k].close = c IN
                         [market |-> m, statement |-> ss[k],
                          index |-> Len(leaves) + k - 1, conditional |-> conditional /\ k = 1]
                    ELSE closes[c]]
    /\ closeSpent' = closeSpent \cup {ss[k].nullifier : k \in DOMAIN ss}

\* One or two closes in a transaction, one after the other: each spends its
\* position against a root of before or of an earlier leg, and appends one new
\* position.  It panics as a whole.
SettleCloses(m, ss, conditional) ==
    /\ \A k \in DOMAIN ss :
          /\ CloseAllowed(m, ss[k], conditional /\ k = 1)
          /\ ss[k].root \in roots \cup {LeavesAfter(ss, j) : j \in 1..(k - 1)}
          /\ ~PositionIsSpent(ss[k].nullifier)
          /\ \A j \in 1..(k - 1) :
                ss[j].nullifier # ss[k].nullifier /\ ss[j].close # ss[k].close
    /\ CloseWriter \in positionWriters
    /\ treeIsPoseidon2
    /\ Len(leaves) + Len(ss) <= TreeCapacity
    /\ positionSpent' = [n \in PositionNullifiers |->
                           IF \E k \in DOMAIN ss : ss[k].nullifier = n
                           THEN ss[CHOOSE k \in DOMAIN ss : ss[k].nullifier = n].position
                           ELSE positionSpent[n]]
    /\ leaves' = LeavesAfter(ss, Len(ss))
    /\ roots' = roots \cup {LeavesAfter(ss, k) : k \in DOMAIN ss}
    /\ RecordCloses(m, ss, conditional)
    /\ UNCHANGED <<gateVars, marketVars, treeIsPoseidon2, positionWriters, liquidated, orders,
                   triggers>>

\* settle (conditional) and settle_manual.
SettleClose(m, s, conditional) == SettleCloses(m, <<s>>, conditional)

\* settle_pair_manual and settle_pair_conditional.
SettlePair(m, trader, maker, conditional) ==
    /\ trader.mark = maker.mark
    /\ trader.nullifier # maker.nullifier
    /\ trader.position # maker.position
    /\ trader.close # maker.close
    /\ trader.output # maker.output
    /\ SettleCloses(m, <<trader, maker>>, conditional)

-----------------------------------------------------------------------------
(* liquidation, and the batches that open positions                        *)

\* liquidate: no position takes the place of the liquidated one.
Liquidate(m, s) ==
    /\ s.rate > 0
    /\ MarkedAt(m, s.mark)
    /\ ProofAccepted(LiquidationCircuit, s)
    /\ liquidated[s.nullifier] = NoRecord
    /\ SpendPosition(LiquidationWriter, s.root, s.position, s.nullifier)
    /\ liquidated' = [liquidated EXCEPT ![s.nullifier] = [market |-> m, statement |-> s]]
    /\ UNCHANGED <<gateVars, marketVars, leaves, roots, treeIsPoseidon2, positionWriters,
                   closes, closeSpent, orders, triggers>>

\* What batch_settlement.settle does to this part of the state (module
\* BatchSettlement has the rest of it); commitments may come again.
OpenPositions(ps) ==
    /\ AppendMany(BatchWriter, ps)
    /\ UNCHANGED <<gateVars, marketVars, positionSpent, treeIsPoseidon2, positionWriters,
                   endVars>>

Init ==
    /\ GateInit
    /\ PositionInit
    /\ MarketInit
    /\ closes = [c \in CloseIds |-> NoRecord]
    /\ closeSpent = {}
    /\ liquidated = [n \in PositionNullifiers |-> NoRecord]
    /\ orders = [c \in CloseIds |-> NoRecord]
    /\ triggers = [c \in CloseIds |-> NoRecord]

ConditionalNext ==
    \/ \E r \in Registrations : Register(r.market, r.nullifier, r.close)
    \/ \E m \in Markets, s \in Provable[TriggerCircuit] : Trigger(m, s)

CloseNext ==
    \E m \in Markets, conditional \in BOOLEAN, s \in Provable[CloseCircuit] :
        \/ SettleClose(m, s, conditional)
        \/ \E maker \in Provable[CloseCircuit] : SettlePair(m, s, maker, conditional)

Next ==
    \/ GateNext /\ UNCHANGED <<positionVars, marketVars, endVars>>
    \/ PositionNext /\ UNCHANGED <<gateVars, marketVars, endVars>>
    \/ MarketNext /\ UNCHANGED <<gateVars, positionVars, endVars>>
    \/ ConditionalNext
    \/ CloseNext
    \/ \E m \in Markets, s \in Provable[LiquidationCircuit] : Liquidate(m, s)
    \/ \E ps \in Openings : OpenPositions(ps)

Spec == Init /\ [][Next]_vars

-----------------------------------------------------------------------------
(* Properties, and the mapping to PositionBook.                            *)

Closed(c) == closes[c] # NoRecord
Liquidated(n) == liquidated[n] # NoRecord

\* The records, in position-close and in liquidation, of what ended under a
\* nullifier.
Ends(n) ==
    {[how |-> "closed", by |-> c, position |-> closes[c].statement.position] :
        c \in {c \in CloseIds : Closed(c) /\ closes[c].statement.nullifier = n}}
    \cup {[how |-> "liquidated", by |-> l, position |-> liquidated[l].statement.position] :
             l \in {l \in {n} : Liquidated(l)}}

\* A nullifier ends one position once, over all the contracts that can end it:
\* manual closes, triggered closes, either leg of a pair, and liquidations.  None
\* of these asks the others; and what position-state has spent, and as whose, is
\* exactly what one of them has a record of: nothing is gone without a record.
OneEndPerNullifier ==
    \A n \in PositionNullifiers :
        /\ \A e, f \in Ends(n) : e = f
        /\ \A p \in Positions : positionSpent[n] = p <=> \E e \in Ends(n) : e.position = p

\* What position-state says of a spend, "position already spent" (lib.rs:177), is
\* so of the position: under whatever nullifiers, it ends once.
PositionEndsOnce ==
    \A n, l \in PositionNullifiers : \A e \in Ends(n), f \in Ends(l) :
        e.position = f.position => e = f

\* A close's new position is the leaf at the index its record gives, no two
\* records share an index, and the position closed is a leaf before it: with
\* batches appending between, and two legs of one transaction appending one
\* after the other, the server can prove membership of what it reads there.
SuccessorsInPlace ==
    /\ \A c \in CloseIds :
          Closed(c) =>
            LET r == closes[c] IN
            /\ r.index + 1 \in DOMAIN leaves
            /\ leaves[r.index + 1] = r.statement.new
            /\ \E k \in 1..r.index : leaves[k] = r.statement.position
    /\ \A c, d \in CloseIds :
          Closed(c) /\ Closed(d) /\ closes[c].index = closes[d].index => c = d

\* The records of how positions ended are all there is to know of it: one record
\* for every nullifier that is spent, and every successor where its record says.
EndsInPlace == OneEndPerNullifier /\ SuccessorsInPlace

\* A close through an entry point that asks for a trigger is under the nullifier,
\* and in the market, that the conditional order was registered for; what was
\* registered, and what was triggered, stays what it was, whoever registers,
\* triggers or closes in between.
ConditionalClosesAsOrdered ==
    \A c \in CloseIds :
        Closed(c) /\ closes[c].conditional =>
            LET order == [market |-> closes[c].market,
                          nullifier |-> closes[c].statement.nullifier]
            IN  /\ orders[c] = order
                /\ triggers[c] # NoRecord
                /\ [market |-> triggers[c].market, nullifier |-> triggers[c].nullifier] = order

Book == INSTANCE PositionBook
            WITH Nullifiers <- PositionNullifiers,
                 opened <- {leaves[k] : k \in DOMAIN leaves},
                 ended <- [n \in PositionNullifiers |-> Ends(n)],
                 stopped <- paused

\* The contracts together keep the book of positions: a nullifier ends nothing
\* that was not opened, ends nothing twice and never changes what it ended; a
\* liquidation opens nothing, and a pause stops every end.
KeepsTheBook == Book!Spec
=============================================================================
