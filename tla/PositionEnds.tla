---------------------------- MODULE PositionEnds ----------------------------
(***************************************************************************)
(* How one position ends, as the server sees it: the client that closes    *)
(* it, the conditional order that closes it, the liquidator, and the two   *)
(* circuits that must prove what TypeScript has computed.                  *)
(*                                                                         *)
(* A proof takes seconds.  The price and the funding index of the market   *)
(* move meanwhile, so a request carries the price it was proved at and is  *)
(* compared with the price of the moment it arrives.  PositionLifecycle    *)
(* has the contracts; here one of them is what the relays meet of it.      *)
(***************************************************************************)
EXTENDS Integers

CONSTANTS
    PriceScale, RateScale,  \* PRICE_SCALE, RATE_SCALE
    MaintenanceRate,        \* maintenanceMarginRate of the market
    EndMarks,               \* prices of the market
    EndIndexes,             \* its funding indexes, some of them negative
    EndOpenings,            \* [isLong, size, entry, margin] of a position
    EndOrders               \* [takesProfit, price] of a conditional order

ASSUME EndsAssumption ==
    /\ PriceScale \in Nat \ {0} /\ RateScale \in Nat \ {0} /\ MaintenanceRate \in Nat \ {0}
    /\ EndMarks \subseteq Nat \ {0}
    /\ EndIndexes \subseteq Int
    /\ EndOpenings \subseteq [isLong : BOOLEAN, size : Nat \ {0}, entry : Nat \ {0},
                              margin : Nat]
    /\ EndOrders \subseteq [takesProfit : BOOLEAN, price : Nat \ {0}]

VARIABLES
    position,  \* the opening, the funding index it was opened at
    mark,      \* what the market contract says the price is
    index,     \* fundingIndex of the server's market record
    sent,   \* a close or a liquidation between its proof and its arrival
    order,     \* the conditional order of the position
    end        \* how the position ended, and at which price

endsVars == <<position, mark, index, sent, order, end>>

\* 0 stands for no price: fired is the Trigger of the contract, recorded the
\* conditionalCloses entry of the store.
NoOrder == [takesProfit |-> FALSE, price |-> 0, fired |-> 0, recorded |-> 0]
NoRequest == [route |-> "none", mark |-> 0, accepted |-> FALSE]
NotEnded == [route |-> "none", mark |-> 0]
Open == end = NotEnded

\* markPositionClosed, markPositionLiquidated
Ended(route, m) == [route |-> route, mark |-> m]

-----------------------------------------------------------------------------
(* market-math: signed, and rounding towards zero as bigint division does. *)

Divide(n, d) == IF n >= 0 THEN n \div d ELSE -((-n) \div d)

\* unrealizedPnl
UnrealizedPnl(p, m) ==
    Divide(p.size * (IF p.isLong THEN m - p.entry ELSE p.entry - m), PriceScale)

\* expectedFundingPayment: what the position owes; negative when it is owed.
FundingPayment(p, i) ==
    LET payment == Divide(p.size * (i - p.index), PriceScale)
    IN  IF p.isLong THEN payment ELSE -payment

\* equity
EquityOf(p, m, i) == p.margin + UnrealizedPnl(p, m) - FundingPayment(p, i)

\* maintenanceMargin
Maintenance(p, m) == ((((p.size * m) \div PriceScale) * MaintenanceRate) \div RateScale)

\* isLiquidatable
IsLiquidatable(p, m, i) == EquityOf(p, m, i) < Maintenance(p, m)

\* settleClose of the client and of the prover, the fee being nothing.
SettlesSolvent(p, m, i) == EquityOf(p, m, i) >= 0

\* isConditionalCloseTriggered, and the same comparison in the circuit.
IsTriggered(p, o, m) == IF p.isLong = o.takesProfit THEN m >= o.price ELSE m <= o.price

-----------------------------------------------------------------------------
(* The circuits: unsigned, each difference asserted or clamped.            *)

Excess(a, b) == IF a > b THEN a - b ELSE 0

Loss(p, m) ==
    (p.size * (IF p.isLong THEN Excess(p.entry, m) ELSE Excess(m, p.entry))) \div PriceScale
Profit(p, m) ==
    (p.size * (IF p.isLong THEN Excess(m, p.entry) ELSE Excess(p.entry, m))) \div PriceScale

\* position-close: each loss is taken before the credit is added.
CloseIsProvable(p, m, i) ==
    LET payment == FundingPayment(p, i)
        afterPnl == p.margin + Profit(p, m) - Loss(p, m)
    IN  /\ p.margin >= Loss(p, m)
        /\ afterPnl >= payment
        /\ afterPnl - payment = EquityOf(p, m, i)

\* Variant of CircuitEquity: the loss is subtracted without a clamp, and a loss
\* above the margin ends the proof.
CircuitEquity_Unclamped(p, m, i) ==
    LET payment == FundingPayment(p, i)
    IN  IF p.margin < Loss(p, m) THEN Maintenance(p, m) ELSE Excess(p.margin - Loss(p, m), payment)

\* liquidation-check: no profit counts, and what is lost stops at nothing.
CircuitEquity(p, m, i) ==
    LET payment == FundingPayment(p, i)
        beforeFunding == Excess(p.margin, Loss(p, m))
    IN  IF payment < 0 THEN beforeFunding - payment ELSE Excess(beforeFunding, payment)

LiquidationIsProvable(p, m, i) == CircuitEquity(p, m, i) < Maintenance(p, m)

CanClose(p, m, i) == SettlesSolvent(p, m, i) /\ CloseIsProvable(p, m, i)
CanLiquidate(p, m, i) == IsLiquidatable(p, m, i) /\ LiquidationIsProvable(p, m, i)

-----------------------------------------------------------------------------
(* The market moves; the owner registers an order.                         *)

MarkMoves(m) ==
    /\ Open /\ m # mark
    /\ mark' = m
    /\ UNCHANGED <<position, index, sent, order, end>>

FundingMoves(i) ==
    /\ Open /\ i # index
    /\ index' = i
    /\ UNCHANGED <<position, mark, sent, order, end>>

\* registerPendingConditionalOrdersForPosition, register of the service and of
\* the contract: the commitment hides the price.
RegisterOrder(o) ==
    /\ Open /\ order = NoOrder
    /\ order' = [NoOrder EXCEPT !.takesProfit = o.takesProfit, !.price = o.price]
    /\ UNCHANGED <<position, mark, index, sent, end>>

Registered == order.price # 0

-----------------------------------------------------------------------------
(* ConditionalOrdersService                                                *)

\* proveConditionalClose and its circuit, at the price of now.
TriggerAllowed == Registered /\ IsTriggered(position, order, mark)

\* The relay and the contract: an order fires once.
TriggerLands == order.fired = 0

\* trigger: the answer of the relay may be lost with the process.
TriggerOrder(answered) ==
    /\ Open /\ TriggerAllowed /\ TriggerLands
    /\ order' = [order EXCEPT !.fired = mark, !.recorded = IF answered THEN mark ELSE @]
    /\ UNCHANGED <<position, mark, index, sent, end>>

\* execute: the close is proved first, then the order is triggered, then the
\* close is relayed; a price that moves between the two relays refuses the close.
Execute(m) ==
    /\ Open /\ TriggerAllowed /\ TriggerLands
    /\ CanClose(position, mark, index)
    /\ mark' = m
    /\ order' = [order EXCEPT !.fired = mark, !.recorded = mark]
    /\ end' = IF m = mark THEN Ended("order", mark) ELSE end
    /\ UNCHANGED <<position, index, sent>>

-----------------------------------------------------------------------------
(* PositionClosesService and LiquidationsService                           *)

\* context: the client is told the root, the price and the funding index of now.
Asked(route) == sent' = [route |-> route, mark |-> mark, accepted |-> FALSE]

\* closePosition: provePositionClose and the circuit accept it.
AskClose(route) ==
    /\ Open /\ sent = NoRequest
    /\ route = "order" => Registered
    /\ CanClose(position, mark, index)
    /\ Asked(route)
    /\ UNCHANGED <<position, mark, index, order, end>>

\* proveLiquidation by anyone who knows the opening.
AskLiquidation ==
    /\ Open /\ sent = NoRequest
    /\ CanLiquidate(position, mark, index)
    /\ Asked("liquidation")
    /\ UNCHANGED <<position, mark, index, order, end>>

\* Variant of CloseIsValid: the price of the recorded trigger is not compared.
CloseIsValid_AnyTrigger == sent.mark = mark /\ (sent.route = "order" => order.recorded # 0)

\* validateProven; the funding the proof has settled is not looked at.
CloseIsValid ==
    /\ sent.mark = mark
    /\ sent.route = "order" => order.recorded = sent.mark

\* validatePublicState; nor is it here.
LiquidationIsValid == sent.mark = mark

\* createProven, createManualProven: a request that is not valid is dropped, and
\* the maker's records are read before the relay of one that is.
PostEnd ==
    /\ Open /\ sent # NoRequest /\ ~sent.accepted
    /\ LET valid == IF sent.route = "liquidation" THEN LiquidationIsValid ELSE CloseIsValid
       IN  sent' = IF valid THEN [sent EXCEPT !.accepted = TRUE] ELSE NoRequest
    /\ UNCHANGED <<position, mark, index, order, end>>

\* invokeWithMarketPriceGuard and the contract: the price the relay reads before
\* the proof is recorded, after it, and in the transaction.
MarkIsCurrent == sent.mark = mark

\* The relay of a close; the contract wants an order to have fired.
CloseLands == MarkIsCurrent /\ (sent.route = "order" => order.fired # 0)

\* The relay of a liquidation wants nothing else.
LiquidationLands == MarkIsCurrent

\* The transaction, and the records of it in the store.
Relay ==
    /\ Open /\ sent.accepted
    /\ LET lands == IF sent.route = "liquidation" THEN LiquidationLands ELSE CloseLands
       IN  end' = IF lands THEN Ended(sent.route, mark) ELSE end
    /\ sent' = NoRequest
    /\ UNCHANGED <<position, mark, index, order>>

EndsStart(o, i, m) ==
    /\ position = [isLong |-> o.isLong, size |-> o.size, entry |-> o.entry,
                   margin |-> o.margin, index |-> i]
    /\ index = i
    /\ mark = m
    /\ sent = NoRequest
    /\ order = NoOrder
    /\ end = NotEnded

EndsInit == \E o \in EndOpenings, i \in EndIndexes, m \in EndMarks : EndsStart(o, i, m)

EndsNext ==
    \/ \E m \in EndMarks : MarkMoves(m) \/ Execute(m)
    \/ \E i \in EndIndexes : FundingMoves(i)
    \/ \E o \in EndOrders : RegisterOrder(o)
    \/ \E answered \in BOOLEAN : TriggerOrder(answered)
    \/ \E route \in {"manual", "order"} : AskClose(route)
    \/ AskLiquidation
    \/ PostEnd
    \/ Relay

EndsSpec == EndsInit /\ [][EndsNext]_endsVars

-----------------------------------------------------------------------------
(* Properties                                                              *)

\* Whatever the price and the funding do, a position that is owed no funding can
\* be ended: its owner's close is solvent and provable, or its liquidation is.
\* Neither rule may leave a gap to the other, nor TypeScript to the circuits.
PositionsCanEnd ==
    Open /\ FundingPayment(position, index) >= 0 /\ Maintenance(position, mark) > 0
        => CanClose(position, mark, index) \/ CanLiquidate(position, mark, index)

\* A position that ended under its conditional order ended at a price that
\* triggers the order, which had fired: however long the proof took and however
\* the price moved between the trigger and the close.
ClosedAtItsTrigger ==
    end.route = "order" => order.fired # 0 /\ IsTriggered(position, order, end.mark)

\* What the client says of a close that does not pay: the position is insolvent
\* and must be liquidated.
InsolventIsLiquidatable ==
    Open /\ Maintenance(position, mark) > 0 /\ ~SettlesSolvent(position, mark, index)
        => CanLiquidate(position, mark, index)
=============================================================================
