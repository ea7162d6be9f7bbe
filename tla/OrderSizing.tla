----------------------------- MODULE OrderSizing -----------------------------
(***************************************************************************)
(* From the trade ticket to the batch: the client turns a margin and a     *)
(* leverage into the size of an order, splits it over the private notes    *)
(* that pay for it, and posts one order for each.  The server checks the   *)
(* margin limits at the order's limit price, the matcher checks them again *)
(* for every fill, at the fill's price and after its fee, and one fill     *)
(* that fails them fails the whole batch.                                  *)
(*                                                                         *)
(* Prices are protocol prices: slippage is an offset, and the rounding to  *)
(* a protocol price is left out.                                           *)
(***************************************************************************)
EXTENDS BatchMatcher

CONSTANTS
  Reserve,        \* kept out of every note's part, for rounding (32 in the code)
  LeverageScale,  \* units of leverage in one (10^6 in the code)
  Tickets,        \* what a trader may fill in
  Wallets,        \* the amounts of the notes a browser may hold, largest first
  MaxFills        \* bound: fills of one order

ASSUME SizingAssumption ==
  /\ {TakerFee, MakerRebate, InitialRate, MaxLeverage, MaintenanceRate} \subseteq Nat
  /\ Reserve \in Nat \ {0} /\ LeverageScale \in Nat \ {0} /\ MaxFills \in Nat
  /\ \A t \in Tickets :
       /\ t.side \in {"long", "short"} /\ t.kind \in {"market", "limit"}
       /\ {t.mark, t.limit, t.slippage, t.margin, t.leverage} \subseteq Nat
  /\ \A wallet \in Wallets :
       /\ wallet \in Seq(Nat)
       /\ \A j, k \in DOMAIN wallet : j < k => wallet[j] >= wallet[k]
  \* no market asks for more margin than its own largest leverage leaves
  /\ MaxLeverage * InitialRate <= RateScale
  /\ MaintenanceRate <= InitialRate

VARIABLES
  ticket,    \* the ticket that was sent, or NoTicket
  unsent,    \* the orders still to be posted, in order
  placed,    \* the orders the server took, each with what was filled of it
  progress    \* "idle", "posting", "placed", "refused" or "poisoned"

sizingVars == <<ticket, unsent, placed, progress>>

NoTicket == [kind |-> "none"]

-----------------------------------------------------------------------------
(* Sizing.                                                                 *)

\* The worst price the order may still trade at.
LimitPrice(t) ==
  CASE t.kind = "limit" -> t.limit
    [] t.kind = "market" /\ t.side = "long" -> t.mark + t.slippage
    [] OTHER -> t.mark - t.slippage

\* The price the order is sized at: for a short the higher of the two, since
\* the margin it needs grows with the price.
SizingPrice(t) ==
  CASE t.kind = "market"                    -> t.mark + t.slippage
    [] t.kind = "limit" /\ t.side = "long" -> t.limit
    [] OTHER                                -> IF t.mark >= t.limit THEN t.mark ELSE t.limit

ProtocolOrderSize_NoFee(margin, leverage, price) ==
  LET notional == ((margin - Lesser(margin, Reserve)) * leverage) \div LeverageScale
  IN  (notional * PriceScale) \div price

ProtocolOrderSize_NoReserve(margin, leverage, price) ==
  LET notional == (margin * leverage * RateScale)
                    \div (LeverageScale * RateScale + leverage * TakerFee)
  IN  (notional * PriceScale) \div price

\* The largest size whose notional, with the taker's fee on it, the margin
\* carries at the chosen leverage.
ProtocolOrderSize(margin, leverage, price) ==
  LET notional == ((margin - Lesser(margin, Reserve)) * leverage * RateScale)
                    \div (LeverageScale * RateScale + leverage * TakerFee)
  IN  (notional * PriceScale) \div price

\* What the k largest notes hold.
Held(wallet, k) == SumFunctionOnSet(wallet, 1..k)

\* The margin is taken from the smallest note that holds all of it, or else
\* from the notes from the largest down.
Parts(wallet, margin) ==
  IF \E k \in DOMAIN wallet : wallet[k] >= margin
  THEN <<margin>>
  ELSE LET used == {k \in DOMAIN wallet : Held(wallet, k - 1) < margin}
       IN  IF Held(wallet, Len(wallet)) < margin
           THEN <<>>
           ELSE [k \in 1..Cardinality(used) |-> Lesser(wallet[k], margin - Held(wallet, k - 1))]

SizedFragment(t, part) ==
  [side |-> t.side, limit |-> LimitPrice(t), margin |-> part,
   size |-> ProtocolOrderSize(part, t.leverage, SizingPrice(t)),
   filled |-> 0, fills |-> 0]

\* The checks before anything is sent.
TicketIsComplete(t, wallet) ==
  /\ t.margin > 0 /\ t.leverage > 0 /\ SizingPrice(t) > 0 /\ LimitPrice(t) > 0
  /\ ProtocolOrderSize(t.margin, t.leverage, SizingPrice(t)) >= 1
  /\ t.leverage <= MaxLeverage * LeverageScale
  /\ Parts(wallet, t.margin) # <<>>

-----------------------------------------------------------------------------
(* Posting.                                                                *)

SizingInit == ticket = NoTicket /\ unsent = <<>> /\ placed = <<>> /\ progress = "idle"

SubmitTrade(t, wallet) ==
  /\ progress = "idle"
  /\ TicketIsComplete(t, wallet)
  /\ LET parts == Parts(wallet, t.margin)
         orders == [k \in DOMAIN parts |-> SizedFragment(t, parts[k])]
     IN  IF \E k \in DOMAIN orders : orders[k].size < 1
         THEN unsent' = <<>> /\ progress' = "idle"
         ELSE unsent' = orders /\ progress' = "posting"
  /\ ticket' = IF progress' = "posting" THEN t ELSE NoTicket
  /\ UNCHANGED placed

\* The server takes an order that meets the limits at its limit price; after a
\* refusal the client cancels the orders it had placed before it.
PostFragment ==
  /\ progress = "posting" /\ unsent # <<>>
  /\ LET order == Head(unsent)
     IN  IF MarginIsEnough(order.size, order.limit, order.margin)
         THEN /\ placed' = Append(placed, order)
              /\ unsent' = Tail(unsent)
              /\ progress' = IF Len(unsent) = 1 THEN "placed" ELSE progress
         ELSE placed' = <<>> /\ unsent' = <<>> /\ progress' = "refused"
  /\ UNCHANGED ticket

-----------------------------------------------------------------------------
(* Fills.                                                                  *)

PricesOf(order) ==
  IF order.side = "long" THEN 1..order.limit ELSE order.limit..SizingPrice(ticket)

\* A fill as maker or as taker, up to the price the order was sized at (a short
\* may trade above it), and not so small that its share of the reserve is lost
\* in the rounding of its margin.
FillOrder(k, size, price, isMaker) ==
  LET order  == placed[k]
      before == CeilDiv(order.margin * order.filled, order.size)
      after  == CeilDiv(order.margin * (order.filled + size), order.size)
      fees   == FillFees(size, price)
      margin == after - before + (IF isMaker THEN fees.rebate ELSE -fees.taker)
  IN  /\ progress = "placed" /\ order.fills < MaxFills
      /\ order.filled + size <= order.size
      /\ size * Reserve >= order.size
      /\ price \in PricesOf(order)
      /\ placed' = [placed EXCEPT ![k].filled = @ + size, ![k].fills = @ + 1]
      /\ progress' = IF MarginIsEnough(size, price, margin) THEN progress ELSE "poisoned"
      /\ UNCHANGED <<ticket, unsent>>

SizingNext ==
  \/ \E t \in Tickets, wallet \in Wallets : SubmitTrade(t, wallet)
  \/ PostFragment
  \/ \E k \in DOMAIN placed, isMaker \in BOOLEAN :
       \E size \in 1..placed[k].size, price \in PricesOf(placed[k]) :
         FillOrder(k, size, price, isMaker)

SizingSpec == SizingInit /\ [][SizingNext]_sizingVars

-----------------------------------------------------------------------------
\* What the ticket sizes the protocol trades: the server takes every part of
\* it, at any leverage up to the market's largest, and no fill of any part
\* runs into the margin limits after its fee and fails the batch.
SizedOrdersTrade == progress \notin {"refused", "poisoned"}
=============================================================================
