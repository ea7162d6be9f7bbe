---------------------------- MODULE BatchMatcher ----------------------------
(***************************************************************************)
(* The matching of one batch: a book of private orders, listed in the      *)
(* order the registry sequenced them, is crossed by price and then by      *)
(* sequence until the best long and the best short no longer meet.         *)
(*                                                                         *)
(* An order is its index in the book.  Hashes are left out: a residual is  *)
(* the order it continues, a position the execution and side that opened   *)
(* it.  The risk limits are those of the market's configuration.           *)
(***************************************************************************)
EXTENDS Integers, Sequences, FiniteSets, SequencesExt, FiniteSetsExt

CONSTANTS
  PriceScale,        \* units of size * price in one unit of collateral
  RateScale,         \* the denominator of every rate below
  TakerFee, MakerRebate, InsuranceFee,
  InitialRate, MaxLeverage, MaintenanceRate

ASSUME ScalesArePositive == PriceScale \in Nat \ {0} /\ RateScale \in Nat \ {0}

Lesser(a, b) == IF a <= b THEN a ELSE b

CeilDiv(value, divisor) == (value + divisor - 1) \div divisor

Notional(size, price) == (size * price) \div PriceScale

\* What one fill costs its taker and where that goes; the rounding of the
\* three shares stays in the treasury's.
FillFees(size, price) ==
  LET value     == Notional(size, price)
      gross     == (value * TakerFee) \div RateScale
      rebate    == (value * MakerRebate) \div RateScale
      insurance == (value * InsuranceFee) \div RateScale
  IN  [taker |-> gross, rebate |-> rebate, insurance |-> insurance,
       treasury |-> gross - rebate - insurance]

\* The margin limits an order meets when it is taken in and each of its
\* fills meets again with the margin that is left after fees.
MarginIsEnough(size, price, margin) ==
  LET value == Notional(size, price)
  IN  /\ margin >= (value * InitialRate) \div RateScale
      /\ margin > 0 /\ value <= margin * MaxLeverage
      /\ margin > (value * MaintenanceRate) \div RateScale

-----------------------------------------------------------------------------
(* Priority: price first, sequence second.                                 *)

LongBefore(book, a, b) ==
  \/ book[a].limit > book[b].limit
  \/ book[a].limit = book[b].limit /\ a < b

ShortBefore(book, a, b) ==
  \/ book[a].limit < book[b].limit
  \/ book[a].limit = book[b].limit /\ a < b

OrdersOf(book, side) == {n \in DOMAIN book : book[n].side = side}

Longs(book)  == SetToSortSeq(OrdersOf(book, "long"), LAMBDA a, b : LongBefore(book, a, b))
Shorts(book) == SetToSortSeq(OrdersOf(book, "short"), LAMBDA a, b : ShortBefore(book, a, b))

-----------------------------------------------------------------------------
(* The crossing loop.                                                      *)

\* The margin set aside for the filled part of an order, rounded up.
Allocated(book, n, filled) == CeilDiv(book[n].margin * filled, book[n].size)

StartOfMatch(book) ==
  [longs |-> Longs(book), shorts |-> Shorts(book),
   filled |-> [n \in DOMAIN book |-> 0], executions |-> <<>>]

Crosses_Strictly(book, m) ==
  /\ m.longs # <<>> /\ m.shorts # <<>>
  /\ book[Head(m.longs)].limit > book[Head(m.shorts)].limit

Crosses(book, m) ==
  /\ m.longs # <<>> /\ m.shorts # <<>>
  /\ book[Head(m.longs)].limit >= book[Head(m.shorts)].limit

\* One execution between the heads of the two queues, at the price of the one
\* that was submitted first, who is the maker.
ExecuteHeads(book, m) ==
  LET long   == Head(m.longs)
      short  == Head(m.shorts)
      size   == Lesser(book[long].size - m.filled[long], book[short].size - m.filled[short])
      maker  == IF long <= short THEN long ELSE short
      price  == book[maker].limit
      fees   == FillFees(size, price)
      filled == [m.filled EXCEPT ![long] = @ + size, ![short] = @ + size]
      margin(n) == Allocated(book, n, filled[n]) - Allocated(book, n, m.filled[n])
                     + (IF n = maker THEN fees.rebate ELSE -fees.taker)
      rest(queue) == IF filled[Head(queue)] = book[Head(queue)].size THEN Tail(queue) ELSE queue
  IN  [longs  |-> rest(m.longs), shorts |-> rest(m.shorts), filled |-> filled,
       executions |-> Append(m.executions,
         [long |-> long, short |-> short, maker |-> maker, size |-> size, price |-> price,
          fees |-> fees, longMargin |-> margin(long), shortMargin |-> margin(short)])]

\* Every execution finishes an order, so one pass over the book is enough.
Crossing(book) ==
  FoldLeft(LAMBDA m, n : IF Crosses(book, m) THEN ExecuteHeads(book, m) ELSE m,
           StartOfMatch(book), book)

-----------------------------------------------------------------------------
(* The transcript.                                                         *)

OrderIsValid(order) == order.size > 0 /\ order.limit > 0 /\ order.margin > 0

NotesDiffer(book) == \A a, b \in DOMAIN book : book[a].note = book[b].note => a = b

FillsAreSafe(executions) ==
  \A k \in DOMAIN executions :
    LET e == executions[k]
    IN  MarginIsEnough(e.size, e.price, e.longMargin) /\ MarginIsEnough(e.size, e.price, e.shortMargin)

FilledOrders(m) == {n \in DOMAIN m.filled : m.filled[n] > 0}

ResidualMargin(book, n, filled) == book[n].margin - Allocated(book, n, filled)

\* The rolled over part of each order that was filled in part.
ResidualsOf(book, m) ==
  [n \in {o \in FilledOrders(m) : m.filled[o] < book[o].size} |->
     [side |-> book[n].side, limit |-> book[n].limit, note |-> <<"rest", book[n].note, m.filled[n]>>,
      size |-> book[n].size - m.filled[n], margin |-> ResidualMargin(book, n, m.filled[n])]]

\* Why a book gives no transcript; "" when it does.
Refusal(book) ==
  LET m == Crossing(book)
      residuals == ResidualsOf(book, m)
  IN  IF \E n \in DOMAIN book : ~OrderIsValid(book[n]) THEN "invalid order"
      ELSE IF ~NotesDiffer(book) THEN "duplicate intent nullifier"
      ELSE IF ~FillsAreSafe(m.executions) THEN "insufficient margin"
      ELSE IF m.executions = <<>> THEN "batch has no crossed liquidity"
      ELSE IF \E n \in DOMAIN residuals : residuals[n].margin <= 0 THEN "invalid residual margin"
      ELSE ""

Match(book) ==
  LET m == Crossing(book)
  IN  [executions |-> m.executions, filled |-> m.filled, residuals |-> ResidualsOf(book, m)]

-----------------------------------------------------------------------------
(* What a match must be, said without the loop.                            *)

SizeOf(book, S) == FoldSet(LAMBDA n, total : book[n].size + total, 0, S)

Volume(match) == FoldLeft(LAMBDA total, e : total + e.size, 0, match.executions)

\* The most that any single price would let the two sides trade.
BestVolume(book) ==
  Max({Lesser(SizeOf(book, {n \in OrdersOf(book, "long") : book[n].limit >= book[p].limit}),
              SizeOf(book, {n \in OrdersOf(book, "short") : book[n].limit <= book[p].limit}))
         : p \in DOMAIN book})

WithinLimits(book, match) ==
  \A k \in DOMAIN match.executions :
    LET e == match.executions[k]
    IN  book[e.short].limit <= e.price /\ e.price <= book[e.long].limit

\* No order trades while a better one of its side waits.
InPriority(book, match) ==
  \A a, b \in DOMAIN book :
    /\ book[a].side = book[b].side
    /\ IF book[a].side = "long" THEN LongBefore(book, a, b) ELSE ShortBefore(book, a, b)
    /\ match.filled[b] > 0
    => match.filled[a] = book[a].size

\* The margin of the orders that traded is in their positions, in their
\* residuals and in the fees, and nowhere else.
MarginIsConserved(book, match) ==
  LET fills    == FoldLeft(LAMBDA t, e : t + e.longMargin + e.shortMargin, 0, match.executions)
      fees     == FoldLeft(LAMBDA t, e : t + e.fees.insurance + e.fees.treasury, 0, match.executions)
      traded   == {n \in DOMAIN book : match.filled[n] > 0}
      put      == FoldSet(LAMBDA n, t : book[n].margin + t, 0, traded)
      rolled   == FoldSet(LAMBDA n, t : match.residuals[n].margin + t, 0, DOMAIN match.residuals)
  IN  fills + fees + rolled = put

=============================================================================
