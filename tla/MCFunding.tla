----------------------------- MODULE MCFunding -----------------------------
(***************************************************************************)
(* Prices and funding, in small instances that share no state, so that a   *)
(* behaviour follows one of them ("part") while the others rest: the       *)
(* funding engine over its contracts on one market or two, the price       *)
(* streams of two browsers over two markets, the marks they are shown, and *)
(* one browser's chart.                                                    *)
(***************************************************************************)
EXTENDS FundingEngine, PriceFeeds, MarkStream, PriceChart, TLC

CONSTANTS m1, m2, Parts

\* Every step the circuit accepts within the bounds of the clock: the delta of
\* some rate, price and time.
MCProvable ==
    [c \in {FundingCircuit} |->
        {s \in [market : Markets, old : FundingIndices, new : FundingIndices, mark : Prices,
                elapsed : 1..(MaxTime + Interval), interval : {Interval}, maxDelta : {0},
                capped : {FALSE}] :
            \E rate \in -RateCap..RateCap :
                s.new - s.old = Quotient(s.mark * rate * s.elapsed, RateScale * Interval)}]

MCInitialProofs == [c \in {FundingCircuit} |-> {}]
MCCircuitOf == [v \in {FundingCircuit} |-> FundingCircuit]
MCAuthorities == [c \in {FundingCircuit} |-> {c}]
MCIndices == -1..2
MCRates == {-1, 1}

\* Bound: a run ends with the first thing an operator does by hand.
NoHands == adjusted = {}

VARIABLE part

PartsInit ==
    /\ part \in Parts
    /\ Init
    /\ FeedsInit /\ (part = "feeds" \/ keyed)
    /\ MarksInit
    /\ ChartInit

PartsNext ==
    \/ part = "engine" /\ Next /\ UNCHANGED <<part, feedVars, markVars, chartVars>>
    \/ part = "feeds" /\ FeedsNext /\ UNCHANGED <<part, vars, markVars, chartVars>>
    \/ part = "marks" /\ MarksNext /\ UNCHANGED <<part, vars, feedVars, chartVars>>
    \/ part = "chart" /\ ChartNext /\ UNCHANGED <<part, vars, feedVars, markVars>>

PartsSpec == PartsInit /\ [][PartsNext]_<<part, vars, feedVars, markVars, chartVars>>
=============================================================================
