---------------------------- MODULE PositionBook ----------------------------
(***************************************************************************)
(* What the contracts promise about positions, seen from outside: a        *)
(* position is opened and stays open, and under each nullifier one opened  *)
(* position is closed or liquidated, once and for good.  Nothing ends      *)
(* while the protocol is paused.                                           *)
(***************************************************************************)

CONSTANTS Positions, Nullifiers

VARIABLES
    opened,   \* the positions opened so far
    ended,    \* nullifier -> its ends: how, and which position
    stopped   \* the protocol is paused

bookVars == <<opened, ended, stopped>>

Init ==
    /\ opened = {}
    /\ ended = [n \in Nullifiers |-> {}]
    /\ stopped = FALSE

OpensMore == opened \subseteq opened' /\ opened' \subseteq Positions

\* Nothing ended under the nullifier, and now one of these positions has.
EndsOne(n, how, positions) ==
    /\ ended[n] = {}
    /\ \E e \in ended'[n] : ended'[n] = {e} /\ e.how = how /\ e.position \in positions

OthersStay(changed) == \A n \in Nullifiers \ changed : ended'[n] = ended[n]

\* A batch opens positions.
Open == OpensMore /\ UNCHANGED <<ended, stopped>>

\* A close opens a successor for each position it ends; of two positions closed
\* together the second may be the one that the first close opened.
Close ==
    /\ ~stopped
    /\ OpensMore
    /\ \E n, l \in Nullifiers :
          /\ EndsOne(n, "closed", opened)
          /\ l # n => EndsOne(l, "closed", opened')
          /\ OthersStay({n, l})
    /\ UNCHANGED stopped

\* A liquidation ends one position and opens none.
Liquidate ==
    /\ ~stopped
    /\ \E n \in Nullifiers : EndsOne(n, "liquidated", opened) /\ OthersStay({n})
    /\ UNCHANGED <<opened, stopped>>

StopOrResume ==
    /\ stopped' = ~stopped
    /\ UNCHANGED <<opened, ended>>

Next == Open \/ Close \/ Liquidate \/ StopOrResume

Spec == Init /\ [][Next]_bookVars
=============================================================================
