--------------------------- MODULE IntentLineage ---------------------------
(***************************************************************************)
(* What the registry and the settlement contract promise of an order, seen *)
(* apart from how residual commitments replace one another: an order keeps *)
(* its place in the queue from submission to its end, its margin after a   *)
(* partial fill only ever shrinks, and what is left of it is either traded *)
(* to the end or, after a cancellation, paid back - never both and never   *)
(* twice.  An order is identified by its place in the queue.               *)
(***************************************************************************)
EXTENDS Naturals

CONSTANTS Places,   \* places in the queue, 1 .. some bound
          Margins   \* margins a partial fill may leave (0: not filled yet)

VARIABLES
    status,   \* place -> stage of the order that holds it
    margin    \* place -> margin left after the last partial fill, or 0

lineageVars == <<status, margin>>

Stages == {"none", "open", "cancelled", "closed", "claimed"}

LineageTypeOK ==
    /\ status \in [Places -> Stages]
    /\ margin \in [Places -> Margins]

LineageInit ==
    /\ status = [n \in Places |-> "none"]
    /\ margin = [n \in Places |-> 0]

\* Places are taken in order.
Open(n) ==
    /\ status[n] = "none"
    /\ \A k \in Places : k < n => status[k] # "none"
    /\ status' = [status EXCEPT ![n] = "open"]
    /\ UNCHANGED margin

\* At least two open orders trade; each is finished or keeps a smaller margin.
Trade(traded) ==
    /\ \E n, k \in traded : n # k
    /\ \A n \in traded : status[n] = "open"
    /\ status' \in [Places -> Stages]
    /\ margin' \in [Places -> Margins]
    /\ \A n \in Places \ traded : status'[n] = status[n] /\ margin'[n] = margin[n]
    /\ \A n \in traded :
          \/ status'[n] = "closed" /\ margin'[n] = 0
          \/ /\ status'[n] = "open"
             /\ margin'[n] > 0
             /\ margin[n] > 0 => margin'[n] < margin[n]

\* An order that was never filled in part has nothing to pay back.
Withdraw(n) ==
    /\ status[n] = "open"
    /\ status' = [status EXCEPT ![n] = IF margin[n] > 0 THEN "cancelled" ELSE "closed"]
    /\ UNCHANGED margin

PayBack(n) ==
    /\ status[n] = "cancelled"
    /\ status' = [status EXCEPT ![n] = "claimed"]
    /\ margin' = [margin EXCEPT ![n] = 0]

LineageNext ==
    \/ \E n \in Places : Open(n) \/ Withdraw(n) \/ PayBack(n)
    \/ \E traded \in SUBSET Places : Trade(traded)

LineageSpec == LineageInit /\ [][LineageNext]_lineageVars
=============================================================================
