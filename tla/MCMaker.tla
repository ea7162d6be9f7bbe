------------------------------ MODULE MCMaker ------------------------------
(***************************************************************************)
(* One provider's capital of four, half of which may be out, of which he   *)
(* takes two back at a time; a trader of one unit, whose position the      *)
(* vault's pays two for; two funding intervals.                            *)
(***************************************************************************)
EXTENDS VaultManager

CONSTANTS o1, lp

Terms_MC == o1 :> [side |-> "long", limit |-> 5, size |-> 1, margin |-> 1]
=============================================================================
