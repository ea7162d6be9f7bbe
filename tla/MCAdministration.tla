-------------------------- MODULE MCAdministration --------------------------
(***************************************************************************)
(* Three small instances that share no state, so that a behaviour follows  *)
(* one of them ("part") while the others rest: the contracts under an      *)
(* administrator who rotates keys and images, and grants and revokes       *)
(* writers, at any moment of one batch over two orders and one             *)
(* deposit; the oracle under one who changes its committee of three and    *)
(* its rules while two rounds are quoted; and an account that deposits two *)
(* units and places two orders, of one unit and of two, the second of      *)
(* which takes its margin from two notes if the first has left them.       *)
(***************************************************************************)
EXTENDS BatchSettlement, PrivateBalance, PriceOracle, TLC

CONSTANTS m, t, b1, payload, k1, k2, c1, d1, g1, g2, p1, p2, p3

\* The deposit circuit's verifier was deployed twice.
MCCircuitOf == [v \in {"batch-verifier", "deposit-verifier", "new-deposit-verifier"} |->
                  IF v = "batch-verifier" THEN "batch-match" ELSE "deposit-note"]

MCAuthorities == [c \in {"batch-match", "deposit-note"} |->
                    {v \in DOMAIN MCCircuitOf : MCCircuitOf[v] = c}]

Whole(i) == [intent |-> i, payload |-> payload, residual |-> NoIntent, margin |-> 0,
             residualPayload |-> NoPayload]

OneBatch ==
    [batch |-> b1, fills |-> <<Whole(m), Whole(t)>>, makers |-> <<m>>, takers |-> <<t>>,
     nullifiers |-> <<"n1", "n2">>, changes |-> <<>>,
     positions |-> <<"maker position", "taker position">>,
     feeConfig |-> "epoch-1", gross |-> 0, rebate |-> 0, insurance |-> 0, treasury |-> 0]

MCProvable == [c \in {"batch-match", "deposit-note", "withdraw"} |->
                 IF c = "batch-match" THEN {OneBatch}
                 ELSE IF c = "deposit-note" THEN {[amount |-> 1, commitment |-> c1]}
                 ELSE {}]

MCInitialProofs == [c \in {"batch-match", "deposit-note"} |-> {}]

MCDepositAmount == d1 :> 2
MCMargin == g1 :> 1 @@ g2 :> 2

\* Two prices, one quoted long before the other, which lie too far from each
\* other for one of the committee's rules and not for the other.
MCFeed == {[price |-> 1000, timestamp |-> 0], [price |-> 1109, timestamp |-> 400]}

MCCommittees == {[threshold |-> 2, deviation |-> 100, age |-> 300],
                 [threshold |-> 3, deviation |-> 1500, age |-> 600]}

\* Publishers that are not the administrator differ in nothing.
Symmetric == Permutations(Publishers \ {Admin})

VARIABLE part

\* Of the states the contracts may start in, the one in which they rest.
Resting ==
    /\ verifierHash = [v \in Verifiers |-> k1]
    /\ verifierAuthority["deposit-note"] = "deposit-verifier"
    /\ treeIsPoseidon2

PartsInit ==
    /\ part \in {"contracts", "account", "oracle"}
    /\ Init /\ (part = "contracts" \/ Resting)
    /\ BalanceInit /\ OracleInit

PartsNext ==
    \/ part = "contracts" /\ Next /\ UNCHANGED <<part, balanceVars, oracleVars>>
    \/ part = "account" /\ BalanceNext /\ UNCHANGED <<part, vars, oracleVars>>
    \/ part = "oracle" /\ OracleNext /\ UNCHANGED <<part, vars, balanceVars>>

PartsSpec == PartsInit /\ [][PartsNext]_<<part, vars, balanceVars, oracleVars>>
=============================================================================
