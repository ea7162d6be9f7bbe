---------------------------- MODULE MCPositions ----------------------------
(***************************************************************************)
(* The life of a position, on chain and off, in small instances that share *)
(* no state, so that a behaviour follows one of them ("part") while the    *)
(* others rest: the position contracts (a trader's and a maker's position  *)
(* opened by one batch, a third opened by another, closes of them proved   *)
(* against older and newer roots, two rival closes under one nullifier, a  *)
(* liquidation of the same position under another), the server's rules for *)
(* ending one position, the requests the prover accepts, and the trees the *)
(* proofs are about.                                                       *)
(***************************************************************************)
EXTENDS PositionLifecycle, PositionEnds, ProofRequests, MerkleFrontier, TLC

CONSTANTS a, b, z, a1, b1, na, na2, nb, nz, na1, nb1, m1, m2

\* One rho for each position; na and na2 are made of a's, with two spend secrets.
MCRhoOf == (a :> 1) @@ (b :> 2) @@ (z :> 3) @@ (a1 :> 4) @@ (b1 :> 5)
MCRhoIn == (na :> 1) @@ (na2 :> 1) @@ (nb :> 2) @@ (nz :> 3) @@ (na1 :> 4) @@ (nb1 :> 5)

MCOpenings == {<<a, b>>, <<z>>}

MCRegistrations ==
    {[market |-> m, nullifier |-> n, close |-> "c1"] : <<m, n>> \in {<<m1, na>>, <<m1, nb>>, <<m2, na>>}}

Closing(tree, p, n, c, new, output) ==
    [mark |-> 1, root |-> tree, position |-> p, nullifier |-> n, close |-> c, new |-> new,
     output |-> output]

Liquidating(tree, p, n) ==
    [mark |-> 1, rate |-> 1, root |-> tree, position |-> p, nullifier |-> n, reward |-> "o3"]

MCProvable ==
    [k \in {"close", "liquidation", "trigger", "funding"} |->
        CASE k = "close" ->
               {Closing(<<a, b>>, a, na, "c1", a1, "o1"), Closing(<<a, b>>, a, na, "c2", a1, "o1"),
                Closing(<<a, b>>, b, nb, "c2", b1, "o2"),
                Closing(<<a, b, a1>>, b, nb, "c3", b1, "o2"),
                Closing(<<a, b, a1>>, a1, na1, "c3", z, "o2")}
          [] k = "liquidation" ->
               {Liquidating(<<a, b>>, a, na2), Liquidating(<<a, b, z>>, b, nb)}
          [] k = "trigger" -> {[mark |-> 1, nullifier |-> n, close |-> "c1"] : n \in {na, nb}}
          [] OTHER -> {}]

MCInitialProofs ==
    [MCProvable EXCEPT !["liquidation"] = @ \ {Liquidating(<<a, b>>, a, na2)}]
MCCircuitOf == [v \in DOMAIN MCProvable |-> v]
MCAuthorities == [c \in DOMAIN MCProvable |-> {c}]

\* Prices, sizes and margins around the places where rounding and the clamp of
\* the circuits decide; no position opens beyond twice its margin.
MCEndOpenings ==
    {o \in [isLong : BOOLEAN, size : {1, 3}, entry : {2, 5}, margin : {1, 3, 4}] :
        (o.size * o.entry) \div PriceScale <= o.margin * 2}
MCEndOrders == {[takesProfit |-> t, price |-> 4] : t \in BOOLEAN}
MCEndIndexes == {-4, 0, 3}

MCRates == {-3, 0, 2}
MCOldIndexes == {-2, 0, 2}

VARIABLE part

PartsInit ==
    /\ part \in {"contracts", "ends", "requests", "trees"}
    /\ Init /\ (part = "contracts" \/ treeIsPoseidon2)
    /\ MerkleInit
    /\ IF part = "ends" THEN EndsInit ELSE EndsStart(CHOOSE o \in EndOpenings : TRUE, 0, 4)
    /\ IF part = "requests" THEN RequestsInit
       ELSE request = (CHOOSE r \in Requests : TRUE) /\ answer = "asked"

PartsNext ==
    \/ part = "contracts" /\ Next
         /\ UNCHANGED <<part, endsVars, requestVars, merkleVars>>
    \/ part = "ends" /\ EndsNext
         /\ UNCHANGED <<part, vars, requestVars, merkleVars>>
    \/ part = "requests" /\ RequestsNext
         /\ UNCHANGED <<part, vars, endsVars, merkleVars>>
    \/ part = "trees" /\ MerkleNext
         /\ UNCHANGED <<part, vars, endsVars, requestVars>>

PartsSpec ==
    PartsInit /\ [][PartsNext]_<<part, vars, endsVars, requestVars, merkleVars>>
=============================================================================
