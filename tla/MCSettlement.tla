---------------------------- MODULE MCSettlement ----------------------------
(***************************************************************************)
(* Two small instances that share no state, so that a behaviour follows    *)
(* one of them ("part") while the other rests: the settlement contracts,   *)
(* with two batches, five commitments that can be intents or residuals of  *)
(* each other, notes of which one backs two intents, and two note          *)
(* commitments; and the orders that a trade ticket is turned into, up to   *)
(* their fills.                                                            *)
(***************************************************************************)
EXTENDS BatchSettlement, OrderSizing, TLC

CONSTANTS u, t, r, q, x, b1, b2, payload, key, c1, c2

MCIntents == {u, t, r, q, x}

MCCircuitOf == [v \in {"batch-verifier", "deposit-verifier", "withdraw-verifier"} |->
                  CASE v = "batch-verifier"    -> "batch-match"
                    [] v = "deposit-verifier"  -> "deposit-note"
                    [] v = "withdraw-verifier" -> "withdraw"]

MCAuthorities == [c \in {"batch-match", "deposit-note", "withdraw"} |->
                    {v \in DOMAIN MCCircuitOf : MCCircuitOf[v] = c}]

\* The note behind an intent: t and x are two orders over the same note.
NullifierOf == (u :> "n1") @@ (t :> "n2") @@ (r :> "n3") @@ (q :> "n4") @@ (x :> "n2")

Filling(i, res, margin) ==
    [intent |-> i, payload |-> payload, residual |-> res, margin |-> margin,
     residualPayload |-> IF res = NoIntent THEN NoPayload ELSE payload]

Whole(i) == Filling(i, NoIntent, 0)

\* A batch of one execution: the first intent was there before the second.
Batch(b, maker, taker, fee) ==
    [batch |-> b, fills |-> <<maker, taker>>,
     makers |-> <<maker.intent>>, takers |-> <<taker.intent>>,
     nullifiers |-> <<NullifierOf[maker.intent], NullifierOf[taker.intent]>>,
     changes |-> <<>>,
     positions |-> <<"maker position", "taker position">>,
     feeConfig |-> "epoch-1",
     gross |-> fee, rebate |-> 0, insurance |-> fee, treasury |-> 0]

\* Batches over fresh orders, over a residual, over an order filled already or
\* replaced, and in the wrong order; residuals that shrink, stay or grow, that
\* are used twice or are another order.
BatchStatements ==
    { Batch(b1, Whole(u), Whole(t), 1),
      Batch(b1, Filling(u, r, 2), Whole(t), 1),
      Batch(b1, Whole(u), Filling(t, r, 2), 0),
      Batch(b1, Filling(u, r, 2), Filling(t, r, 2), 0),
      Batch(b2, Whole(u), Whole(t), 1),
      Batch(b2, Whole(t), Whole(u), 0),
      Batch(b2, Filling(u, r, 1), Whole(t), 0),
      Batch(b2, Whole(u), Whole(q), 1),
      Batch(b2, Whole(r), Whole(q), 1),
      Batch(b2, Filling(r, x, 1), Whole(q), 1),
      Batch(b2, Filling(r, x, 2), Whole(q), 0),
      Batch(b2, Filling(r, x, 3), Whole(q), 0),
      Batch(b2, Filling(r, u, 1), Whole(q), 0),
      Batch(b2, Whole(x), Whole(q), 0),
      Batch(b2, Whole(q), Filling(r, x, 1), 0) }

MCProvable ==
    [c \in {"batch-match", "deposit-note", "withdraw"} |->
        CASE c = "batch-match"  -> BatchStatements
          [] c = "deposit-note" -> {[amount |-> 2, commitment |-> c1]}
          [] c = "withdraw"     -> {[nullifier |-> "n2", amount |-> 1, change |-> NoCommitment]}]

\* Every margin around the places where rounding decides, up to leverages that
\* the market does not offer; wallets that pay with one note, two or three.
MCTickets ==
    [side : {"long", "short"}, kind : {"market", "limit"}, mark : {6}, limit : {5, 7},
     slippage : {1}, margin : 10..44, leverage : {1, 2, 3, 5, 7, 8, 9}]
MCWallets == {<<44>>, <<20, 9>>, <<18, 18, 3>>}

VARIABLE part

PartsInit ==
    /\ part \in {"contracts", "sizing"}
    /\ Init /\ (part = "contracts" \/ treeIsPoseidon2)
    /\ SizingInit

PartsNext ==
    \/ part = "contracts" /\ Next /\ UNCHANGED <<part, sizingVars>>
    \/ part = "sizing" /\ SizingNext /\ UNCHANGED <<part, vars>>

PartsSpec == PartsInit /\ [][PartsNext]_<<part, vars, sizingVars>>
=============================================================================
