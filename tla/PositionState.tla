--------------------------- MODULE PositionState ---------------------------
(***************************************************************************)
(* contracts/position-state: the append-only tree of position commitments, *)
(* the roots it has had and the nullifiers of the positions spent.         *)
(*                                                                         *)
(* The tree is the sequence of its leaves and a root is the sequence it    *)
(* commits to: the hash is taken to be collision free.  That the frontier  *)
(* the contract keeps computes the root of exactly that sequence is the    *)
(* subject of module MerkleFrontier.                                       *)
(***************************************************************************)
EXTENDS ProofGate, Naturals, Sequences, TLAPS

CONSTANTS
    Positions,           \* position commitments
    PositionNullifiers,  \* position nullifiers
    NoPosition,          \* the nullifier is not spent
    PositionWriters,     \* contracts the administrator may make writers
    TreeCapacity,        \* leaves of the tree (the code: 2^20)
    MaxAppendItems       \* MAX_APPEND_ITEMS (the code: 8)

ASSUME PositionStateAssumption ==
    /\ NoPosition \notin Positions
    /\ TreeCapacity \in Nat
    /\ MaxAppendItems \in Nat

VARIABLES
    leaves,           \* the leaves appended since the tree was last reset
    roots,            \* Poseidon2Root flags: every root the tree has had
    positionSpent,    \* Spent: position nullifier -> position commitment
    treeIsPoseidon2,  \* TreeHashVersion = 2
    positionWriters   \* the contracts whose Writer flag is set

positionVars == <<leaves, roots, positionSpent, treeIsPoseidon2, positionWriters>>

PositionTypeOK ==
    /\ leaves \in Seq(Positions)
    /\ roots \subseteq Seq(Positions)
    /\ positionSpent \in [PositionNullifiers -> Positions \cup {NoPosition}]
    /\ treeIsPoseidon2 \in BOOLEAN
    /\ positionWriters \subseteq PositionWriters

\* Variant of PositionIsSpent: the entry is written under a key never read.
PositionIsSpent_Never(n) == FALSE

PositionIsSpent(n) == positionSpent[n] # NoPosition

-----------------------------------------------------------------------------
(* Calls that the writers make inside their own transactions.              *)

\* Variant of AppendMany: the frontier is started again for every call.
AppendMany_Restarts(w, ps) ==
    /\ w \in positionWriters
    /\ Len(ps) \in 1..MaxAppendItems
    /\ treeIsPoseidon2
    /\ Len(leaves) + Len(ps) <= TreeCapacity
    /\ leaves' = ps
    /\ roots' = roots \cup {ps}

\* append_many: the leaves go after the last one, and the new root is known
\* from then on.
AppendMany(w, ps) ==
    /\ w \in positionWriters
    /\ Len(ps) \in 1..MaxAppendItems
    /\ treeIsPoseidon2
    /\ Len(leaves) + Len(ps) <= TreeCapacity
    /\ leaves' = leaves \o ps
    /\ roots' = roots \cup {leaves \o ps}

\* spend_position: against any root the tree has ever had, once per nullifier.
SpendPosition(w, root, p, n) ==
    /\ w \in positionWriters
    /\ root \in roots
    /\ ~PositionIsSpent(n)
    /\ positionSpent' = [positionSpent EXCEPT ![n] = p]

-----------------------------------------------------------------------------
(* Transactions of the contract itself.                                    *)

\* set_writer, by the administrator.
SetPositionWriter(w, enabled) ==
    /\ positionWriters' = IF enabled THEN positionWriters \cup {w}
                                     ELSE positionWriters \ {w}
    /\ UNCHANGED <<leaves, roots, positionSpent, treeIsPoseidon2>>

\* reset_for_poseidon2, by the administrator, of a tree that an earlier version
\* of the contract filled: it starts again from the empty tree, and the spent
\* nullifiers stay.
ResetForPoseidon2 ==
    /\ ~treeIsPoseidon2
    /\ leaves' = <<>>
    /\ roots' = roots \cup {<<>>}
    /\ treeIsPoseidon2' = TRUE
    /\ UNCHANGED <<positionSpent, positionWriters>>

\* A tree made by init, or one of an earlier version: its leaves cannot be read
\* before the reset, and its roots were stored under another key, so that no
\* root is known yet.
PositionInit ==
    /\ leaves = <<>>
    /\ \/ treeIsPoseidon2 = TRUE  /\ roots = {<<>>}
       \/ "migration" \in Administration /\ treeIsPoseidon2 = FALSE /\ roots = {}
    /\ positionSpent = [n \in PositionNullifiers |-> NoPosition]
    /\ positionWriters = IF "writers" \in Administration THEN {} ELSE PositionWriters

PositionNext ==
    \/ /\ "writers" \in Administration
       /\ \E w \in PositionWriters, enabled \in BOOLEAN : SetPositionWriter(w, enabled)
    \/ "migration" \in Administration /\ ResetForPoseidon2

-----------------------------------------------------------------------------
(* Lemmas on the gate and the tree, for every part of the protocol.        *)

\* A step of governance, of a verifier contract or of the ledger keeps their
\* types.
LEMMA GateNextTyped ==
    ASSUME GateTypeOK, GateNext
    PROVE  GateTypeOK'
<1> USE ProofGateAssumption DEF GateTypeOK
<1>1. CASE \E b \in BOOLEAN : SetPaused(b)
  BY <1>1 DEF SetPaused
<1>2. CASE \E c \in Circuits, h \in Keys : \E v \in Authorities[c] : SetVerifier(c, h, v)
  BY <1>2 DEF SetVerifier
<1>3. CASE \E v \in Verifiers, k \in Keys : RotateVk(v, k)
  BY <1>3 DEF RotateVk
<1>4. CASE \E v \in Verifiers, k \in Keys : SetImageId(v, k)
  BY <1>4 DEF SetImageId
<1>5. CASE \E v \in Verifiers : \E s \in Provable[CircuitOf[v]] : VerifyAndRecord(v, s)
  <2>1. PICK v \in Verifiers : \E s \in Provable[CircuitOf[v]] : VerifyAndRecord(v, s)
    BY <1>5
  <2>2. PICK s \in Provable[CircuitOf[v]] : VerifyAndRecord(v, s)
    BY <2>1
  <2> DEFINE c == CircuitOf[v]
             Entry == [hash : Keys, key : Keys, stmt : UNION {Provable[d] : d \in Circuits}]
             new == [hash |-> verifierHash[v], stmt |-> s, key |-> vk[v]]
  <2>3. c \in Circuits /\ new \in Entry
    OBVIOUS
  <2>4. proofs' = [proofs EXCEPT ![c] = @ \cup {new}]
    BY <2>2 DEF VerifyAndRecord
  <2>5. proofs' \in [Circuits -> SUBSET Entry]
    <3> HIDE DEF new, c
    <3> QED BY <2>3, <2>4
  <2> QED BY <2>2, <2>5 DEF VerifyAndRecord
<1> QED BY <1>1, <1>2, <1>3, <1>4, <1>5 DEF GateNext

\* The deployed protocol is well typed.
LEMMA GateInitTyped ==
    ASSUME GateInit
    PROVE  GateTypeOK
<1> USE ProofGateAssumption
<1> DEFINE Entry == [hash : Keys, key : Keys, stmt : UNION {Provable[d] : d \in Circuits}]
           initial(c) == {[hash |-> verifier[c], stmt |-> s, key |-> verifier[c]] :
                             s \in InitialProofs[c]}
<1>1. /\ paused \in BOOLEAN
      /\ verifierAuthority \in [Circuits -> Verifiers]
      /\ vk \in [Verifiers -> Keys] /\ verifierHash \in [Verifiers -> Keys]
  BY DEF GateInit
<1>2. verifier \in [Circuits -> Keys]
  BY <1>1 DEF GateInit
<1>3. ASSUME NEW c \in Circuits PROVE initial(c) \subseteq Entry
  <2> SUFFICES ASSUME NEW s \in InitialProofs[c]
               PROVE  [hash |-> verifier[c], stmt |-> s, key |-> verifier[c]] \in Entry
    OBVIOUS
  <2>1. s \in UNION {Provable[d] : d \in Circuits}
    OBVIOUS
  <2> QED BY <1>2, <2>1
<1>4. proofs = [c \in Circuits |-> initial(c)]
  BY DEF GateInit
<1>5. proofs \in [Circuits -> SUBSET Entry]
  <2> HIDE DEF initial, Entry
  <2> QED BY <1>3, <1>4
<1> QED BY <1>1, <1>2, <1>5 DEF GateTypeOK

\* A transaction of the position tree itself keeps its types.
LEMMA PositionNextTyped ==
    ASSUME PositionTypeOK, PositionNext
    PROVE  PositionTypeOK'
<1> USE DEF PositionTypeOK
<1>1. CASE \E w \in PositionWriters, enabled \in BOOLEAN : SetPositionWriter(w, enabled)
  BY <1>1 DEF SetPositionWriter
<1>2. CASE ResetForPoseidon2
  <2>1. <<>> \in Seq(Positions)
    OBVIOUS
  <2> QED BY <1>2, <2>1 DEF ResetForPoseidon2
<1> QED BY <1>1, <1>2 DEF PositionNext
=============================================================================
