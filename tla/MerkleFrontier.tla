---------------------------- MODULE MerkleFrontier ----------------------------
(***************************************************************************)
(* The three trees of the system.  The position-state contract keeps the   *)
(* frontier of an append-only tree and computes each root from it; the     *)
(* server computes the root and the membership proofs of the same tree     *)
(* from all of its leaves, level by level and only as wide as they reach;  *)
(* the tree of margin notes is built whole, from its leaves sorted.  The   *)
(* circuits walk a membership proof up to a root.                          *)
(*                                                                         *)
(* A node is the pair it hashes: the hash is collision free.  Leaf zero is *)
(* the empty one.                                                          *)
(***************************************************************************)
EXTENDS Integers, Sequences, FiniteSets, TLC

CONSTANTS
    Depth,        \* TREE_DEPTH, POSITION_MERKLE_DEPTH (the code: 20)
    NoteDepth,    \* FIELD_MERKLE_DEPTH (the code: 8)
    MostAppended, \* MAX_APPEND_ITEMS (the code: 8)
    Notes         \* commitments of margin notes

ASSUME FrontierAssumption ==
    /\ Depth \in Nat \ {0} /\ NoteDepth \in Nat \ {0} /\ MostAppended \in Nat \ {0}
    /\ Notes \subseteq Nat \ {0} /\ IsFiniteSet(Notes)

VARIABLES
    appended,   \* the position commitments, in order: the server's set, the contract's LeafCount
    frontier,   \* Frontier: the level -> the left node that waits there
    root,       \* CurrentRoot
    knownRoots, \* Poseidon2Root flags
    margins     \* marginCommitments of the server

merkleVars == <<appended, frontier, root, knownRoots, margins>>

\* field_hash_pair, fieldHashPair
Hash(l, r) == <<l, r>>
Bit(i, level) == (i \div 2^level) % 2

\* store_empty_nodes, emptyRoots: the root of an empty tree of each height.
Empties == LET empty[l \in Nat] == IF l = 0 THEN 0 ELSE Hash(empty[l-1], empty[l-1])
           IN  [l \in 0..Depth |-> empty[l]]

-----------------------------------------------------------------------------
(* The contract                                                            *)

\* The level where the leaf at i waits: the first where it is on the left.
StopsAt(i) == LET zeros == {l \in 0..Depth-1 : Bit(i, l) = 0} IN
    IF zeros = {} THEN Depth ELSE CHOOSE l \in zeros : \A z \in zeros : l <= z

\* append_frontier: the node the leaf at i climbs to, hashed with those that waited.
Climbed(f, i, leaf) ==
    LET node[l \in 0..StopsAt(i)] == IF l = 0 THEN leaf ELSE Hash(f[l-1], node[l-1])
    IN  node[StopsAt(i)]

\* root_from_frontier: from the empty leaf after the last one.
RootFromFrontier(f, count) ==
    LET node[l \in 0..Depth] ==
            IF l = 0 THEN 0
            ELSE IF Bit(count, l-1) = 0 THEN Hash(node[l-1], Empties[l-1])
            ELSE Hash(f[l-1], node[l-1])
    IN  node[Depth]

\* append_many: the last leaf of a full tree climbs to the root itself.
AppendToFrontier(new) ==
    LET first == Len(appended)
        count == first + Len(new)
        after[k \in 0..Len(new)] ==
            IF k = 0 THEN frontier
            ELSE LET i == first + k - 1 IN
                 IF StopsAt(i) = Depth THEN after[k-1]
                 ELSE (StopsAt(i) :> Climbed(after[k-1], i, new[k])) @@ after[k-1]
        newRoot == IF StopsAt(count - 1) = Depth
                   THEN Climbed(after[Len(new) - 1], count - 1, new[Len(new)])
                   ELSE RootFromFrontier(after[Len(new)], count)
    IN  /\ Len(new) \in 1..MostAppended
        /\ first <= 2^Depth - Len(new)
        /\ appended' = appended \o new
        /\ frontier' = after[Len(new)]
        /\ root' = newRoot
        /\ knownRoots' = knownRoots \cup {newRoot}
        /\ UNCHANGED margins

-----------------------------------------------------------------------------
(* The server: packages/crypto/field-merkle                                *)

\* The node i of a level that is only as wide as the leaves reach.
NodeOf(level, i, l) == IF i \in DOMAIN level THEN level[i] ELSE Empties[l]

\* Variant of ParentCount: a last node without a sibling gets no parent.
ParentCount_Floor(width) == width \div 2
ParentCount(width) == (width + 1) \div 2

\* buildIncrementalFieldMerkleLevels
IncrementalLevels(s) ==
    LET width[l \in 0..Depth] == IF l = 0 THEN Len(s) ELSE ParentCount(width[l-1])
        levels[l \in 0..Depth] ==
            IF l = 0 THEN [i \in 0..width[0]-1 |-> s[i+1]]
            ELSE [i \in 0..width[l]-1 |-> Hash(NodeOf(levels[l-1], 2*i, l-1),
                                               NodeOf(levels[l-1], 2*i + 1, l-1))]
    IN  levels

\* positionMerkleRoot, positionMembershipRoot
PositionMerkleRoot(s) == NodeOf(IncrementalLevels(s)[Depth], 0, Depth)

\* index ^ 1
Sibling(i) == IF i % 2 = 0 THEN i + 1 ELSE i - 1

\* positionMerkleProof
PositionMerkleProof(s, leaf) ==
    LET index == CHOOSE i \in 0..Len(s)-1 : s[i+1] = leaf /\ \A j \in 0..i-1 : s[j+1] # leaf
        levels == IncrementalLevels(s)
    IN  [leaf |-> leaf,
         siblings |-> [l \in 0..Depth-1 |-> NodeOf(levels[l], Sibling(index \div 2^l), l)],
         indices |-> [l \in 0..Depth-1 |-> Bit(index, l) = 1]]

\* hasPositionMembershipRoot: the root of some prefix.
HasPositionMembershipRoot(r) ==
    \E count \in 0..Len(appended) : PositionMerkleRoot(SubSeq(appended, 1, count)) = r

\* The leaves of the margin tree: sorted, and filled up with empty ones.
SortedLeaves(set) ==
    [i \in 0..2^NoteDepth-1 |->
        IF i < Cardinality(set) THEN CHOOSE c \in set : Cardinality({d \in set : d < c}) = i
        ELSE 0]

\* buildFieldMerkleLevels
FieldMerkleLevels(set) ==
    LET levels[l \in 0..NoteDepth] ==
            IF l = 0 THEN SortedLeaves(set)
            ELSE [i \in 0..2^(NoteDepth-l)-1 |-> Hash(levels[l-1][2*i], levels[l-1][2*i + 1])]
    IN  levels

\* fieldMerkleRoot, marginMembershipRoot
FieldMerkleRoot(set) == FieldMerkleLevels(set)[NoteDepth][0]

\* Variant of FieldMerkleProof: the side is that of the sibling.
FieldMerkleProof_OtherSide(set, leaf) ==
    LET levels == FieldMerkleLevels(set)
        index == CHOOSE i \in DOMAIN levels[0] : levels[0][i] = leaf
    IN  [leaf |-> leaf,
         siblings |-> [l \in 0..NoteDepth-1 |-> levels[l][Sibling(index \div 2^l)]],
         indices |-> [l \in 0..NoteDepth-1 |-> Bit(index, l) = 0]]

\* fieldMerkleProof, marginMembershipProof
FieldMerkleProof(set, leaf) ==
    LET levels == FieldMerkleLevels(set)
        index == CHOOSE i \in DOMAIN levels[0] : levels[0][i] = leaf
    IN  [leaf |-> leaf,
         siblings |-> [l \in 0..NoteDepth-1 |-> levels[l][Sibling(index \div 2^l)]],
         indices |-> [l \in 0..NoteDepth-1 |-> Bit(index, l) = 1]]

\* merkle_root of the circuits, membershipRoot of the prover
MembershipRoot(proof) ==
    LET height == Cardinality(DOMAIN proof.siblings)
        current[l \in 0..height] ==
            IF l = 0 THEN proof.leaf
            ELSE IF proof.indices[l-1] THEN Hash(proof.siblings[l-1], current[l-1])
            ELSE Hash(current[l-1], proof.siblings[l-1])
    IN  current[height]

\* addMarginCommitment
AddMargin(c) ==
    /\ c \notin margins /\ Cardinality(margins) < 2^NoteDepth
    /\ margins' = margins \cup {c}
    /\ UNCHANGED <<appended, frontier, root, knownRoots>>

MerkleInit ==
    /\ appended = <<>>
    /\ frontier = [l \in {} |-> 0]
    /\ root = Empties[Depth]
    /\ knownRoots = {root}
    /\ margins = {}

\* Which commitment is which does not matter to a tree in order of arrival.
NewCommitments(n) == [k \in 1..n |-> Len(appended) + k]

MerkleNext ==
    \/ \E n \in 1..MostAppended : AppendToFrontier(NewCommitments(n))
    \/ \E c \in Notes : AddMargin(c)

MerkleSpec == MerkleInit /\ [][MerkleNext]_merkleVars

-----------------------------------------------------------------------------
(* Properties                                                              *)

\* However the leaves arrive, one by one or many at once and up to the last place
\* of the tree: the root the contract makes of its frontier is the one the server
\* makes of all the leaves, and the server knows every root the contract has had.
RootsMeet ==
    /\ root = PositionMerkleRoot(appended)
    /\ \A r \in knownRoots : HasPositionMembershipRoot(r)

\* The proof the server gives of a commitment leads the circuit to the root, in the
\* tree of positions, to the contract's, and in the tree of margin notes.
ProofsLeadToRoot ==
    /\ \A i \in DOMAIN appended :
          MembershipRoot(PositionMerkleProof(appended, appended[i])) = root
    /\ \A c \in margins : MembershipRoot(FieldMerkleProof(margins, c)) = FieldMerkleRoot(margins)

\* Contract, server and circuits mean the same tree: its roots are the same, and
\* every proof the server gives leads to them.
TreesAgree == RootsMeet /\ ProofsLeadToRoot
=============================================================================
