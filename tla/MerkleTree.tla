----------------------------- MODULE MerkleTree -----------------------------
(***************************************************************************)
(* The Poseidon Merkle tree of sdk/src/merkle.ts beside the circuit that   *)
(* consumes its proofs, circuits/merkle_inclusion/circuit.circom.          *)
(*                                                                         *)
(* An issuer builds trees and publishes the root of the last one; a member *)
(* builds a proof from the tree it has and feeds it to the circuit, perhaps*)
(* after the issuer has moved on.  The hash is a parameter; the model gives*)
(* it free of collisions.                                                  *)
(***************************************************************************)
EXTENDS Naturals, Sequences

CONSTANTS
  Elements,         \* field elements an issuer commits to
  BlankItem,        \* an item of --leaves between two commas that is only spaces
  ZeroLeaf,         \* MERKLE_ZERO_LEAF, the padding
  Poseidon(_, _),   \* the hash of two nodes
  Depth,            \* MERKLE_DEPTH
  NoProof           \* the member holds no proof

ASSUME DepthAssumption == Depth \in Nat

\* The nodes of the level that is k levels below the root.
LevelWidth[k \in 0..Depth] == IF k = 0 THEN 1 ELSE 2 * LevelWidth[k - 1]

MaxLeaves == LevelWidth[Depth]
Positions == 0..MaxLeaves - 1
Levels == 0..Depth - 1
LeafLists == UNION {[1..n -> Elements] : n \in 1..MaxLeaves}

VARIABLES
  tree,   \* the MerkleTree the issuer published last
  held    \* the MerkleProof the member holds, or NoProof

merkleVars == <<tree, held>>

Padded(leaves) ==
  [i \in Positions |-> IF i < Len(leaves) THEN leaves[i + 1] ELSE ZeroLeaf]

\* One layer per level, from the leaves to the root.
Layers(padded) ==
  LET layer[d \in 0..Depth] ==
        IF d = 0 THEN padded
        ELSE [i \in 0..LevelWidth[Depth - d] - 1 |->
                Poseidon(layer[d - 1][2 * i], layer[d - 1][2 * i + 1])]
  IN  layer

Tree(leaves) ==
  LET layers == Layers(Padded(leaves))
  IN  [root |-> layers[Depth][0], leaves |-> Padded(leaves), layers |-> layers]

\* The nodes above position i, by level: the index is halved on the way up.
Ancestors(i) ==
  LET index[d \in 0..Depth] == IF d = 0 THEN i ELSE index[d - 1] \div 2
  IN  index
Ancestor(i, d) == Ancestors(i)[d]

\* Fault: the sibling is taken on the right wherever there is one.
ProofSiblingToTheRight(t, i) ==
  LET isRight(d) == Ancestor(i, d) % 2
      sibling(d) == IF Ancestor(i, d) + 1 \in DOMAIN t.layers[d]
                      THEN Ancestor(i, d) + 1 ELSE Ancestor(i, d) - 1
  IN  [leaf |-> t.leaves[i],
       pathElements |-> [d \in Levels |-> t.layers[d][sibling(d)]],
       pathIndices |-> [d \in Levels |-> isRight(d)],
       root |-> t.root,
       leafIndex |-> i]

Proof(t, i) ==
  LET isRight(d) == Ancestor(i, d) % 2
      sibling(d) == IF isRight(d) = 1 THEN Ancestor(i, d) - 1 ELSE Ancestor(i, d) + 1
  IN  [leaf |-> t.leaves[i],
       pathElements |-> [d \in Levels |-> t.layers[d][sibling(d)]],
       pathIndices |-> [d \in Levels |-> isRight(d)],
       root |-> t.root,
       leafIndex |-> i]

\* Fault: the switch is not wired.
DualMuxUnswitched(in, s) == in

\* s * (1 - s) === 0 leaves two values for s.
DualMux(in, s) == IF s = 0 THEN in ELSE <<in[2], in[1]>>

LevelHashes(leaf, pathElements, pathIndices) ==
  LET hash[d \in 0..Depth] ==
        IF d = 0 THEN leaf
        ELSE LET out == DualMux(<<hash[d - 1], pathElements[d - 1]>>, pathIndices[d - 1])
             IN  Poseidon(out[1], out[2])
  IN  hash

\* The constraints of the circuit are satisfied.
MerkleInclusion(leaf, pathElements, pathIndices, root) ==
  /\ \A d \in Levels : pathIndices[d] \in {0, 1}
  /\ root = LevelHashes(leaf, pathElements, pathIndices)[Depth]

----------------------------------------------------------------------------
BuildMerkleTree(leaves) ==
  /\ tree' = Tree(leaves)
  /\ UNCHANGED held

\* The command merkle-root: the issuer publishes the root printed for --leaves,
\* whose items were trimmed and the blank ones dropped.
MerkleRootCommand(items) ==
  LET leaves == SelectSeq(items, LAMBDA item : item # BlankItem)
  IN
  /\ leaves # <<>>
  /\ BuildMerkleTree(leaves)

BuildMerkleProof(i) ==
  /\ held' = Proof(tree, i)
  /\ UNCHANGED tree

MerkleInit == held = NoProof /\ \E leaves \in LeafLists : tree = Tree(leaves)

MerkleNext ==
  \/ \E leaves \in LeafLists : BuildMerkleTree(leaves)
  \/ \E items \in UNION {[1..n -> Elements \cup {BlankItem}] : n \in 1..MaxLeaves} :
       MerkleRootCommand(items)
  \/ \E i \in Positions : BuildMerkleProof(i)

MerkleSpec == MerkleInit /\ [][MerkleNext]_merkleVars

----------------------------------------------------------------------------
Nodes(t) == UNION {{t.layers[d][i] : i \in DOMAIN t.layers[d]} : d \in 0..Depth}

\* The position a path leads to: its direction bits, the lowest level first.
PositionOf(pathIndices) ==
  CHOOSE i \in Positions : \A d \in Levels : pathIndices[d] = Ancestor(i, d) % 2

\* The circuit accepts what buildMerkleProof returns exactly as long as the
\* published root is the one the proof was built for, and a proof that is still
\* accepted leads to its own position (merkle.ts:215-238 and circuit.circom:
\* both must agree on the order of every pair of children and of the levels).
ProofsFitTheCircuit ==
  held # NoProof =>
    /\ MerkleInclusion(held.leaf, held.pathElements, held.pathIndices, tree.root)
         <=> held.root = tree.root
    /\ PositionOf(held.pathIndices) = held.leafIndex
    /\ held.root = tree.root => tree.leaves[held.leafIndex] = held.leaf

\* Whatever nodes and directions the private inputs are made of, the circuit
\* accepts only the leaf of the published tree at the position the directions
\* spell: no inner node passes for a leaf and no leaf for a neighbour.
OnlyMembersProve ==
  \A leaf \in Nodes(tree), pathElements \in [Levels -> Nodes(tree)],
     pathIndices \in [Levels -> {0, 1}] :
    MerkleInclusion(leaf, pathElements, pathIndices, tree.root)
      => leaf = tree.leaves[PositionOf(pathIndices)]

=============================================================================
