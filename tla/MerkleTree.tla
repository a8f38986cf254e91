----------------------------- MODULE MerkleTree -----------------------------
(***************************************************************************)
(* The sparse Merkle tree of commitments (merkletree/impl.go). Nodes are   *)
(* numbered from the root, node n having the children 2n and 2n + 1, and   *)
(* absent nodes stand for the default value. The hash is a free            *)
(* constructor: two nodes are equal exactly if they hash the same values   *)
(* in the same order.                                                      *)
(***************************************************************************)
EXTENDS Integers, Sequences, TLC

CONSTANTS
  Levels,       \* levels of the tree, the leaves included (200 in the code)
  CircomLength  \* how many siblings the circuit reads (CircomMerkleLength)

ASSUME MerkleTreeAssumption ==
  /\ Levels \in Nat \ {0}
  /\ CircomLength \in 1..Levels
  /\ 2 ^ (Levels - 1) \in Nat \ {0}

Default == <<>>
HashOf(l, r) == <<l, r>>
Start == 2 ^ (Levels - 1)

\* What GetRootHash returns for a tree with gaps: an error.
Incomplete == <<"incomplete">>

NewTree == [leaf |-> <<>>, inner |-> <<>>, reverse |-> <<>>, count |-> 0, index |-> Start]

\* The one map of the code holds the leaves and the nodes above them; forceInsert takes leaves only.
Nodes(t) == t.leaf @@ t.inner

At(node, n) == IF n \in DOMAIN node THEN node[n] ELSE Default

\* big.Int.BitLen
BitLen[m \in Nat] == IF m = 0 THEN 0 ELSE 1 + BitLen[m \div 2]

\* Mutant: the logarithm is rounded down.
LogarithmFloor(n) == IF n <= 0 THEN 0 ELSE BitLen[n] - 1

Logarithm2(n) == IF n <= 0 THEN 0 ELSE BitLen[n - 1]

\* The h nodes above leaf n, hashed anew from the bottom.
Climb(inner, leaf, n, h) ==
  LET up[k \in 0..h] ==
        IF k = 0
        THEN inner
        ELSE LET cur   == n \div 2 ^ k
                 below == leaf @@ up[k - 1]
             IN (cur :> HashOf(At(below, 2 * cur), At(below, 2 * cur + 1))) @@ up[k - 1]
  IN up[h]

\* forceInsert: the leaf, its reverse entry, and its ancestors up to the height of the tree as
\* it is filled now.
ForceInsert(t, value, n) ==
  LET leaf == [m \in DOMAIN t.leaf \cup {n} |-> IF m = n THEN value ELSE t.leaf[m]]
  IN [t EXCEPT !.leaf = leaf,
               !.inner = Climb(@, leaf, n, Logarithm2(t.index - Start)),
               !.reverse = (value :> n) @@ @]

\* Mutant: a replaced leaf is counted again.
InsertCountsAgain(t, value, n) ==
  ForceInsert([t EXCEPT !.count = @ + 1, !.index = IF n + 1 > @ THEN n + 1 ELSE @], value, n)

Insert(t, value, n) ==
  ForceInsert([t EXCEPT !.count = IF n \in DOMAIN t.leaf THEN @ ELSE @ + 1,
                        !.index = IF n + 1 > @ THEN n + 1 ELSE @], value, n)

Contains(t, value) == value \in DOMAIN t.reverse

IsComplete(t) == t.count = t.index - Start

\* GetRootHash: the first node of the leftmost path, from the top, that has a value.
RootHash(t) ==
  LET spine == {k \in 0..(Levels - 1) : At(Nodes(t), 2 ^ k) # Default}
  IN CASE ~IsComplete(t) -> Incomplete
       [] IsComplete(t) /\ spine = {} -> Default
       [] OTHER -> At(Nodes(t), 2 ^ (CHOOSE k \in spine : \A j \in spine : k <= j))

\* Mutant: the right neighbour, whatever side the node is on.
RightNeighbour(n) == n + 1

SiblingIndex(n) ==
  CASE n = 1 -> 1
    [] n > 1 /\ n % 2 = 1 -> n - 1
    [] OTHER -> n + 1

\* GetSiblingHashesForVerification and GetSiblingSides: a value that was never inserted has an
\* all-zero path.
SiblingHashes(t, value) ==
  [k \in 1..CircomLength |->
     IF Contains(t, value) THEN At(Nodes(t), SiblingIndex(t.reverse[value] \div 2 ^ (k - 1))) ELSE Default]

SiblingSides(t, value) ==
  [k \in 1..CircomLength |->
     IF Contains(t, value) THEN (t.reverse[value] \div 2 ^ (k - 1)) % 2 ELSE 0]

\* CalcCommitmentsSiblingAndSides for one note of a positive amount: an error when the commitment
\* is not known or the tree has gaps, else its path.
Refused == [siblings |-> <<>>, sides |-> <<>>]
CommitmentPath(t, value) ==
  IF Contains(t, value) /\ IsComplete(t)
  THEN [siblings |-> SiblingHashes(t, value), sides |-> SiblingSides(t, value)]
  ELSE Refused

\* buildReverseTree: for a snapshot without a reverse index. (Leaves of a tree are distinct.)
BuildReverse(t) ==
  LET leaves == {n \in Start..(Start + t.count - 1) : n \in DOMAIN t.leaf}
  IN [v \in {t.leaf[n] : n \in leaves} |-> CHOOSE n \in leaves : t.leaf[n] = v]

-----------------------------------------------------------------------------
(* Reference: the tree over a sequence of leaves, built from scratch *)

Height(n) == CHOOSE h \in 0..n : 2 ^ h >= n /\ \A k \in 0..n : 2 ^ k >= n => h <= k

ReferenceRoot(leaves) ==
  LET n == Len(leaves)
      row[k \in 0..Height(n)] ==
        [j \in 0..(2 ^ Height(n) - 1) |->
           CASE j * 2 ^ k >= n -> Default
             [] j * 2 ^ k < n /\ k = 0 -> leaves[j + 1]
             [] OTHER -> HashOf(row[k - 1][2 * j], row[k - 1][2 * j + 1])]
  IN row[Height(n)][0]

\* The root the circuit computes from a leaf and the first h steps of its path.
PathRoot(value, hashes, sides, h) ==
  LET r[k \in 0..h] ==
        IF k = 0 THEN value
        ELSE IF sides[k] = 0 THEN HashOf(r[k - 1], hashes[k]) ELSE HashOf(hashes[k], r[k - 1])
  IN r[h]
=============================================================================
