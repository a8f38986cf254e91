----------------------- MODULE CommitmentStoreProofs -----------------------
(* Proofs about CommitmentStore: for any number of leaves, reorganisations and *)
(* reloads, in whatever order events arrive, and wherever a reader overtakes   *)
(* the removal of an output.  What the nodes above the leaves hold takes       *)
(* induction over the tree and is left to the runs.                            *)
EXTENDS CommitmentStore, FiniteSetTheorems, SequenceTheorems, TLAPS

-----------------------------------------------------------------------------
(* Constants and commitments *)

\* Leaves are numbered.
LEMMA Numbers ==
  Start \in Nat \ {0} /\ MaxLeaves \in Nat /\ MaxVersions \in Nat \ {0}
BY MerkleTreeAssumption, CommitmentStoreAssumption DEF Start

\* None is no commitment.
LEMMA NoneDiffers == None \notin Commitments
<1>1. ASSUME NEW i, NEW v PROVE None # Commitment(i, v)
  BY DEF None, Commitment
<1> QED
  BY <1>1 DEF Commitments

\* A commitment says where it was first mined.
LEMMA HomeOf ==
  ASSUME NEW i \in 1..MaxLeaves, NEW v \in 1..MaxVersions
  PROVE  Commitment(i, v) \in Commitments /\ Home(Commitment(i, v)) = i
BY DEF Commitments, Commitment, Home

-----------------------------------------------------------------------------
(* Lists *)

\* What is appended comes last.
LEMMA Appended ==
  ASSUME NEW T, NEW s \in Seq(T), NEW c \in T
  PROVE  LET r == Append(s, c)
         IN  /\ r \in Seq(T) /\ Len(r) = Len(s) + 1
             /\ Elements(r) = Elements(s) \cup {c}
             /\ \A k \in 1..Len(s) : r[k] = s[k]
             /\ Distinct(s) /\ c \notin Elements(s) => Distinct(r)
<1> DEFINE r == Append(s, c)
<1>1. /\ r \in Seq(T) /\ Len(r) = Len(s) + 1 /\ Len(s) \in Nat
      /\ DOMAIN s = 1..Len(s) /\ DOMAIN r = 1..(Len(s) + 1)
      /\ \A k \in 1..Len(s) : r[k] = s[k]
      /\ r[Len(s) + 1] = c
  OBVIOUS
<1> HIDE DEF r
<1>2. Elements(r) = Elements(s) \cup {c}
  <2>1. ASSUME NEW x \in Elements(r) PROVE x \in Elements(s) \cup {c}
    <3>1. PICK k \in 1..(Len(s) + 1) : x = r[k]
      BY <1>1 DEF Elements
    <3>2. CASE k = Len(s) + 1
      BY <1>1, <3>1, <3>2
    <3>3. CASE k \in 1..Len(s)
      BY <1>1, <3>1, <3>3 DEF Elements
    <3> QED
      BY <1>1, <3>2, <3>3
  <2>2. Elements(s) \subseteq Elements(r)
    BY <1>1 DEF Elements
  <2>3. c \in Elements(r)
    <3>1. Len(s) + 1 \in DOMAIN r
      BY <1>1
    <3> QED
      BY <1>1, <3>1 DEF Elements
  <2> QED
    BY <2>1, <2>2, <2>3
<1>3. ASSUME Distinct(s), c \notin Elements(s) PROVE Distinct(r)
  <2>1. \A k \in 1..Len(s) : s[k] # c
    BY <1>1, <1>3 DEF Elements
  <2>2. \A j, k \in 1..Len(s) : s[j] = s[k] => j = k
    BY <1>1, <1>3 DEF Distinct
  <2> QED
    BY <1>1, <2>1, <2>2 DEF Distinct
<1> QED
  BY <1>1, <1>2, <1>3 DEF r

\* What a list is without the slot h.
LEMMA Gap ==
  ASSUME NEW T, NEW s \in Seq(T), NEW h \in 1..Len(s)
  PROVE  LET r == Without(s, h)
         IN  /\ r \in Seq(T) /\ Len(r) = Len(s) - 1 /\ DOMAIN r = 1..(Len(s) - 1)
             /\ \A k \in 1..(Len(s) - 1) : r[k] = IF k < h THEN s[k] ELSE s[k + 1]
             /\ Distinct(s) => Distinct(r) /\ Elements(r) = Elements(s) \ {s[h]}
<1> DEFINE r == Without(s, h)
<1>1. DOMAIN s = 1..Len(s) /\ Len(s) \in Nat /\ Len(s) - 1 \in Nat
      /\ \A k \in 1..Len(s) : s[k] \in T
  OBVIOUS
<1>2. /\ DOMAIN r = 1..(Len(s) - 1)
      /\ \A k \in 1..(Len(s) - 1) : r[k] = IF k < h THEN s[k] ELSE s[k + 1]
  BY DEF Without
<1>3. \A k \in 1..(Len(s) - 1) : (IF k < h THEN s[k] ELSE s[k + 1]) \in T
  BY <1>1
<1>4. r \in [1..(Len(s) - 1) -> T]
  BY <1>3 DEF Without
<1> HIDE DEF r
<1>5. r \in Seq(T) /\ Len(r) = Len(s) - 1
  <2> DEFINE n == Len(s) - 1
  <2>1. n \in Nat /\ r \in [1..n -> T]
    BY <1>1, <1>4
  <2> HIDE DEF n
  <2>2. r \in Seq(T) /\ Len(r) = n
    BY <2>1
  <2> QED
    BY <2>2 DEF n
<1>6. ASSUME Distinct(s) PROVE Distinct(r) /\ Elements(r) = Elements(s) \ {s[h]}
  <2>1. \A j, k \in 1..Len(s) : s[j] = s[k] => j = k
    BY <1>1, <1>6 DEF Distinct
  <2>2. \A k \in 1..(Len(s) - 1) : k \in 1..Len(s) /\ k + 1 \in 1..Len(s)
    BY <1>1
  <2>3. ASSUME NEW j \in DOMAIN r, NEW k \in DOMAIN r, r[j] = r[k] PROVE j = k
    BY <1>1, <1>2, <2>1, <2>2, <2>3
  <2>4. ASSUME NEW k \in DOMAIN r PROVE r[k] \in Elements(s) \ {s[h]}
    <3>1. PICK m \in 1..Len(s) : r[k] = s[m] /\ m # h
      <4>1. CASE k < h
        BY <1>2, <2>2, <4>1
      <4>2. CASE ~(k < h)
        <5>1. k + 1 \in 1..Len(s) /\ k + 1 # h /\ r[k] = s[k + 1]
          BY <1>2, <2>2, <4>2
        <5> QED
          BY <5>1
      <4> QED
        BY <4>1, <4>2
    <3> QED
      BY <1>1, <2>1, <3>1 DEF Elements
  <2>5. ASSUME NEW m \in 1..Len(s), s[m] # s[h] PROVE \E k \in DOMAIN r : r[k] = s[m]
    <3>1. CASE m < h
      <4>1. m \in DOMAIN r /\ r[m] = s[m]
        BY <1>1, <1>2, <3>1
      <4> QED
        BY <4>1
    <3>2. CASE m > h
      <4>1. m - 1 \in DOMAIN r /\ r[m - 1] = s[m]
        BY <1>1, <1>2, <3>2
      <4> QED
        BY <4>1
    <3> QED
      BY <2>5, <3>1, <3>2
  <2>6. Elements(r) = Elements(s) \ {s[h]}
    <3>1. Elements(r) \subseteq Elements(s) \ {s[h]}
      BY <2>4 DEF Elements
    <3>2. Elements(s) \ {s[h]} \subseteq Elements(r)
      BY <1>1, <2>5 DEF Elements
    <3> QED
      BY <3>1, <3>2
  <2> QED
    BY <2>3, <2>6 DEF Distinct
<1> QED
  BY <1>2, <1>5, <1>6 DEF r

\* As the outputs behind the hole move down, the list without it stays.
LEMMA Shifted ==
  ASSUME NEW T, NEW s \in Seq(T), NEW h \in 1..(Len(s) - 1)
  PROVE  LET t == [s EXCEPT ![h] = s[h + 1]]
         IN  /\ t \in Seq(T) /\ Len(t) = Len(s)
             /\ \A k \in 1..Len(s) : t[k] = IF k = h THEN s[h + 1] ELSE s[k]
             /\ Without(t, h + 1) = Without(s, h)
<1> DEFINE t == [s EXCEPT ![h] = s[h + 1]]
<1>1. DOMAIN s = 1..Len(s) /\ Len(s) \in Nat /\ h \in 1..Len(s) /\ h + 1 \in 1..Len(s)
      /\ s[h + 1] \in T /\ s \in [1..Len(s) -> T]
  OBVIOUS
<1>2. /\ t \in [1..Len(s) -> T]
      /\ \A k \in 1..Len(s) : t[k] = IF k = h THEN s[h + 1] ELSE s[k]
  BY <1>1
<1> HIDE DEF t
<1>3. t \in Seq(T) /\ Len(t) = Len(s)
  BY <1>1, <1>2
<1>4. \A k \in 1..(Len(s) - 1) :
        (IF k < h + 1 THEN t[k] ELSE t[k + 1]) = (IF k < h THEN s[k] ELSE s[k + 1])
  <2> TAKE k \in 1..(Len(s) - 1)
  <2>1. k \in 1..Len(s) /\ k + 1 \in 1..Len(s)
    BY <1>1
  <2>2. CASE k < h
    BY <1>1, <1>2, <2>1, <2>2
  <2>3. CASE k = h
    BY <1>1, <1>2, <2>1, <2>3
  <2>4. CASE k > h
    BY <1>1, <1>2, <2>1, <2>4
  <2> QED
    BY <2>2, <2>3, <2>4
<1>5. Without(t, h + 1) = Without(s, h)
  BY <1>3, <1>4 DEF Without
<1> QED
  BY <1>2, <1>3, <1>5 DEF t

\* When the hole is the last slot, the list without it is the beginning.
LEMMA Shrunk ==
  ASSUME NEW T, NEW s \in Seq(T), Len(s) # 0
  PROVE  SubSeq(s, 1, Len(s) - 1) = Without(s, Len(s))
<1>1. Len(s) \in Nat \ {0} /\ Len(s) - 1 \in Nat
  OBVIOUS
<1>2. /\ Without(s, Len(s)) \in Seq(T) /\ Len(Without(s, Len(s))) = Len(s) - 1
      /\ \A k \in 1..(Len(s) - 1) : Without(s, Len(s))[k] = s[k]
  BY <1>1, Gap
<1>3. /\ SubSeq(s, 1, Len(s) - 1) \in Seq(T) /\ Len(SubSeq(s, 1, Len(s) - 1)) = Len(s) - 1
      /\ \A k \in 1..(Len(s) - 1) : SubSeq(s, 1, Len(s) - 1)[k] = s[k]
  <2> DEFINE n == Len(s) - 1
  <2>1. n \in Nat /\ n <= Len(s) /\ \A k \in 1..n : k \in 1..Len(s) /\ s[k] \in T
    BY <1>1, ElementOfSeq
  <2> HIDE DEF n
  <2>2. /\ SubSeq(s, 1, n) \in Seq(T) /\ Len(SubSeq(s, 1, n)) = IF 1 <= n THEN n - 1 + 1 ELSE 0
        /\ \A k \in 1..(n - 1 + 1) : SubSeq(s, 1, n)[k] = s[1 + k - 1]
    BY <2>1, SubSeqProperties
  <2>3. ASSUME NEW k \in 1..n PROVE SubSeq(s, 1, n)[k] = s[k]
    <3>1. k \in 1..(n - 1 + 1) /\ 1 + k - 1 = k
      BY <2>1
    <3> QED
      BY <2>2, <3>1
  <2>4. Len(SubSeq(s, 1, n)) = n
    BY <2>1, <2>2
  <2> QED
    BY <2>2, <2>3, <2>4 DEF n
<1> QED
  BY <1>2, <1>3, SeqEqual

-----------------------------------------------------------------------------
(* The tree *)

\* Insertion writes one leaf, counts it if it was free, and notes how far the
\* leaves reach.
LEMMA Inserted ==
  ASSUME TypeOK, NEW c, NEW n
  PROVE  LET t == Insert(tree, c, n)
         IN  /\ DOMAIN t = DOMAIN NewTree
             /\ DOMAIN t.leaf = Leaves \cup {n}
             /\ t.leaf[n] = c
             /\ \A m \in Leaves : m # n => t.leaf[m] = tree.leaf[m]
             /\ t.count = IF n \in Leaves THEN tree.count ELSE tree.count + 1
             /\ t.index = IF n + 1 > tree.index THEN n + 1 ELSE tree.index
<1> DEFINE u == [tree EXCEPT !.count = IF n \in DOMAIN tree.leaf THEN @ ELSE @ + 1,
                             !.index = IF n + 1 > @ THEN n + 1 ELSE @]
           t == ForceInsert(u, c, n)
<1>1. DOMAIN tree = {"leaf", "inner", "reverse", "count", "index"}
  BY DEF TypeOK, NewTree
<1>2. /\ DOMAIN u = DOMAIN tree /\ u.leaf = tree.leaf
      /\ u.count = IF n \in Leaves THEN tree.count ELSE tree.count + 1
      /\ u.index = IF n + 1 > tree.index THEN n + 1 ELSE tree.index
  BY <1>1 DEF Leaves
<1> HIDE DEF u
<1>3. /\ DOMAIN t = DOMAIN u /\ t.leaf = [m \in DOMAIN u.leaf \cup {n} |-> IF m = n THEN c ELSE u.leaf[m]]
      /\ t.count = u.count /\ t.index = u.index
  BY <1>1, <1>2 DEF ForceInsert
<1>4. Insert(tree, c, n) = t
  BY DEF Insert, u
<1> HIDE DEF t
<1> QED
  BY <1>1, <1>2, <1>3, <1>4 DEF TypeOK, Leaves

\* The snapshot's tree has the first leaves of the chain.
LEMMA Snapshot ==
  ASSUME NEW n
  PROVE  /\ DOMAIN TreeOfChain(n) = DOMAIN NewTree
         /\ TreeOfChain(n).leaf = [m \in Start..(Start + n - 1) |-> chain[m - Start + 1]]
         /\ TreeOfChain(n).count = n
         /\ TreeOfChain(n).index = Start + n
BY DEF TreeOfChain, NewTree

\* The values of the leaves after an insertion.
LEMMA InsertedValues ==
  ASSUME TypeOK, NEW c, NEW n, tree' = Insert(tree, c, n)
  PROVE  /\ LeafValues' \subseteq LeafValues \cup {c} /\ c \in LeafValues'
         /\ n \notin Leaves => LeafValues' = LeafValues \cup {c}
         /\ n \in Leaves => LeafValues \ {tree.leaf[n]} \subseteq LeafValues'
         /\ n \in Leaves /\ (\A m \in Leaves : tree.leaf[m] = tree.leaf[n] => m = n)
              => LeafValues' = (LeafValues \ {tree.leaf[n]}) \cup {c}
<1>1. /\ Leaves' = Leaves \cup {n} /\ tree'.leaf[n] = c
      /\ \A m \in Leaves : m # n => tree'.leaf[m] = tree.leaf[m]
  BY Inserted DEF Leaves
<1>2. /\ LeafValues = {tree.leaf[m] : m \in Leaves}
      /\ LeafValues' = {tree'.leaf[m] : m \in Leaves \cup {n}}
  BY <1>1 DEF LeafValues
<1>3. LeafValues' \subseteq LeafValues \cup {c} /\ c \in LeafValues'
  BY <1>1, <1>2
<1>4. ASSUME n \notin Leaves PROVE LeafValues \subseteq LeafValues'
  BY <1>1, <1>2, <1>4
<1>5. LeafValues \ {tree.leaf[n]} \subseteq LeafValues'
  BY <1>1, <1>2
<1>6. ASSUME n \in Leaves, \A m \in Leaves : tree.leaf[m] = tree.leaf[n] => m = n
      PROVE  LeafValues' \subseteq (LeafValues \ {tree.leaf[n]}) \cup {c}
  BY <1>1, <1>2, <1>6
<1> QED
  BY <1>3, <1>4, <1>5, <1>6

-----------------------------------------------------------------------------
(* The steps of the chain *)

\* What one step of the chain does, whichever it is.
LEMMA ChainGrows ==
  ASSUME IInv, chain' \in Seq(Commitments), Len(chain) <= Len(chain'), Len(chain') <= MaxLeaves,
         settled' \in 0..Len(chain'), reorgs' \in 0..MaxReorgs,
         moved \subseteq moved', moved' \subseteq Commitments,
         swapped' \in BOOLEAN, swapped => swapped',
         \A k \in 1..Len(chain) : chain'[k] = chain[k] \/ chain[k] \in moved',
         ChainInv', UNCHANGED <<serviceVars, headerVars, readVars>>
  PROVE  IInv'
<1>1. UNCHANGED <<tree, outputs, byC, accepted, hole, served, alias, stored, reader, seen, due,
                  crossed>>
  BY DEF serviceVars, headerVars, readVars
<1>2. Leaves' = Leaves /\ LeafValues' = LeafValues /\ Listed' = Listed
  BY <1>1 DEF Leaves, LeafValues, Listed
<1>3. /\ Leaves \subseteq Start..(Start + Len(chain) - 1) /\ tree.count \in 0..Len(chain)
      /\ tree.index \in Start..(Start + Len(chain)) /\ Len(chain) \in Nat /\ Len(chain') \in Nat
  BY LenProperties DEF IInv, TypeOK
<1>4. TypeOK'
  <2>1. /\ Leaves \subseteq Start..(Start + Len(chain') - 1)
        /\ tree.count \in 0..Len(chain') /\ tree.index \in Start..(Start + Len(chain'))
    BY <1>3, Numbers
  <2> QED
    BY <1>1, <1>2, <2>1 DEF IInv, TypeOK
<1>5. LeavesInv'
  <2>1. ASSUME NEW n \in Leaves PROVE tree.leaf[n] \in moved' \/ tree.leaf[n] = chain'[n - Start + 1]
    <3>1. n - Start + 1 \in 1..Len(chain)
      BY <1>3, Numbers
    <3>2. tree.leaf[n] \in moved \/ tree.leaf[n] = chain[n - Start + 1]
      BY DEF IInv, LeavesInv
    <3> QED
      BY <3>1, <3>2
  <2> QED
    BY <1>1, <1>2, <2>1 DEF IInv, LeavesInv
<1>6. OutputsInv'
  <2>1. Steady' \subseteq Steady
    BY <1>2 DEF Steady
  <2> QED
    BY <1>1, <1>2, <2>1 DEF IInv, OutputsInv, Distinct, Elements
<1>7. HoleInv' /\ HeaderInv'
  BY <1>1, <1>2 DEF IInv, HoleInv, HeaderInv, Distinct, Elements
<1>8. ReaderInv'
  BY <1>1 DEF IInv, ReaderInv
<1> QED
  BY <1>4, <1>5, <1>6, <1>7, <1>8 DEF IInv

\* A deposit adds a leaf and settling takes nothing back.
LEMMA DepositSettleKeep ==
  ASSUME IInv, Deposit \/ Settle
  PROVE  IInv'
<1>1. /\ chain \in Seq(Commitments) /\ Len(chain) <= MaxLeaves /\ settled \in 0..Len(chain)
      /\ Distinct(chain) /\ DOMAIN chain = 1..Len(chain) /\ Len(chain) \in Nat
      /\ reorgs \in 0..MaxReorgs /\ moved \subseteq Commitments /\ swapped \in BOOLEAN
      /\ \A k \in 1..Len(chain) : Home(chain[k]) \in 1..Len(chain)
      /\ ~swapped => \A k \in 1..Len(chain) : Home(chain[k]) = k
  BY LenProperties DEF IInv, TypeOK, ChainInv
<1>2. CASE Settle
  <2>1. chain' = chain /\ settled' \in 0..Len(chain)
        /\ UNCHANGED <<reorgs, moved, swapped, serviceVars, headerVars, readVars>>
    BY <1>1, <1>2 DEF Settle
  <2>2. ChainInv'
    BY <2>1 DEF IInv, ChainInv, Distinct
  <2> QED
    BY <1>1, <2>1, <2>2, ChainGrows
<1>3. CASE Deposit
  <2> DEFINE c == Commitment(Len(chain) + 1, 1)
  <2>1. /\ Len(chain) < MaxLeaves /\ chain' = Append(chain, c)
        /\ UNCHANGED <<settled, reorgs, moved, swapped, serviceVars, headerVars, readVars>>
    BY <1>3 DEF Deposit
  <2>2. c \in Commitments /\ Home(c) = Len(chain) + 1
    <3>1. Len(chain) + 1 \in 1..MaxLeaves /\ 1 \in 1..MaxVersions
      BY <1>1, <2>1, Numbers
    <3> QED
      BY <3>1, HomeOf
  <2> HIDE DEF c
  <2>3. c \notin Elements(chain)
    BY <1>1, <2>2 DEF Elements
  <2>4. /\ chain' \in Seq(Commitments) /\ Len(chain') = Len(chain) + 1 /\ Distinct(chain')
        /\ \A k \in 1..Len(chain) : chain'[k] = chain[k]
    BY <1>1, <2>1, <2>2, <2>3, Appended
  <2>5. chain'[Len(chain) + 1] = c /\ DOMAIN chain' = 1..(Len(chain) + 1)
    BY <1>1, <2>1, <2>2, AppendProperties
  <2>6. ASSUME NEW k \in DOMAIN chain'
        PROVE  Home(chain'[k]) \in DOMAIN chain' /\ (swapped \/ Home(chain'[k]) = k)
    <3>1. CASE k = Len(chain) + 1
      BY <1>1, <2>2, <2>5, <3>1
    <3>2. CASE k \in 1..Len(chain)
      BY <1>1, <2>4, <2>5, <3>2
    <3> QED
      BY <1>1, <2>5, <3>1, <3>2
  <2>7. ChainInv'
    BY <2>1, <2>4, <2>6 DEF ChainInv
  <2>8. Len(chain) <= Len(chain') /\ Len(chain') <= MaxLeaves /\ settled' \in 0..Len(chain')
    BY <1>1, <2>1, <2>4, Numbers
  <2> QED
    BY <1>1, <2>1, <2>4, <2>7, <2>8, ChainGrows
<1> QED
  BY <1>2, <1>3

\* A reorganisation puts another commitment at a leaf, or exchanges two: those it takes from
\* their indices are moved.
LEMMA ReorgKeeps ==
  ASSUME IInv, NEW i \in 1..Len(chain), NEW c \in Commitments, Reorg(i, c)
  PROVE  IInv'
<1>1. /\ chain \in Seq(Commitments) /\ Len(chain) <= MaxLeaves /\ settled \in 0..Len(chain)
      /\ DOMAIN chain = 1..Len(chain) /\ Len(chain) \in Nat
      /\ reorgs \in 0..MaxReorgs /\ moved \subseteq Commitments /\ swapped \in BOOLEAN
  BY LenProperties DEF IInv, TypeOK
<1>2. /\ \A j, k \in 1..Len(chain) : chain[j] = chain[k] => j = k
      /\ \A k \in 1..Len(chain) : Home(chain[k]) \in 1..Len(chain)
      /\ \A k \in 1..Len(chain) : swapped \/ Home(chain[k]) = k
      /\ \A k \in 1..Len(chain) : chain[k] \in Commitments
  BY <1>1, ElementOfSeq DEF IInv, ChainInv, Distinct
<1>3. /\ reorgs < MaxReorgs /\ reorgs' = reorgs + 1 /\ settled' = settled
      /\ chain[i] # c /\ (c \in Elements(chain) \/ Home(c) = i)
      /\ chain' = [j \in 1..Len(chain) |->
                     CASE j = i -> c
                       [] j # i /\ chain[j] = c -> chain[i]
                       [] OTHER -> chain[j]]
      /\ moved' = moved \cup {chain[j] : j \in {k \in 1..Len(chain) : chain[k] \in {chain[i], c}}}
      /\ swapped' = (swapped \/ c \in Elements(chain))
      /\ UNCHANGED <<serviceVars, headerVars, readVars>>
  BY <1>1 DEF Reorg
<1>4. /\ DOMAIN chain' = 1..Len(chain) /\ chain'[i] = c
      /\ \A j \in 1..Len(chain) : j # i /\ chain[j] = c => chain'[j] = chain[i]
      /\ \A j \in 1..Len(chain) : j # i /\ chain[j] # c => chain'[j] = chain[j]
  BY <1>3
<1>5. \A j \in 1..Len(chain) : chain'[j] \in Commitments
  BY <1>2, <1>4
<1>6. chain' \in Seq(Commitments) /\ Len(chain') = Len(chain)
  <2>1. chain' \in [1..Len(chain) -> Commitments]
    BY <1>3, <1>4, <1>5
  <2> QED
    BY <1>1, <2>1
<1>7. ASSUME NEW j \in 1..Len(chain), NEW k \in 1..Len(chain), chain'[j] = chain'[k] PROVE j = k
  <2>1. CASE j = i \/ k = i
    BY <1>2, <1>3, <1>4, <1>7, <2>1
  <2>2. CASE j # i /\ k # i
    BY <1>2, <1>4, <1>7, <2>2
  <2> QED
    BY <2>1, <2>2
<1>8. c \in Elements(chain) <=> \E j \in 1..Len(chain) : chain[j] = c
  BY <1>1 DEF Elements
<1>9. ASSUME NEW k \in 1..Len(chain)
      PROVE  Home(chain'[k]) \in 1..Len(chain) /\ (swapped' \/ Home(chain'[k]) = k)
  <2>1. CASE c \in Elements(chain)
    BY <1>2, <1>3, <1>4, <1>8, <2>1
  <2>2. CASE c \notin Elements(chain)
    BY <1>2, <1>3, <1>4, <1>8, <2>2
  <2> QED
    BY <2>1, <2>2
<1>10. ChainInv'
  BY <1>4, <1>7, <1>9 DEF ChainInv, Distinct
<1>11. moved \subseteq moved' /\ moved' \subseteq Commitments
  BY <1>1, <1>2, <1>3
<1>12. \A k \in 1..Len(chain) : chain'[k] = chain[k] \/ chain[k] \in moved'
  BY <1>3, <1>4
<1>13. reorgs' \in 0..MaxReorgs /\ swapped' \in BOOLEAN /\ (swapped => swapped')
  BY <1>1, <1>3, CommitmentStoreAssumption
<1> QED
  BY <1>1, <1>3, <1>6, <1>10, <1>11, <1>12, <1>13, ChainGrows
-----------------------------------------------------------------------------
(* Parts that a step leaves alone *)

\* As long as the chain and the tree stay.
LEMMA TreeStays ==
  ASSUME IInv, UNCHANGED <<chainVars, tree>>
  PROVE  /\ ChainInv' /\ LeavesInv'
         /\ Leaves' = Leaves /\ LeafValues' = LeafValues /\ Steady' = Steady
<1>1. UNCHANGED <<chain, settled, reorgs, moved, swapped, tree>>
  BY DEF chainVars
<1>2. Leaves' = Leaves /\ LeafValues' = LeafValues
  BY <1>1 DEF Leaves, LeafValues
<1> QED
  BY <1>1, <1>2 DEF IInv, ChainInv, LeavesInv, Steady, Distinct

\* As long as the service stays too.
LEMMA ServiceStays ==
  ASSUME IInv, UNCHANGED <<chainVars, serviceVars>>
  PROVE  ChainInv' /\ LeavesInv' /\ OutputsInv' /\ HoleInv' /\ Listed' = Listed
<1>1. UNCHANGED <<chainVars, chain, settled, reorgs, moved, swapped, tree, outputs, byC, accepted, hole>>
  BY DEF chainVars, serviceVars
<1>2. Listed' = Listed
  BY <1>1 DEF Listed
<1>3. ChainInv' /\ LeavesInv' /\ LeafValues' = LeafValues /\ Steady' = Steady
  BY <1>1, TreeStays
<1>4. OutputsInv' /\ HoleInv'
  BY <1>1, <1>2, <1>3 DEF IInv, OutputsInv, HoleInv
<1> QED
  BY <1>2, <1>3, <1>4

\* What the instance's header shows after a write of the service.
LEMMA ShownIs ==
  ASSUME NEW s \in Seq(Commitments), served \in Seq(Commitments)
  PROVE  /\ Shown(s) \in Seq(Commitments) /\ Len(Shown(s)) = Len(served)
         /\ \A k \in 1..Len(served) :
              Shown(s)[k] = IF alias /\ k <= Len(s) THEN s[k] ELSE served[k]
<1>1. /\ DOMAIN served = 1..Len(served) /\ Len(served) \in Nat
      /\ DOMAIN s = 1..Len(s) /\ Len(s) \in Nat
      /\ \A k \in 1..Len(served) : served[k] \in Commitments
      /\ \A k \in 1..Len(s) : s[k] \in Commitments
  BY LenProperties, ElementOfSeq
<1>2. CASE ~alias
  BY <1>2 DEF Shown
<1>3. CASE alias
  <2> DEFINE r == [k \in 1..Len(served) |-> IF k \in 1..Len(s) THEN s[k] ELSE served[k]]
  <2>1. Shown(s) = r
    BY <1>1, <1>3 DEF Shown
  <2>2. r \in [1..Len(served) -> Commitments]
    BY <1>1
  <2>3. \A k \in 1..Len(served) : r[k] = IF k <= Len(s) THEN s[k] ELSE served[k]
    BY <1>1
  <2> HIDE DEF r
  <2>4. r \in Seq(Commitments) /\ Len(r) = Len(served)
    BY <1>1, <2>2
  <2> QED
    BY <1>3, <2>1, <2>3, <2>4
<1> QED
  BY <1>2, <1>3

-----------------------------------------------------------------------------
(* AcceptEvent *)

\* The tree takes a commitment of the chain, in place of what its leaf held, which was moved.
LEMMA TreeTakes ==
  ASSUME IInv, NEW i \in 1..Len(chain), UNCHANGED chainVars,
         At(tree.leaf, NodeOf(i)) # chain[i],
         tree' = Insert(tree, chain[i], NodeOf(i))
  PROVE  /\ DOMAIN tree' = DOMAIN NewTree
         /\ Leaves' \subseteq Start..(Start + Len(chain) - 1) /\ LeafValues' \subseteq Commitments
         /\ tree'.count \in 0..Len(chain) /\ tree'.index \in Start..(Start + Len(chain))
         /\ LeavesInv'
         /\ chain[i] \in LeafValues' /\ (~swapped => chain[i] \notin LeafValues)
         /\ NodeOf(i) \notin Leaves =>
              LeafValues' = LeafValues \cup {chain[i]} /\ Steady' \subseteq Steady \cup {chain[i]}
         /\ NodeOf(i) \in Leaves =>
              LET existing == tree.leaf[NodeOf(i)] IN
              /\ existing \in moved /\ existing \in LeafValues /\ existing # chain[i]
              /\ LeafValues \ {existing} \subseteq LeafValues'
              /\ Steady' \subseteq (Steady \ {existing}) \cup {chain[i]}
<1> DEFINE n == NodeOf(i)
           c == chain[i]
           existing == tree.leaf[n]
<1>1. /\ chain \in Seq(Commitments) /\ Leaves \subseteq Start..(Start + Len(chain) - 1)
      /\ LeafValues \subseteq Commitments /\ TypeOK
      /\ tree.count = Cardinality(Leaves) /\ tree.index \in Start..(Start + Len(chain))
      /\ \A m \in Leaves : tree.leaf[m] \in moved \/ tree.leaf[m] = chain[m - Start + 1]
      /\ ~swapped => \A m \in Leaves : Home(tree.leaf[m]) = m - Start + 1
  BY DEF IInv, TypeOK, LeavesInv
<1>2. /\ Len(chain) \in Nat /\ c \in Commitments /\ DOMAIN chain = 1..Len(chain)
      /\ chain' = chain /\ moved' = moved /\ swapped' = swapped
  BY <1>1, LenProperties, ElementOfSeq DEF chainVars
<1>3. n \in Start..(Start + Len(chain) - 1) /\ n - Start + 1 = i
  BY <1>2, Numbers DEF NodeOf
<1>4. ~swapped => Home(c) = i
  BY <1>2 DEF IInv, ChainInv
<1>5. n \in Leaves => existing # c
  BY DEF At, Leaves
<1> HIDE DEF n, c, existing
<1>6. /\ DOMAIN tree' = DOMAIN NewTree /\ Leaves' = Leaves \cup {n} /\ tree'.leaf[n] = c
      /\ \A m \in Leaves : m # n => tree'.leaf[m] = tree.leaf[m]
      /\ tree'.count = IF n \in Leaves THEN tree.count ELSE tree.count + 1
      /\ tree'.index = IF n + 1 > tree.index THEN n + 1 ELSE tree.index
  BY <1>1, Inserted DEF Leaves, n, c
<1>7. /\ LeafValues' \subseteq LeafValues \cup {c} /\ c \in LeafValues'
      /\ n \notin Leaves => LeafValues' = LeafValues \cup {c}
      /\ n \in Leaves => LeafValues \ {existing} \subseteq LeafValues'
      /\ n \in Leaves /\ (\A m \in Leaves : tree.leaf[m] = existing => m = n)
           => LeafValues' = (LeafValues \ {existing}) \cup {c}
  BY <1>1, InsertedValues DEF n, c, existing
<1>8. ~swapped => c \notin LeafValues
  <2>1. ASSUME ~swapped, NEW m \in Leaves, tree.leaf[m] = c PROVE FALSE
    <3>1. m - Start + 1 = n - Start + 1
      BY <1>1, <1>3, <1>4, <2>1
    <3>2. m = n
      BY <1>1, <1>2, <1>3, <3>1, Numbers
    <3> QED
      BY <1>5, <2>1, <3>2 DEF existing
  <2> QED
    BY <2>1 DEF LeafValues
<1>9. ASSUME n \in Leaves
      PROVE  /\ existing \in moved /\ existing \in LeafValues /\ existing # c
             /\ Steady' \subseteq (Steady \ {existing}) \cup {c}
  <2>1. existing \in moved /\ existing \in LeafValues /\ existing # c
    BY <1>1, <1>3, <1>5, <1>9 DEF existing, c, LeafValues
  <2>2. CASE swapped
    BY <1>2, <1>7, <2>1, <2>2 DEF Steady
  <2>3. CASE ~swapped
    <3>1. ASSUME NEW m \in Leaves, tree.leaf[m] = existing PROVE m = n
      <4>1. m - Start + 1 = n - Start + 1
        BY <1>1, <1>9, <2>3, <3>1 DEF existing
      <4> QED
        BY <1>1, <1>2, <1>3, <4>1, Numbers
    <3>2. LeafValues' = (LeafValues \ {existing}) \cup {c}
      BY <1>7, <1>9, <3>1
    <3>3. Steady' = LeafValues' /\ Steady = LeafValues
      BY <1>2, <2>3 DEF Steady
    <3> QED
      BY <2>1, <3>2, <3>3
  <2> QED
    BY <2>1, <2>2, <2>3
<1>10. Leaves' \subseteq Start..(Start + Len(chain) - 1) /\ LeafValues' \subseteq Commitments
  BY <1>1, <1>2, <1>3, <1>6, <1>7
<1>11. /\ IsFiniteSet(Start..(Start + Len(chain) - 1))
       /\ Cardinality(Start..(Start + Len(chain) - 1)) = Len(chain)
  <2>1. Start \in Int /\ Start + Len(chain) - 1 \in Int
    BY <1>2, Numbers
  <2>2. IF Start > Start + Len(chain) - 1 THEN Len(chain) = 0
        ELSE (Start + Len(chain) - 1) - Start + 1 = Len(chain)
    BY <1>2, Numbers
  <2> QED
    BY <2>1, <2>2, FS_Interval
<1>12. tree'.count = Cardinality(Leaves') /\ tree'.count \in 0..Len(chain)
  <2>1. IsFiniteSet(Leaves)
    BY <1>1, <1>11, FS_Subset
  <2>2. Cardinality(Leaves') = IF n \in Leaves THEN Cardinality(Leaves) ELSE Cardinality(Leaves) + 1
    BY <1>6, <2>1, FS_AddElement
  <2>3. IsFiniteSet(Leaves') /\ Cardinality(Leaves') <= Len(chain)
    BY <1>10, <1>11, FS_Subset
  <2>4. Cardinality(Leaves') \in Nat
    BY <2>3, FS_CardinalityType
  <2> QED
    BY <1>1, <1>2, <1>6, <2>2, <2>3, <2>4
<1>13. /\ tree'.index \in Start..(Start + Len(chain)) /\ \A m \in Leaves' : m < tree'.index
       /\ tree'.index # Start => tree'.index - 1 \in Leaves'
  <2>1. /\ \A m \in Leaves : m < tree.index
        /\ tree.index # Start => tree.index - 1 \in Leaves
    BY DEF IInv, LeavesInv
  <2>2. \A m \in Leaves' : m \in Int
    BY <1>2, <1>10, Numbers
  <2>3. CASE n + 1 > tree.index
    <3>1. tree'.index = n + 1
      BY <1>6, <2>3
    <3>2. tree.index \in Int /\ n \in Int /\ n + 1 \in Start..(Start + Len(chain))
      BY <1>1, <1>2, <1>3, Numbers
    <3>3. \A m \in Leaves' : m < n + 1
      BY <1>6, <2>1, <2>2, <2>3, <3>2
    <3>4. n + 1 - 1 = n /\ n \in Leaves'
      BY <1>6, <3>2
    <3> QED
      BY <3>1, <3>2, <3>3, <3>4
  <2>4. CASE ~(n + 1 > tree.index)
    <3>1. tree'.index = tree.index
      BY <1>6, <2>4
    <3>2. tree.index \in Int /\ n \in Int
      BY <1>1, <1>2, <1>3, Numbers
    <3>3. n < tree.index
      BY <2>4, <3>2
    <3> QED
      BY <1>1, <1>6, <2>1, <3>1, <3>3
  <2> QED
    BY <2>3, <2>4
<1>14. ASSUME NEW m \in Leaves'
       PROVE  /\ tree'.leaf[m] \in moved \/ tree'.leaf[m] = chain[m - Start + 1]
              /\ ~swapped => Home(tree'.leaf[m]) = m - Start + 1
  <2>1. CASE m = n
    BY <1>3, <1>4, <1>6, <2>1 DEF c
  <2>2. CASE m # n
    BY <1>1, <1>6, <2>2
  <2> QED
    BY <2>1, <2>2
<1>15. LeavesInv'
  BY <1>2, <1>12, <1>13, <1>14 DEF LeavesInv
<1>16. n \notin Leaves => Steady' \subseteq Steady \cup {c}
  BY <1>2, <1>7 DEF Steady
<1> QED
  BY <1>6, <1>7, <1>8, <1>9, <1>10, <1>12, <1>13, <1>15, <1>16 DEF n, c, existing

\* AcceptEvent's end: the output is in the list, once, and what a header on the array showed is
\* still there but for what was moved.
LEMMA Lists ==
  ASSUME IInv, hole = 0, NEW c \in Commitments, Listing(c)
  PROVE  /\ outputs' \in Seq(Commitments) /\ Distinct(outputs')
         /\ Elements(outputs') = Elements(outputs) \cup {c}
         /\ Len(outputs') = IF c \in Elements(outputs) THEN Len(outputs) ELSE Len(outputs) + 1
         /\ served' \in Seq(Commitments) /\ Len(served') = Len(served)
         /\ alias' \in {alias, FALSE} /\ (alias /\ ~alias' => Len(served) <= Len(outputs))
         /\ \A k \in 1..Len(served) : (alias => k <= Len(outputs)) => served'[k] = served[k]
         /\ alias' => \A k \in 1..Len(served) :
              IF k <= Len(outputs')
              THEN served'[k] = outputs'[k]
              ELSE served'[k] \in moved \cup Elements(outputs')
         /\ Elements(served) \ moved \subseteq Elements(served')
<1>1. /\ outputs \in Seq(Commitments) /\ served \in Seq(Commitments) /\ alias \in BOOLEAN
      /\ Distinct(outputs)
      /\ DOMAIN outputs = 1..Len(outputs) /\ DOMAIN served = 1..Len(served)
      /\ Len(outputs) \in Nat /\ Len(served) \in Nat
      /\ alias => \A k \in 1..Len(served) :
           IF k <= Len(outputs)
           THEN served[k] = outputs[k]
           ELSE served[k] \in moved \cup Elements(outputs)
  BY LenProperties DEF IInv, TypeOK, OutputsInv, HeaderInv, Listed
<1>2. CASE c \in Elements(outputs)
  <2>1. UNCHANGED <<outputs, served, alias>>
    BY <1>2 DEF Listing
  <2> QED
    BY <1>1, <1>2, <2>1 DEF Distinct, Elements
<1>3. CASE c \notin Elements(outputs)
  <2>1. /\ outputs' = Append(outputs, c) /\ served' = Shown(outputs')
        /\ alias' \in IF Len(outputs) < Len(served) THEN {alias} ELSE {alias, FALSE}
    BY <1>3 DEF Listing
  <2>2. /\ outputs' \in Seq(Commitments) /\ Len(outputs') = Len(outputs) + 1
        /\ Elements(outputs') = Elements(outputs) \cup {c} /\ Distinct(outputs')
        /\ \A k \in 1..Len(outputs) : outputs'[k] = outputs[k]
    BY <1>1, <1>3, <2>1, Appended
  <2>3. outputs'[Len(outputs) + 1] = c
    BY <1>1, <2>1, AppendProperties
  <2>4. /\ served' \in Seq(Commitments) /\ Len(served') = Len(served)
        /\ \A k \in 1..Len(served) :
             served'[k] = IF alias /\ k <= Len(outputs) + 1 THEN outputs'[k] ELSE served[k]
    BY <1>1, <2>1, <2>2, ShownIs
  <2>5. alias' \in {alias, FALSE} /\ (alias /\ ~alias' => Len(served) <= Len(outputs))
    <3>1. CASE Len(outputs) < Len(served)
      BY <2>1, <3>1
    <3>2. CASE ~(Len(outputs) < Len(served))
      <4>1. alias' \in {alias, FALSE}
        BY <2>1, <3>2
      <4>2. Len(served) <= Len(outputs)
        BY <1>1, <3>2
      <4> QED
        BY <4>1, <4>2
    <3> QED
      BY <3>1, <3>2
  <2>6. ASSUME NEW k \in 1..Len(served), alias => k <= Len(outputs) PROVE served'[k] = served[k]
    BY <1>1, <2>2, <2>4, <2>6
  <2>7. ASSUME alias, NEW k \in 1..Len(served)
        PROVE  IF k <= Len(outputs')
               THEN served'[k] = outputs'[k]
               ELSE served'[k] \in moved \cup Elements(outputs')
    BY <1>1, <2>2, <2>4, <2>7
  <2>8. ASSUME NEW x \in Elements(served), x \notin moved PROVE x \in Elements(served')
    <3>1. PICK k \in 1..Len(served) : served[k] = x
      BY <1>1, <2>8 DEF Elements
    <3>2. PICK j \in 1..Len(served) : served[j] = x /\ (alias => j <= Len(outputs))
      <4>1. CASE alias => k <= Len(outputs)
        BY <3>1, <4>1
      <4>2. CASE alias /\ ~(k <= Len(outputs))
        <5>1. x \in Elements(outputs)
          BY <1>1, <2>8, <3>1, <4>2
        <5>2. PICK j \in 1..Len(outputs) : outputs[j] = x
          BY <1>1, <5>1 DEF Elements
        <5>3. j \in 1..Len(served) /\ served[j] = x
          BY <1>1, <4>2, <5>2
        <5> QED
          BY <5>2, <5>3
      <4> QED
        BY <4>1, <4>2
    <3>3. served'[j] = x /\ j \in DOMAIN served'
      BY <2>4, <2>6, <3>2, LenProperties
    <3> QED
      BY <3>3 DEF Elements
  <2>9. alias' => \A k \in 1..Len(served) :
          IF k <= Len(outputs')
          THEN served'[k] = outputs'[k]
          ELSE served'[k] \in moved \cup Elements(outputs')
    <3>1. alias' => alias
      BY <1>1, <2>5
    <3> QED
      BY <2>7, <3>1
  <2>10. Len(outputs') = IF c \in Elements(outputs) THEN Len(outputs) ELSE Len(outputs) + 1
    BY <1>3, <2>2
  <2>11. Elements(served) \ moved \subseteq Elements(served')
    BY <2>8
  <2>12. \A k \in 1..Len(served) : (alias => k <= Len(outputs)) => served'[k] = served[k]
    BY <2>6
  <2> QED
    BY ONLY <2>2, <2>4, <2>5, <2>9, <2>10, <2>11, <2>12
<1> QED
  BY <1>2, <1>3

\* It keeps the invariants of the header and of the reader.
LEMMA ListingKeeps ==
  ASSUME IInv, hole = 0, hole' = 0, accepted' = None,
         NEW c \in Commitments, Listing(c), accepted # None => c = accepted,
         ~swapped => c \notin Elements(outputs),
         UNCHANGED <<stored, chainVars, readVars>>
  PROVE  /\ HoleInv' /\ HeaderInv' /\ ReaderInv'
         /\ Listed' = outputs'
<1>1. /\ UNCHANGED <<moved, swapped, reader, seen, due, crossed>>
      /\ alias \in BOOLEAN /\ outputs \in Seq(Commitments) /\ served \in Seq(Commitments)
      /\ DOMAIN outputs = 1..Len(outputs) /\ DOMAIN served = 1..Len(served)
      /\ Len(outputs) \in Nat /\ Len(served) \in Nat /\ Len(seen) <= Len(served)
      /\ DOMAIN seen = 1..Len(seen) /\ Len(seen) \in Nat
      /\ Listed = outputs /\ Distinct(outputs)
  BY LenProperties DEF chainVars, readVars, IInv, TypeOK, OutputsInv, Listed
<1>2. Listed' = outputs' /\ HoleInv'
  BY DEF Listed, HoleInv
<1>3. /\ Len(outputs') = IF c \in Elements(outputs) THEN Len(outputs) ELSE Len(outputs) + 1
      /\ served' \in Seq(Commitments) /\ Len(served') = Len(served)
      /\ alias' \in {alias, FALSE} /\ (alias /\ ~alias' => Len(served) <= Len(outputs))
      /\ \A k \in 1..Len(served) : (alias => k <= Len(outputs)) => served'[k] = served[k]
      /\ alias' => \A k \in 1..Len(served) :
           IF k <= Len(outputs')
           THEN served'[k] = outputs'[k]
           ELSE served'[k] \in moved \cup Elements(outputs')
  BY Lists
<1>4. DOMAIN served' = 1..Len(served)
  BY <1>1, <1>3, LenProperties
<1>5. ASSUME ~swapped
      PROVE  IF alias' THEN Len(served') <= Len(outputs') ELSE Distinct(served')
  <2>1. /\ Len(outputs') = Len(outputs) + 1
        /\ alias => Len(served) <= Len(outputs) + 1
        /\ ~alias => Distinct(served)
    BY <1>1, <1>3, <1>5 DEF IInv, HeaderInv
  <2>2. CASE alias'
    BY <1>1, <1>3, <2>1, <2>2
  <2>3. CASE ~alias' /\ ~alias
    BY <1>1, <1>3, <1>4, <2>1, <2>3 DEF Distinct
  <2>4. CASE ~alias' /\ alias
    <3>1. /\ Len(served) <= Len(outputs)
          /\ \A k \in 1..Len(served) : served[k] = outputs[k]
      BY <1>1, <1>3, <2>4 DEF IInv, HeaderInv
    <3>2. \A k \in 1..Len(served) : served'[k] = outputs[k] /\ k \in 1..Len(outputs)
      BY <1>1, <1>3, <3>1
    <3>3. \A j, k \in 1..Len(outputs) : outputs[j] = outputs[k] => j = k
      BY <1>1 DEF Distinct
    <3>4. Distinct(served')
      BY <1>4, <3>2, <3>3 DEF Distinct
    <3> QED
      BY <2>4, <3>4
  <2> QED
    BY <2>2, <2>3, <2>4
<1>6. HeaderInv'
  BY <1>1, <1>2, <1>3, <1>4, <1>5 DEF HeaderInv
<1>7. ASSUME reader # "none", ~crossed
      PROVE  /\ \A d \in due \ moved :
                  \E k \in 1..Len(served) : /\ served'[k] = d
                                            /\ k <= Len(seen) => seen[k] = d
                                            /\ alias' => k <= Len(outputs')
             /\ ~swapped => \A k \in 1..Len(seen) : seen[k] = served'[k]
  <2>1. /\ \A d \in due \ moved :
             \E k \in 1..Len(served) : /\ served[k] = d
                                       /\ k <= Len(seen) => seen[k] = d
                                       /\ alias => k <= Len(outputs)
        /\ ~swapped => \A k \in 1..Len(seen) : seen[k] = served[k]
        /\ accepted = None
    BY <1>1, <1>7 DEF IInv, ReaderInv
  <2>2. ASSUME NEW d \in due \ moved
        PROVE  \E k \in 1..Len(served) : /\ served'[k] = d
                                         /\ k <= Len(seen) => seen[k] = d
                                         /\ alias' => k <= Len(outputs')
    <3>1. PICK k \in 1..Len(served) : /\ served[k] = d
                                      /\ k <= Len(seen) => seen[k] = d
                                      /\ alias => k <= Len(outputs)
      BY <2>1
    <3>2. served'[k] = d
      BY <1>3, <3>1
    <3>3. Len(outputs) <= Len(outputs') /\ Len(outputs') \in Nat /\ (alias' => alias)
      <4>1. alias' => alias
        BY <1>3
      <4>2. Len(outputs') \in {Len(outputs), Len(outputs) + 1}
        BY <1>3
      <4> QED
        BY <1>1, <4>1, <4>2
    <3>4. alias' => k <= Len(outputs')
      BY <1>1, <3>1, <3>3
    <3> QED
      BY <3>1, <3>2, <3>4
  <2>3. ASSUME ~swapped, NEW k \in 1..Len(seen) PROVE seen[k] = served'[k]
    <3>1. k \in 1..Len(served) /\ (alias => Len(served) <= Len(outputs))
      BY <1>1, <2>1, <2>3 DEF IInv, HeaderInv
    <3> QED
      BY <1>1, <1>3, <2>1, <2>3, <3>1
  <2> QED
    BY <2>2, <2>3
<1>8. ReaderInv'
  BY <1>1, <1>4, <1>7 DEF IInv, ReaderInv
<1> QED
  BY <1>2, <1>6, <1>8

\* A commitment whose index is free.
LEMMA NewKeeps ==
  ASSUME IInv, NEW i \in 1..Len(chain), AcceptNew(i)
  PROVE  IInv' /\ Elements(served) \ moved \subseteq Elements(served')
<1> DEFINE c == chain[i]
<1>1. /\ accepted = None /\ hole = 0 /\ NodeOf(i) \notin Leaves
      /\ At(tree.leaf, NodeOf(i)) # c /\ tree' = Insert(tree, c, NodeOf(i))
      /\ byC' = byC \cup {c} /\ Listing(c)
      /\ UNCHANGED <<accepted, hole, stored, chainVars, readVars>>
  BY DEF AcceptNew, MayAccept, Leaves, IInv, OutputsInv
<1>2. /\ outputs \in Seq(Commitments) /\ Elements(outputs) = byC
      /\ byC \subseteq LeafValues /\ Steady \subseteq byC /\ c \in Commitments
  BY <1>1, ElementOfSeq DEF IInv, TypeOK, OutputsInv, Listed
<1>3. /\ DOMAIN tree' = DOMAIN NewTree
      /\ Leaves' \subseteq Start..(Start + Len(chain) - 1) /\ LeafValues' \subseteq Commitments
      /\ tree'.count \in 0..Len(chain) /\ tree'.index \in Start..(Start + Len(chain))
      /\ LeavesInv' /\ (~swapped => c \notin LeafValues)
      /\ LeafValues' = LeafValues \cup {c} /\ Steady' \subseteq Steady \cup {c}
  BY <1>1, TreeTakes
<1> HIDE DEF c
<1>4. /\ outputs' \in Seq(Commitments) /\ Distinct(outputs')
      /\ Elements(outputs') = Elements(outputs) \cup {c}
      /\ served' \in Seq(Commitments) /\ Len(served') = Len(served) /\ alias' \in {alias, FALSE}
      /\ Elements(served) \ moved \subseteq Elements(served')
  BY <1>1, <1>2, Lists
<1>5. ~swapped => c \notin Elements(outputs)
  BY <1>2, <1>3
<1>6. HoleInv' /\ HeaderInv' /\ ReaderInv' /\ Listed' = outputs'
  BY <1>1, <1>2, <1>5, ListingKeeps
<1>7. UNCHANGED <<chain, settled, reorgs, moved, swapped, reader, seen, due, crossed>>
  BY <1>1 DEF chainVars, readVars
<1>8. ChainInv'
  BY <1>7 DEF IInv, ChainInv, Distinct
<1>9. None \notin Elements(outputs')
  BY <1>2, <1>4, NoneDiffers DEF IInv, TypeOK
<1>10. OutputsInv'
  BY <1>1, <1>2, <1>3, <1>4, <1>6, <1>9 DEF OutputsInv
<1>11. TypeOK'
  <2>1. hole' \in 0..Len(outputs')
    BY <1>1, <1>4, LenProperties
  <2>2. alias' \in BOOLEAN /\ byC' \subseteq Commitments
    BY <1>1, <1>2, <1>4 DEF IInv, TypeOK
  <2> QED
    BY <1>1, <1>3, <1>4, <1>7, <2>1, <2>2 DEF IInv, TypeOK
<1> QED
  BY <1>3, <1>4, <1>6, <1>8, <1>10, <1>11 DEF IInv

\* A commitment that took an index from another.
LEMMA ListAcceptedKeeps ==
  ASSUME IInv, ListAccepted
  PROVE  IInv' /\ Elements(served) \ moved \subseteq Elements(served')
<1>1. /\ accepted # None /\ hole = 0 /\ Listing(accepted) /\ accepted' = None
      /\ UNCHANGED <<tree, byC, hole, stored, chainVars, readVars>>
  BY DEF ListAccepted
<1>2. /\ outputs \in Seq(Commitments) /\ byC = Elements(outputs) \cup {accepted}
      /\ accepted \in Commitments /\ (~swapped => accepted \notin Elements(outputs))
      /\ byC \subseteq LeafValues /\ Steady \subseteq byC
  BY <1>1 DEF IInv, TypeOK, OutputsInv, Listed
<1>3. ChainInv' /\ LeavesInv' /\ Leaves' = Leaves /\ LeafValues' = LeafValues /\ Steady' = Steady
  BY <1>1, TreeStays
<1>4. /\ outputs' \in Seq(Commitments) /\ Distinct(outputs')
      /\ Elements(outputs') = Elements(outputs) \cup {accepted}
      /\ served' \in Seq(Commitments) /\ Len(served') = Len(served) /\ alias' \in {alias, FALSE}
      /\ Elements(served) \ moved \subseteq Elements(served')
  BY <1>1, <1>2, Lists
<1>5. HoleInv' /\ HeaderInv' /\ ReaderInv' /\ Listed' = outputs'
  BY <1>1, <1>2, ListingKeeps
<1>6. UNCHANGED <<chain, settled, reorgs, moved, swapped, reader, seen, due, crossed>>
  BY <1>1 DEF chainVars, readVars
<1>7. None \notin Elements(outputs')
  BY <1>2, <1>4, NoneDiffers DEF IInv, TypeOK
<1>8. OutputsInv'
  BY <1>1, <1>2, <1>3, <1>4, <1>5, <1>7 DEF OutputsInv
<1>9. TypeOK'
  <2>1. hole' \in 0..Len(outputs')
    BY <1>1, <1>4, LenProperties
  <2>2. alias' \in BOOLEAN
    BY <1>4 DEF IInv, TypeOK
  <2> QED
    BY <1>1, <1>3, <1>4, <1>6, <2>1, <2>2 DEF IInv, TypeOK
<1> QED
  BY <1>3, <1>4, <1>5, <1>8, <1>9 DEF IInv

\* The tree and the map take the new commitment, and the old output's slot is found.
LEMMA ReplacementKeeps ==
  ASSUME IInv, NEW i \in 1..Len(chain), AcceptReplacement(i)
  PROVE  IInv'
<1> DEFINE c        == chain[i]
           existing == tree.leaf[NodeOf(i)]
<1>1. /\ accepted = None /\ hole = 0 /\ reader # "refresh" /\ NodeOf(i) \in Leaves
      /\ At(tree.leaf, NodeOf(i)) # c /\ tree' = Insert(tree, c, NodeOf(i))
      /\ byC' = (byC \ {existing}) \cup {c} /\ accepted' = c
      /\ hole' = IF existing \in byC \cap Elements(outputs) THEN SlotOf(outputs, existing) ELSE 0
      /\ crossed' = (reader # "none")
      /\ UNCHANGED <<outputs, headerVars, reader, seen, due, chainVars>>
  BY DEF AcceptReplacement, MayAccept, Leaves, IInv, OutputsInv
<1>2. /\ outputs \in Seq(Commitments) /\ Elements(outputs) = byC /\ Distinct(outputs)
      /\ byC \subseteq LeafValues /\ Steady \subseteq byC /\ c \in Commitments
      /\ DOMAIN outputs = 1..Len(outputs) /\ Len(outputs) \in Nat
  BY <1>1, ElementOfSeq, LenProperties DEF IInv, TypeOK, OutputsInv, Listed
<1>3. /\ DOMAIN tree' = DOMAIN NewTree
      /\ Leaves' \subseteq Start..(Start + Len(chain) - 1) /\ LeafValues' \subseteq Commitments
      /\ tree'.count \in 0..Len(chain) /\ tree'.index \in Start..(Start + Len(chain))
      /\ LeavesInv' /\ c \in LeafValues' /\ (~swapped => c \notin LeafValues)
      /\ existing \in moved /\ existing # c /\ LeafValues \ {existing} \subseteq LeafValues'
      /\ Steady' \subseteq (Steady \ {existing}) \cup {c}
  BY <1>1, TreeTakes
<1> HIDE DEF c, existing
<1>4. UNCHANGED <<chain, settled, reorgs, moved, swapped, outputs, served, alias, stored,
                  reader, seen, due>>
  BY <1>1 DEF chainVars, headerVars
<1>5. ChainInv'
  BY <1>4 DEF IInv, ChainInv, Distinct
<1>6. /\ hole' \in 0..Len(outputs) /\ (hole' # 0 => outputs[hole'] = existing)
      /\ Elements(Listed') = byC \ {existing} /\ Distinct(Listed')
      /\ Len(Listed') \in Nat /\ Len(outputs) <= Len(Listed') + 1
  <2>1. CASE existing \in byC
    <3>1. hole' = SlotOf(outputs, existing) /\ \E k \in DOMAIN outputs : outputs[k] = existing
      BY <1>1, <1>2, <2>1 DEF Elements
    <3>2. hole' \in 1..Len(outputs) /\ outputs[hole'] = existing
      BY <1>2, <3>1 DEF SlotOf
    <3>3. Listed' = Without(outputs, hole')
      BY <1>2, <1>4, <3>2 DEF Listed
    <3>4. /\ Len(Without(outputs, hole')) = Len(outputs) - 1
          /\ Distinct(Without(outputs, hole'))
          /\ Elements(Without(outputs, hole')) = Elements(outputs) \ {outputs[hole']}
      BY <1>2, <3>2, Gap
    <3> QED
      BY <1>2, <3>2, <3>3, <3>4
  <2>2. CASE existing \notin byC
    <3>1. hole' = 0 /\ Listed' = outputs
      BY <1>1, <1>4, <2>2 DEF Listed
    <3> QED
      BY <1>2, <2>2, <3>1
  <2> QED
    BY <2>1, <2>2
<1>7. accepted' # None
  BY <1>1, <1>2, NoneDiffers
<1>8. OutputsInv'
  <2>1. byC' = Elements(Listed') \cup {c}
    BY <1>1, <1>6
  <2>2. ~swapped => c \notin Elements(Listed')
    BY <1>2, <1>3, <1>6
  <2>3. byC' \subseteq LeafValues' /\ Steady' \subseteq byC'
    BY <1>1, <1>2, <1>3
  <2> QED
    BY <1>1, <1>4, <1>6, <1>7, <2>1, <2>2, <2>3 DEF OutputsInv
<1>9. HoleInv'
  BY <1>3, <1>4, <1>6 DEF HoleInv
<1>10. HeaderInv'
  <2>1. ASSUME ~swapped
        PROVE  IF alias THEN Len(served) <= Len(Listed') + 1 ELSE Distinct(served)
    <3>1. IF alias THEN Len(served) <= Len(outputs) ELSE Distinct(served)
      BY <1>1, <1>2, <2>1 DEF IInv, TypeOK, HeaderInv, Listed
    <3>2. Len(served) \in Nat
      BY LenProperties DEF IInv, TypeOK
    <3> QED
      BY <1>2, <1>6, <3>1, <3>2
  <2> QED
    BY <1>4, <1>7, <2>1 DEF IInv, HeaderInv, Distinct, Elements
<1>11. ReaderInv'
  BY <1>1, <1>4 DEF IInv, ReaderInv
<1>12. TypeOK'
  <2>1. byC' \subseteq Commitments /\ crossed' \in BOOLEAN /\ accepted' \in Commitments
    BY <1>1, <1>2 DEF IInv, TypeOK
  <2> QED
    BY <1>3, <1>4, <1>6, <2>1 DEF IInv, TypeOK
<1> QED
  BY <1>3, <1>5, <1>8, <1>9, <1>10, <1>11, <1>12 DEF IInv

\* The outputs behind the hole move down, and the hole moves up.
LEMMA ShiftKeeps ==
  ASSUME IInv, Shift
  PROVE  IInv' /\ Elements(served) \ moved \subseteq Elements(served')
<1>1. /\ hole \in 1..(Len(outputs) - 1) /\ outputs' = [outputs EXCEPT ![hole] = outputs[hole + 1]]
      /\ hole' = hole + 1 /\ served' = Shown(outputs')
      /\ UNCHANGED <<tree, byC, accepted, alias, stored, chainVars, readVars>>
  BY DEF Shift
<1>2. /\ outputs \in Seq(Commitments) /\ DOMAIN outputs = 1..Len(outputs) /\ Len(outputs) \in Nat
      /\ served \in Seq(Commitments) /\ DOMAIN served = 1..Len(served) /\ Len(served) \in Nat
      /\ alias \in BOOLEAN
  BY LenProperties DEF IInv, TypeOK
<1>3. /\ outputs' \in Seq(Commitments) /\ Len(outputs') = Len(outputs)
      /\ \A k \in 1..Len(outputs) : outputs'[k] = IF k = hole THEN outputs[hole + 1] ELSE outputs[k]
      /\ Without(outputs', hole + 1) = Without(outputs, hole)
  BY <1>1, <1>2, Shifted
<1>4. /\ served' \in Seq(Commitments) /\ Len(served') = Len(served)
      /\ \A k \in 1..Len(served) :
           served'[k] = IF alias /\ k <= Len(outputs) THEN outputs'[k] ELSE served[k]
  BY <1>1, <1>2, <1>3, ShownIs
<1>5. Listed' = Listed
  BY <1>1, <1>2, <1>3 DEF Listed
<1>6. UNCHANGED <<chain, settled, reorgs, moved, swapped, reader, seen, due, crossed>>
  BY <1>1 DEF chainVars, readVars
<1>7. /\ ChainInv' /\ LeavesInv' /\ Leaves' = Leaves /\ LeafValues' = LeafValues
      /\ Steady' = Steady
  BY <1>1, TreeStays
<1>8. accepted # None /\ DOMAIN served' = 1..Len(served) /\ DOMAIN outputs' = 1..Len(outputs)
  BY <1>1, <1>2, <1>3, <1>4, LenProperties DEF IInv, OutputsInv
<1>9. OutputsInv'
  BY <1>1, <1>5, <1>6, <1>7, <1>8 DEF IInv, OutputsInv
<1>10. HoleInv'
  <2>1. outputs'[hole] = outputs[hole + 1] /\ outputs'[hole + 1] = outputs[hole + 1]
        /\ hole + 1 > 1 /\ hole + 1 - 1 = hole
    BY <1>1, <1>2, <1>3
  <2> QED
    BY <1>1, <2>1 DEF HoleInv
<1>11. Elements(outputs) \ moved \subseteq Elements(outputs')
  <2>1. ASSUME NEW x \in Elements(outputs), x \notin moved PROVE x \in Elements(outputs')
    <3>1. PICK k \in 1..Len(outputs) : outputs[k] = x /\ k # hole
      <4>1. PICK k \in 1..Len(outputs) : outputs[k] = x
        BY <1>2, <2>1 DEF Elements
      <4>2. CASE k # hole
        BY <4>1, <4>2
      <4>3. CASE k = hole
        <5>1. hole > 1 /\ outputs[hole - 1] = x
          BY <1>1, <2>1, <4>1, <4>3 DEF IInv, HoleInv
        <5>2. hole - 1 \in 1..Len(outputs) /\ hole - 1 # hole
          BY <1>1, <1>2, <5>1
        <5> QED
          BY <5>1, <5>2
      <4> QED
        BY <4>2, <4>3
    <3> QED
      BY <1>3, <1>8, <3>1 DEF Elements
  <2> QED
    BY <2>1
<1>12. HeaderInv'
  <2>1. ASSUME alias, NEW k \in 1..Len(served)
        PROVE  IF k <= Len(outputs')
               THEN served'[k] = outputs'[k]
               ELSE served'[k] \in moved \cup Elements(outputs')
    <3>1. CASE k <= Len(outputs)
      BY <1>3, <1>4, <2>1, <3>1
    <3>2. CASE ~(k <= Len(outputs))
      <4>1. served'[k] = served[k] /\ served[k] \in moved \cup Elements(outputs)
        BY <1>2, <1>4, <2>1, <3>2 DEF IInv, HeaderInv
      <4> QED
        BY <1>3, <1>11, <3>2, <4>1
    <3> QED
      BY <3>1, <3>2
  <2>2. ~alias => Distinct(served') \/ swapped
    <3>1. ASSUME ~alias, ~swapped PROVE Distinct(served')
      BY <1>2, <1>4, <1>8, <3>1 DEF IInv, HeaderInv, Distinct
    <3> QED
      BY <3>1
  <2>3. ~swapped /\ alias => Len(served') <= Len(Listed') + 1
    BY <1>4, <1>5, <1>8 DEF IInv, HeaderInv
  <2> QED
    BY <1>1, <1>6, <1>8, <2>1, <2>2, <2>3 DEF HeaderInv
<1>13. ReaderInv'
  BY <1>6, <1>8 DEF IInv, ReaderInv
<1>14. TypeOK'
  <2>1. hole' \in 0..Len(outputs') /\ Len(seen') <= Len(served')
    BY <1>1, <1>2, <1>3, <1>4, <1>6 DEF IInv, TypeOK
  <2> QED
    BY <1>1, <1>3, <1>4, <1>6, <1>7, <2>1 DEF IInv, TypeOK
<1>15. ASSUME NEW x \in Elements(served), x \notin moved PROVE x \in Elements(served')
  <2>1. PICK k \in 1..Len(served) : served[k] = x
    BY <1>2, <1>15 DEF Elements
  <2>2. CASE alias /\ k = hole
    <3>1. served[hole] = outputs[hole]
      BY <1>1, <1>2, <2>1, <2>2 DEF IInv, HeaderInv
    <3>2. hole > 1 /\ outputs[hole - 1] = x
      BY <1>1, <1>15, <2>1, <2>2, <3>1 DEF IInv, HoleInv
    <3>3. hole - 1 \in 1..Len(served) /\ hole - 1 <= Len(outputs) /\ hole - 1 \in 1..Len(outputs)
          /\ hole - 1 # hole
      BY <1>1, <1>2, <2>1, <2>2, <3>2
    <3>4. served'[hole - 1] = x
      BY <1>3, <1>4, <2>2, <3>2, <3>3
    <3> QED
      BY <1>8, <3>3, <3>4 DEF Elements
  <2>3. CASE ~(alias /\ k = hole)
    <3>1. served'[k] = served[k]
      BY <1>2, <1>3, <1>4, <2>3 DEF IInv, HeaderInv
    <3> QED
      BY <1>8, <2>1, <3>1 DEF Elements
  <2> QED
    BY <2>2, <2>3
<1> QED
  BY <1>7, <1>9, <1>10, <1>12, <1>13, <1>14, <1>15 DEF IInv

\* The service's slice gets shorter; the header still shows the slot it left.
LEMMA ShrinkKeeps ==
  ASSUME IInv, Shrink
  PROVE  IInv'
<1>1. /\ hole = Len(outputs) /\ hole # 0 /\ outputs' = SubSeq(outputs, 1, Len(outputs) - 1)
      /\ hole' = 0
      /\ UNCHANGED <<tree, byC, accepted, headerVars, chainVars, readVars>>
  BY DEF Shrink
<1>2. /\ outputs \in Seq(Commitments) /\ DOMAIN outputs = 1..Len(outputs) /\ Len(outputs) \in Nat
      /\ served \in Seq(Commitments) /\ DOMAIN served = 1..Len(served) /\ Len(served) \in Nat
      /\ hole \in 1..Len(outputs)
  BY <1>1, LenProperties DEF IInv, TypeOK
<1>3. outputs' = Without(outputs, hole)
  BY <1>1, <1>2, Shrunk
<1>4. /\ outputs' \in Seq(Commitments) /\ Len(outputs') = Len(outputs) - 1
      /\ DOMAIN outputs' = 1..(Len(outputs) - 1)
      /\ \A k \in 1..(Len(outputs) - 1) : outputs'[k] = outputs[k]
  BY <1>1, <1>2, <1>3, Gap
<1>5. Listed' = Listed
  BY <1>1, <1>3 DEF Listed
<1>6. UNCHANGED <<chain, settled, reorgs, moved, swapped, served, alias, stored,
                  reader, seen, due, crossed>>
  BY <1>1 DEF chainVars, readVars, headerVars
<1>7. /\ ChainInv' /\ LeavesInv' /\ Leaves' = Leaves /\ LeafValues' = LeafValues
      /\ Steady' = Steady
  BY <1>1, TreeStays
<1>8. accepted # None
  BY <1>1 DEF IInv, OutputsInv
<1>9. OutputsInv' /\ HoleInv'
  BY <1>1, <1>5, <1>6, <1>7, <1>8 DEF IInv, OutputsInv, HoleInv
<1>10. outputs[hole] \in moved \cup Elements(outputs')
  <2>1. CASE outputs[hole] \in moved
    BY <2>1
  <2>2. CASE hole > 1 /\ outputs[hole - 1] = outputs[hole]
    <3>1. hole - 1 \in 1..(Len(outputs) - 1)
      BY <1>1, <1>2, <2>2
    <3> QED
      BY <1>4, <2>2, <3>1 DEF Elements
  <2> QED
    BY <1>1, <2>1, <2>2 DEF IInv, HoleInv
<1>11. Elements(outputs) \ moved \subseteq Elements(outputs')
  <2>1. ASSUME NEW k \in 1..Len(outputs) PROVE outputs[k] \in moved \cup Elements(outputs')
    <3>1. CASE k = hole
      BY <1>10, <3>1
    <3>2. CASE k # hole
      <4>1. k \in 1..(Len(outputs) - 1)
        BY <1>1, <1>2, <3>2
      <4> QED
        BY <1>4, <4>1 DEF Elements
    <3> QED
      BY <3>1, <3>2
  <2> QED
    BY <1>2, <2>1 DEF Elements
<1>12. HeaderInv'
  <2>1. ASSUME alias, NEW k \in 1..Len(served)
        PROVE  IF k <= Len(outputs')
               THEN served[k] = outputs'[k]
               ELSE served[k] \in moved \cup Elements(outputs')
    <3>1. CASE k <= Len(outputs) - 1
      BY <1>2, <1>4, <2>1, <3>1 DEF IInv, HeaderInv
    <3>2. CASE k = Len(outputs)
      <4>1. served[k] = outputs[hole]
        BY <1>1, <1>2, <2>1, <3>2 DEF IInv, HeaderInv
      <4> QED
        BY <1>2, <1>4, <1>10, <3>2, <4>1
    <3>3. CASE k > Len(outputs)
      <4>1. served[k] \in moved \cup Elements(outputs)
        BY <1>2, <2>1, <3>3 DEF IInv, HeaderInv
      <4> QED
        BY <1>2, <1>4, <1>11, <3>3, <4>1
    <3> QED
      BY <1>2, <3>1, <3>2, <3>3
  <2> QED
    BY <1>1, <1>2, <1>5, <1>6, <2>1 DEF IInv, HeaderInv, Distinct
<1>13. ReaderInv'
  BY <1>1, <1>6, <1>8 DEF IInv, ReaderInv
<1>14. TypeOK'
  <2>1. hole' \in 0..Len(outputs')
    BY <1>1, <1>2, <1>4
  <2> QED
    BY <1>1, <1>4, <1>6, <1>7, <2>1 DEF IInv, TypeOK
<1> QED
  BY <1>7, <1>9, <1>12, <1>13, <1>14 DEF IInv

-----------------------------------------------------------------------------
(* Snapshots, the instance and its readers *)

\* A new service starts from the server's snapshot; the list that the instance
\* still serves is nobody's any more.
LEMMA SnapshotKeeps ==
  ASSUME IInv, NEW n \in 0..settled, NEW withReverse \in BOOLEAN, LoadSnapshot(n, withReverse)
  PROVE  IInv'
<1>1. /\ accepted = None /\ hole = 0 /\ alias' = FALSE /\ stored' = FALSE
      /\ outputs' = [k \in 1..n |-> chain[k]] /\ byC' = Elements(outputs')
      /\ tree' \in {TreeOfChain(n),
                    [TreeOfChain(n) EXCEPT !.reverse = BuildReverse(TreeOfChain(n))]}
      /\ UNCHANGED <<accepted, hole, served, chainVars, readVars>>
  BY DEF LoadSnapshot, IInv, OutputsInv
<1>2. UNCHANGED <<chain, settled, reorgs, moved, swapped, reader, seen, due, crossed>>
  BY <1>1 DEF chainVars, readVars
<1>3. /\ chain \in Seq(Commitments) /\ settled \in 0..Len(chain) /\ Len(chain) \in Nat
      /\ DOMAIN chain = 1..Len(chain) /\ n \in Nat /\ n <= Len(chain)
  BY LenProperties DEF IInv, TypeOK
<1>4. \A k \in 1..n : k \in 1..Len(chain) /\ chain[k] \in Commitments
  BY <1>3, ElementOfSeq
<1>5. ChainInv'
  BY <1>2 DEF IInv, ChainInv, Distinct
<1>6. /\ DOMAIN tree' = DOMAIN NewTree
      /\ tree'.leaf = [m \in Start..(Start + n - 1) |-> chain[m - Start + 1]]
      /\ tree'.count = n /\ tree'.index = Start + n
  <2>1. CASE tree' = TreeOfChain(n)
    BY <2>1, Snapshot
  <2>2. CASE tree' = [TreeOfChain(n) EXCEPT !.reverse = BuildReverse(TreeOfChain(n))]
    BY <2>2, Snapshot
  <2> QED
    BY <1>1, <2>1, <2>2
<1>7. /\ Leaves' = Start..(Start + n - 1)
      /\ \A m \in Leaves' : m - Start + 1 \in 1..n /\ tree'.leaf[m] = chain[m - Start + 1]
  <2>1. Leaves' = Start..(Start + n - 1)
    BY <1>6 DEF Leaves
  <2>2. ASSUME NEW m \in Leaves' PROVE m - Start + 1 \in 1..n /\ tree'.leaf[m] = chain[m - Start + 1]
    BY <1>3, <1>6, <2>1, Numbers
  <2> QED
    BY <2>1, <2>2
<1>8. DOMAIN outputs' = 1..n /\ \A k \in 1..n : outputs'[k] = chain[k]
  BY <1>1
<1>9. Elements(outputs') = LeafValues'
  <2>1. ASSUME NEW k \in 1..n PROVE outputs'[k] \in LeafValues'
    <3>1. PICK m \in Leaves' : m - Start + 1 = k
      <4>1. Start + k - 1 \in Leaves' /\ (Start + k - 1) - Start + 1 = k
        BY <1>3, <1>7, Numbers
      <4> QED
        BY <4>1
    <3>2. tree'.leaf[m] = outputs'[k]
      BY <1>7, <1>8, <3>1
    <3> QED
      BY <3>2 DEF LeafValues
  <2>2. ASSUME NEW m \in Leaves' PROVE tree'.leaf[m] \in Elements(outputs')
    <3>1. m - Start + 1 \in DOMAIN outputs' /\ outputs'[m - Start + 1] = tree'.leaf[m]
      BY <1>7, <1>8
    <3> QED
      BY <3>1 DEF Elements
  <2> QED
    BY <1>8, <2>1, <2>2 DEF Elements, LeafValues
<1>10. /\ outputs' \in Seq(Commitments) /\ Distinct(outputs') /\ LeafValues' \subseteq Commitments
       /\ Listed' = outputs'
  <2>1. outputs' \in [1..n -> Commitments]
    BY <1>1, <1>4
  <2>2. outputs' \in Seq(Commitments)
    BY <1>3, <2>1
  <2>3. Distinct(outputs')
    BY <1>3, <1>4, <1>8 DEF Distinct, IInv, ChainInv
  <2>4. Elements(outputs') \subseteq Commitments
    BY <1>4, <1>8 DEF Elements
  <2> QED
    BY <1>1, <1>9, <2>2, <2>3, <2>4 DEF Listed
<1>11. LeavesInv'
  <2>1. Cardinality(Leaves') = n
    <3>1. Start \in Int /\ Start + n - 1 \in Int
      BY <1>3, Numbers
    <3>2. IF Start > Start + n - 1 THEN n = 0 ELSE (Start + n - 1) - Start + 1 = n
      BY <1>3, Numbers
    <3> QED
      BY <1>7, <3>1, <3>2, FS_Interval
  <2>2. \A m \in Leaves' : m < tree'.index
    BY <1>3, <1>6, <1>7, Numbers
  <2>3. tree'.index # Start => tree'.index - 1 \in Leaves'
    BY <1>3, <1>6, <1>7, Numbers
  <2>4. ASSUME NEW m \in Leaves'
        PROVE  /\ tree'.leaf[m] = chain'[m - Start + 1]
               /\ ~swapped' => Home(tree'.leaf[m]) = m - Start + 1
    <3>1. m - Start + 1 \in DOMAIN chain /\ tree'.leaf[m] = chain[m - Start + 1]
      BY <1>3, <1>4, <1>7
    <3> QED
      BY <1>2, <3>1 DEF IInv, ChainInv
  <2>5. tree'.count = Cardinality(Leaves')
    BY <1>6, <2>1
  <2> QED
    BY <2>2, <2>3, <2>4, <2>5 DEF LeavesInv
<1>12. OutputsInv'
  <2>1. accepted' = None /\ hole' = 0 /\ accepted' \notin Elements(outputs')
    BY <1>1, <1>9, <1>10, NoneDiffers
  <2>2. Steady' \subseteq LeafValues'
    BY DEF Steady
  <2> QED
    BY <1>1, <1>9, <1>10, <2>1, <2>2 DEF OutputsInv
<1>13. HoleInv'
  BY <1>1 DEF HoleInv
<1>14. /\ served \in Seq(Commitments) /\ DOMAIN served = 1..Len(served) /\ Len(served) \in Nat
       /\ DOMAIN outputs = 1..Len(outputs) /\ Len(outputs) \in Nat
       /\ Listed = outputs /\ Distinct(outputs)
  BY <1>1, LenProperties DEF IInv, TypeOK, Listed, OutputsInv
<1>15. HeaderInv'
  <2>1. ASSUME ~swapped PROVE Distinct(served)
    <3>1. CASE ~alias
      BY <2>1, <3>1 DEF IInv, HeaderInv
    <3>2. CASE alias
      <4>1. Len(served) <= Len(outputs)
        BY <1>1, <1>14, <2>1, <3>2 DEF IInv, HeaderInv
      <4>2. \A k \in 1..Len(served) : k \in 1..Len(outputs) /\ served[k] = outputs[k]
        BY <1>14, <3>2, <4>1 DEF IInv, HeaderInv
      <4> QED
        BY <1>14, <4>2 DEF Distinct
    <3> QED
      BY <3>1, <3>2
  <2> QED
    BY <1>1, <1>2, <2>1 DEF HeaderInv, Distinct
<1>16. ReaderInv'
  <2>1. ASSUME reader # "none", ~crossed
        PROVE  /\ \A c \in due \ moved : \E k \in DOMAIN served :
                     served[k] = c /\ (k <= Len(seen) => seen[k] = c)
               /\ ~swapped => \A k \in DOMAIN seen : seen[k] = served[k]
    BY <2>1 DEF IInv, ReaderInv
  <2> QED
    BY <1>1, <1>2, <2>1 DEF IInv, ReaderInv
<1>17. TypeOK'
  <2>1. /\ Leaves' \subseteq Start..(Start + Len(chain) - 1)
        /\ tree'.count \in 0..Len(chain) /\ tree'.index \in Start..(Start + Len(chain))
    BY <1>3, <1>6, <1>7, Numbers
  <2>2. hole' \in 0..Len(outputs') /\ byC' \subseteq Commitments
    BY <1>1, <1>9, <1>10, LenProperties
  <2> QED
    BY <1>1, <1>2, <1>6, <1>10, <2>1, <2>2 DEF IInv, TypeOK
<1> QED
  BY <1>5, <1>11, <1>12, <1>13, <1>15, <1>16, <1>17 DEF IInv

\* From now on the instance and the service share the array.
LEMMA StoreKeeps ==
  ASSUME IInv, StoreChainState
  PROVE  IInv'
<1>1. /\ reader = "none" /\ stored' = TRUE /\ served' = outputs /\ alias' = TRUE
      /\ UNCHANGED <<serviceVars, chainVars, readVars>>
  BY DEF StoreChainState
<1>2. UNCHANGED <<chain, settled, reorgs, moved, swapped, tree, outputs, byC, accepted, hole,
                  reader, seen, due, crossed>>
  BY <1>1 DEF chainVars, serviceVars, readVars
<1>3. ChainInv' /\ LeavesInv' /\ OutputsInv' /\ HoleInv' /\ Listed' = Listed
  BY <1>1, ServiceStays
<1>4. /\ outputs \in Seq(Commitments) /\ DOMAIN outputs = 1..Len(outputs) /\ Len(outputs) \in Nat
      /\ hole \in 0..Len(outputs) /\ seen = <<>>
  BY <1>1, LenProperties DEF IInv, TypeOK, ReaderInv
<1>5. Len(outputs) <= Len(Listed) + (IF accepted = None THEN 0 ELSE 1)
  <2>1. CASE hole = 0
    <3>1. Listed = outputs
      BY <2>1 DEF Listed
    <3> QED
      BY <1>4, <3>1
  <2>2. CASE hole # 0
    <3>1. Len(Listed) = Len(outputs) - 1
      <4>1. hole \in 1..Len(outputs)
        BY <1>4, <2>2
      <4> QED
        BY <1>4, <2>2, <4>1, Gap DEF Listed
    <3>2. accepted # None
      BY <2>2 DEF IInv, OutputsInv
    <3> QED
      BY <1>4, <3>1, <3>2
  <2> QED
    BY <2>1, <2>2
<1>6. HeaderInv'
  BY <1>1, <1>2, <1>3, <1>4, <1>5 DEF HeaderInv
<1>7. ReaderInv'
  BY <1>1, <1>2, <1>4 DEF IInv, ReaderInv
<1>8. Leaves' = Leaves /\ LeafValues' = LeafValues
  BY <1>2 DEF Leaves, LeafValues
<1>9. Len(seen') <= Len(served')
  BY <1>1, <1>2, <1>4
<1>10. TypeOK'
  BY <1>1, <1>2, <1>4, <1>8, <1>9 DEF IInv, TypeOK
<1> QED
  BY <1>3, <1>6, <1>7, <1>10 DEF IInv

\* A reader touches nothing but what it has read.
LEMMA ReadKeeps ==
  ASSUME IInv, (\E how \in {"refresh", "selection"} : BeginRead(how)) \/ ReadOutput \/ EndRead
  PROVE  IInv'
<1>1. UNCHANGED <<serviceVars, headerVars, chainVars>>
  BY DEF BeginRead, ReadOutput, EndRead
<1>2. UNCHANGED <<chain, settled, reorgs, moved, swapped, tree, outputs, byC, accepted, hole,
                  served, alias, stored>>
  BY <1>1 DEF chainVars, serviceVars, headerVars
<1>3. ChainInv' /\ LeavesInv' /\ OutputsInv' /\ HoleInv' /\ Listed' = Listed
  BY <1>1, ServiceStays
<1>4. Leaves' = Leaves /\ LeafValues' = LeafValues
  BY <1>2 DEF Leaves, LeafValues
<1>5. HeaderInv'
  BY <1>2, <1>3 DEF IInv, HeaderInv, Distinct, Elements
<1>6. /\ served \in Seq(Commitments) /\ DOMAIN served = 1..Len(served) /\ Len(served) \in Nat
      /\ outputs \in Seq(Commitments) /\ DOMAIN outputs = 1..Len(outputs) /\ Len(outputs) \in Nat
      /\ \A k \in 1..Len(served) : served[k] \in Commitments
      /\ seen \in Seq(Commitments) /\ DOMAIN seen = 1..Len(seen) /\ Len(seen) \in Nat
      /\ Len(seen) <= Len(served)
  BY LenProperties, ElementOfSeq DEF IInv, TypeOK
<1>7. ASSUME NEW how \in {"refresh", "selection"}, BeginRead(how) PROVE TypeOK' /\ ReaderInv'
  <2>1. /\ reader' = how /\ seen' = <<>> /\ due' = Elements(served)
        /\ crossed' = (accepted # None) /\ (how = "refresh" => accepted = None)
    BY <1>7 DEF BeginRead
  <2>2. due' \subseteq Commitments /\ Len(seen') = 0 /\ seen' \in Seq(Commitments)
    BY <1>6, <2>1 DEF Elements
  <2>3. TypeOK'
    BY <1>2, <1>4, <1>6, <2>1, <2>2 DEF IInv, TypeOK
  <2>4. ASSUME NEW c \in Elements(served), c \notin moved
        PROVE  \E k \in DOMAIN served : served[k] = c /\ (alias => k <= Len(outputs))
    <3>1. PICK k \in 1..Len(served) : served[k] = c
      BY <1>6, <2>4 DEF Elements
    <3>2. CASE alias => k <= Len(outputs)
      BY <1>6, <3>1, <3>2
    <3>3. CASE alias /\ ~(k <= Len(outputs))
      <4>1. PICK j \in 1..Len(outputs) : outputs[j] = c
        BY <1>6, <2>4, <3>1, <3>3 DEF IInv, HeaderInv, Elements
      <4>2. j \in 1..Len(served) /\ served[j] = c
        BY <1>6, <3>1, <3>3, <4>1 DEF IInv, HeaderInv
      <4> QED
        BY <1>6, <4>1, <4>2
    <3> QED
      BY <3>2, <3>3
  <2>5. \A c \in due' \ moved' :
          \E k \in DOMAIN served' : /\ served'[k] = c
                                    /\ k <= Len(seen') => seen'[k] = c
                                    /\ alias' => k <= Len(outputs')
    <3>1. ASSUME NEW c \in Elements(served), c \notin moved
          PROVE  \E k \in DOMAIN served : /\ served[k] = c
                                          /\ k <= Len(seen') => seen'[k] = c
                                          /\ alias => k <= Len(outputs)
      <4>1. PICK k \in 1..Len(served) : served[k] = c /\ (alias => k <= Len(outputs))
        BY <1>6, <2>4, <3>1
      <4>2. ~(k <= Len(seen'))
        BY <2>2
      <4> QED
        BY <1>6, <4>1, <4>2
    <3> QED
      BY <1>2, <2>1, <3>1
  <2>6. ~crossed' => accepted' = None
    BY <1>2, <2>1
  <2>7. \A k \in DOMAIN seen' : seen'[k] = served'[k]
    BY <2>1
  <2>8. reader' # "none" /\ (reader' = "refresh" => ~crossed')
    BY <2>1
  <2>9. ReaderInv'
    BY <2>5, <2>6, <2>7, <2>8 DEF ReaderInv
  <2> QED
    BY <2>3, <2>9
<1>8. ASSUME ReadOutput PROVE TypeOK' /\ ReaderInv'
  <2> DEFINE c == served[Len(seen) + 1]
  <2>1. /\ reader # "none" /\ Len(seen) < Len(served) /\ seen' = Append(seen, c)
        /\ UNCHANGED <<reader, due, crossed>>
    BY <1>8 DEF ReadOutput
  <2>2. Len(seen) + 1 \in 1..Len(served) /\ c \in Commitments
    BY <1>6, <2>1
  <2> HIDE DEF c
  <2>3. /\ seen' \in Seq(Commitments) /\ Len(seen') = Len(seen) + 1
        /\ DOMAIN seen' = 1..(Len(seen) + 1)
        /\ \A k \in 1..Len(seen) : seen'[k] = seen[k]
        /\ seen'[Len(seen) + 1] = c
    BY <1>6, <2>1, <2>2, AppendProperties, LenProperties
  <2>4. TypeOK'
    BY <1>2, <1>4, <1>6, <2>1, <2>3 DEF IInv, TypeOK
  <2>5. ASSUME ~crossed
        PROVE  /\ accepted = None
               /\ \A d \in due \ moved :
                    \E k \in DOMAIN served : /\ served[k] = d
                                             /\ k <= Len(seen') => seen'[k] = d
                                             /\ alias => k <= Len(outputs)
               /\ ~swapped => \A k \in DOMAIN seen' : seen'[k] = served[k]
    <3>1. /\ accepted = None
          /\ \A d \in due \ moved :
               \E k \in DOMAIN served : /\ served[k] = d
                                        /\ k <= Len(seen) => seen[k] = d
                                        /\ alias => k <= Len(outputs)
          /\ ~swapped => \A k \in DOMAIN seen : seen[k] = served[k]
      BY <2>1, <2>5 DEF IInv, ReaderInv
    <3>2. ASSUME NEW d \in due \ moved
          PROVE  \E k \in DOMAIN served : /\ served[k] = d
                                          /\ k <= Len(seen') => seen'[k] = d
                                          /\ alias => k <= Len(outputs)
      <4>1. PICK k \in 1..Len(served) : /\ served[k] = d
                                        /\ k <= Len(seen) => seen[k] = d
                                        /\ alias => k <= Len(outputs)
        BY <1>6, <3>1
      <4>2. k <= Len(seen') => seen'[k] = d
        BY <1>6, <2>3, <4>1 DEF c
      <4> QED
        BY <1>6, <4>1, <4>2
    <3>3. ~swapped => \A k \in DOMAIN seen' : seen'[k] = served[k]
      BY <1>6, <2>3, <3>1 DEF c
    <3> QED
      BY <3>1, <3>2, <3>3
  <2>6. ReaderInv'
    BY <1>2, <2>1, <2>5 DEF IInv, ReaderInv
  <2> QED
    BY <2>4, <2>6
<1>9. ASSUME EndRead PROVE TypeOK' /\ ReaderInv'
  <2>1. reader' = "none" /\ seen' = <<>> /\ due' = {} /\ crossed' = FALSE
    BY <1>9 DEF EndRead
  <2>2. seen' \in Seq(Commitments) /\ Len(seen') <= Len(served)
    BY <1>6, <2>1
  <2>3. TypeOK'
    BY <1>2, <1>4, <2>1, <2>2 DEF IInv, TypeOK
  <2> QED
    BY <2>1, <2>3 DEF ReaderInv
<1>10. TypeOK' /\ ReaderInv'
  BY <1>7, <1>8, <1>9
<1> QED
  BY <1>3, <1>5, <1>10 DEF IInv

-----------------------------------------------------------------------------
(* The invariant *)

\* Nothing is there yet.
LEMMA Starts ==
  ASSUME Init
  PROVE  IInv
<1>1. /\ chain = <<>> /\ settled = 0 /\ reorgs = 0 /\ moved = {} /\ swapped = FALSE
      /\ tree = NewTree /\ outputs = <<>> /\ byC = {} /\ accepted = None /\ hole = 0
      /\ served = <<>> /\ alias = FALSE /\ stored = FALSE
      /\ reader = "none" /\ seen = <<>> /\ due = {} /\ crossed = FALSE
  BY DEF Init
<1>2. tree.leaf = <<>> /\ tree.count = 0 /\ tree.index = Start
  BY <1>1 DEF NewTree
<1>3. Leaves = {} /\ LeafValues = {} /\ Steady = {} /\ Listed = outputs
  BY <1>1, <1>2 DEF Leaves, LeafValues, Steady, Listed
<1>4. TypeOK
  <2>1. /\ chain \in Seq(Commitments) /\ Len(chain) = 0 /\ seen \in Seq(Commitments)
        /\ outputs \in Seq(Commitments) /\ served \in Seq(Commitments)
        /\ Len(outputs) = 0 /\ Len(seen) <= Len(served)
    BY <1>1, EmptySeq
  <2>2. /\ Len(chain) <= MaxLeaves /\ settled \in 0..Len(chain) /\ tree.count \in 0..Len(chain)
        /\ tree.index \in Start..(Start + Len(chain)) /\ reorgs \in 0..MaxReorgs
    BY <1>1, <1>2, <2>1, Numbers, CommitmentStoreAssumption
  <2> QED
    BY <1>1, <1>3, <2>1, <2>2 DEF TypeOK
<1>5. ChainInv /\ LeavesInv
  BY <1>1, <1>2, <1>3, FS_EmptySet DEF ChainInv, LeavesInv, Distinct
<1>6. OutputsInv /\ HoleInv
  BY <1>1, <1>3 DEF OutputsInv, HoleInv, Distinct, Elements
<1>7. HeaderInv /\ ReaderInv
  BY <1>1 DEF HeaderInv, ReaderInv, Distinct
<1> QED
  BY <1>4, <1>5, <1>6, <1>7 DEF IInv

\* Every step keeps the invariant, and none of the service takes an output out of the served
\* list but one that was moved.
LEMMA Keeps ==
  ASSUME IInv, [Next]_vars
  PROVE  /\ IInv'
         /\ ~StoreChainState => Elements(served) \ moved \subseteq Elements(served')
<1>1. CASE UNCHANGED vars
  <2>1. UNCHANGED <<chainVars, serviceVars, tree, served, alias, stored, reader, seen, due, crossed,
                    chain, settled, reorgs, moved, swapped, outputs, byC, accepted, hole>>
    BY <1>1 DEF vars, chainVars, serviceVars, headerVars, readVars
  <2>2. ChainInv' /\ LeavesInv' /\ OutputsInv' /\ HoleInv' /\ Listed' = Listed
    BY <2>1, ServiceStays
  <2>3. Leaves' = Leaves /\ LeafValues' = LeafValues
    BY <2>1 DEF Leaves, LeafValues
  <2>4. HeaderInv' /\ ReaderInv'
    BY <2>1, <2>2 DEF IInv, HeaderInv, ReaderInv, Distinct, Elements
  <2>5. TypeOK'
    BY <2>1, <2>3 DEF IInv, TypeOK
  <2> QED
    BY <2>1, <2>2, <2>4, <2>5 DEF IInv, Elements
<1>2. CASE Deposit \/ Settle \/ \E i \in 1..Len(chain), c \in Commitments : Reorg(i, c)
  <2>1. served' = served
    BY <1>2 DEF Deposit, Settle, Reorg, headerVars
  <2> QED
    BY <1>2, <2>1, DepositSettleKeep, ReorgKeeps DEF Elements
<1>3. ASSUME NEW i \in 1..Len(chain), AcceptNew(i) \/ AcceptReplacement(i)
      PROVE  IInv' /\ Elements(served) \ moved \subseteq Elements(served')
  <2>1. AcceptReplacement(i) => served' = served
    BY DEF AcceptReplacement, headerVars
  <2> QED
    BY <1>3, <2>1, NewKeeps, ReplacementKeeps DEF Elements
<1>4. CASE Shift \/ Shrink \/ ListAccepted
  <2>1. Shrink => served' = served
    BY DEF Shrink, headerVars
  <2> QED
    BY <1>4, <2>1, ShiftKeeps, ShrinkKeeps, ListAcceptedKeeps DEF Elements
<1>5. ASSUME NEW n \in 0..settled, NEW withReverse \in BOOLEAN, LoadSnapshot(n, withReverse)
      PROVE  IInv' /\ Elements(served) \ moved \subseteq Elements(served')
  <2>1. served' = served
    BY <1>5 DEF LoadSnapshot
  <2> QED
    BY <1>5, <2>1, SnapshotKeeps DEF Elements
<1>6. CASE (\E how \in {"refresh", "selection"} : BeginRead(how)) \/ ReadOutput \/ EndRead
  <2>1. served' = served
    BY <1>6 DEF BeginRead, ReadOutput, EndRead, headerVars
  <2> QED
    BY <1>6, <2>1, ReadKeeps DEF Elements
<1>7. CASE StoreChainState
  BY <1>7, StoreKeeps
<1> QED
  BY <1>1, <1>2, <1>3, <1>4, <1>5, <1>6, <1>7 DEF Next

\* In whatever order events arrive and are repeated, leaves are replaced and exchanged, services
\* reloaded and readers overtaken: the list, the map and the tree agree, and what a header shows
\* of an array that the service writes is what the reader's invariant needs.
THEOREM Inductive == Spec => []IInv
<1>1. Init => IInv
  BY Starts
<1>2. IInv /\ [Next]_vars => IInv'
  BY Keeps
<1> QED
  BY <1>1, <1>2, PTL DEF Spec

\* Every variable keeps its shape, and what the tree counts stays within the leaves of the chain.
THEOREM TypeCorrect == Spec => []TypeOK
<1>1. IInv => TypeOK
  BY DEF IInv
<1> QED
  BY <1>1, Inductive, PTL

\* After each event AcceptEvent has kept one output for each leaf and no other, in the list and
\* in the map, but for commitments that a reorganisation exchanged.
THEOREM OutputsMatch == Spec => []OutputsMatchLeaves
<1>1. ASSUME IInv PROVE OutputsMatchLeaves
  <2>1. ASSUME accepted = None PROVE hole = 0 /\ Listed = outputs
    BY <1>1, <2>1 DEF IInv, OutputsInv, Listed
  <2> QED
    BY <1>1, <2>1 DEF IInv, OutputsInv, OutputsMatchLeaves
<1> QED
  BY <1>1, Inductive, PTL

\* No step of the service takes an output out of the list the instance serves, not even while it
\* moves the slots of the array they share, but one that a reorganisation took from its index.
THEOREM LosesOnlyMoved == Spec => ServedLosesOnlyMoved
<1>1. IInv /\ [Next]_vars =>
        [~StoreChainState => Elements(served) \ moved \subseteq Elements(served')]_vars
  BY Keeps
<1> QED
  BY <1>1, Inductive, PTL DEF Spec, ServedLosesOnlyMoved

\* A balance refresh reads every output that the list showed when it began and that was not
\* moved, and none twice unless two commitments were exchanged; so does an input selection that
\* no removal has crossed.
THEOREM ReadsWhole == Spec => []ReadIsWhole
<1>1. ASSUME IInv, reader = "refresh" \/ (reader = "selection" /\ ~crossed), Len(seen) = Len(served)
      PROVE  due \ moved \subseteq Elements(seen) /\ (~swapped => Distinct(seen))
  <2>1. /\ accepted = None
        /\ \A c \in due \ moved :
             \E k \in DOMAIN served : served[k] = c /\ (k <= Len(seen) => seen[k] = c)
        /\ ~swapped => \A k \in DOMAIN seen : seen[k] = served[k]
    BY <1>1 DEF IInv, ReaderInv
  <2>2. /\ DOMAIN served = 1..Len(served) /\ DOMAIN seen = 1..Len(served) /\ Len(served) \in Nat
        /\ DOMAIN outputs = 1..Len(outputs) /\ Len(outputs) \in Nat
        /\ Listed = outputs /\ Distinct(outputs)
    BY <1>1, <2>1, LenProperties DEF IInv, TypeOK, OutputsInv, Listed
  <2>3. ASSUME NEW c \in due \ moved PROVE c \in Elements(seen)
    <3>1. PICK k \in 1..Len(served) : served[k] = c /\ (k <= Len(seen) => seen[k] = c)
      BY <2>1, <2>2
    <3> QED
      BY <1>1, <2>2, <3>1 DEF Elements
  <2>4. ASSUME ~swapped PROVE Distinct(seen)
    <3>1. CASE ~alias
      BY <1>1, <2>1, <2>2, <2>4, <3>1 DEF IInv, HeaderInv, Distinct
    <3>2. CASE alias
      <4>1. Len(served) <= Len(outputs)
        BY <1>1, <2>1, <2>2, <2>4, <3>2 DEF IInv, HeaderInv
      <4>2. \A k \in 1..Len(served) : k \in 1..Len(outputs) /\ seen[k] = outputs[k]
        BY <1>1, <2>1, <2>2, <2>4, <3>2, <4>1 DEF IInv, HeaderInv
      <4> QED
        BY <2>2, <4>2 DEF Distinct
    <3> QED
      BY <3>1, <3>2
  <2> QED
    BY <2>3, <2>4
<1>2. IInv => ReadIsWhole
  BY <1>1 DEF ReadIsWhole
<1> QED
  BY <1>2, Inductive, PTL

\* GetRootHash and the sibling paths are refused exactly as long as a leaf below
\* the last is missing: count and index alone tell.
THEOREM RefusedWhileIncomplete ==
  Spec => [](/\ IsComplete(tree) <=> Leaves = Start..(tree.index - 1)
             /\ ~IsComplete(tree) => RootHash(tree) = Incomplete)
<1>1. ASSUME IInv
      PROVE  /\ IsComplete(tree) <=> Leaves = Start..(tree.index - 1)
             /\ ~IsComplete(tree) => RootHash(tree) = Incomplete
  <2>1. /\ chain \in Seq(Commitments) /\ Leaves \subseteq Start..(Start + Len(chain) - 1)
        /\ tree.count = Cardinality(Leaves) /\ tree.index \in Start..(Start + Len(chain))
        /\ \A n \in Leaves : n < tree.index
    BY <1>1 DEF IInv, TypeOK, LeavesInv
  <2>2. Len(chain) \in Nat /\ tree.index \in Int /\ tree.index >= Start
    BY <2>1, LenProperties, Numbers
  <2>3. Leaves \subseteq Start..(tree.index - 1)
    BY <2>1, <2>2, Numbers
  <2>4. /\ IsFiniteSet(Start..(tree.index - 1))
        /\ Cardinality(Start..(tree.index - 1)) = tree.index - Start
    <3>1. Start \in Int /\ tree.index - 1 \in Int
      BY <2>2, Numbers
    <3>2. IF Start > tree.index - 1 THEN tree.index - Start = 0
          ELSE (tree.index - 1) - Start + 1 = tree.index - Start
      BY <2>2, Numbers
    <3> QED
      BY <3>1, <3>2, FS_Interval
  <2>5. IsComplete(tree) <=> Leaves = Start..(tree.index - 1)
    BY <2>1, <2>3, <2>4, FS_Subset DEF IsComplete
  <2>6. ~IsComplete(tree) => RootHash(tree) = Incomplete
    BY DEF RootHash
  <2> QED
    BY <2>5, <2>6
<1> QED
  BY <1>1, Inductive, PTL
=============================================================================
