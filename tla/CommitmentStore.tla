-------------------------- MODULE CommitmentStore --------------------------
(***************************************************************************)
(* The commitments snapshot service: AcceptEvent on the Merkle tree, the   *)
(* list of encrypted outputs and the map from commitment to output, the    *)
(* list's slice header that storeChainState copies into the instance, and  *)
(* a wallet call that goes through the list behind that header.            *)
(*                                                                         *)
(* Events reach the service in any order and again: the Solana scan lists  *)
(* the newest transaction of a slot first, an event that cannot be mapped  *)
(* is skipped, and a watermark lowered to the older of two snapshot files  *)
(* makes the newer file's events come again. A reorganisation puts another *)
(* commitment at an index, or exchanges two of them.                       *)
(*                                                                         *)
(* AcceptEvent removes a replaced output by moving what comes after it,    *)
(* slot by slot, in the array that the instance's header may share. A      *)
(* balance refresh holds the chain's mutex, which keeps the emitter away   *)
(* while it reads; a transaction's input selection holds nothing.          *)
(***************************************************************************)
EXTENDS MerkleTree, FiniteSets

CONSTANTS
  MaxLeaves,   \* bound: leaves on the chain
  MaxVersions, \* bound: commitments that are first mined at an index
  MaxReorgs    \* bound: how often the chain is reorganised

ASSUME CommitmentStoreAssumption ==
  /\ MaxLeaves \in 1..(2 ^ (Levels - 1))
  /\ MaxVersions \in Nat \ {0}
  /\ MaxReorgs \in Nat

\* A commitment, and the one encrypted output that belongs to it; Home is where it is first mined.
Commitment(i, v) == <<"commitment", i, v>>
Commitments == {Commitment(i, v) : i \in 1..MaxLeaves, v \in 1..MaxVersions}
Home(c) == c[2]
None == <<"none">>

VARIABLES
  chain,     \* chain[i]: the commitment at leaf i
  settled,   \* the leaves 1..settled can no longer be replaced
  reorgs,    \* how often the chain was reorganised
  moved,     \* history: the commitments that a reorganisation has taken from their index
  swapped,   \* history: whether one has put a commitment at another's index
  tree,      \* merkleTree
  outputs,   \* encOutputs: the service's slice
  byC,       \* byCommitment: the commitments it has an output for
  accepted,  \* the commitment that AcceptEvent still has to list, if any
  hole,      \* the slot of outputs that it is about to overwrite, 0 if none
  served,    \* what the instance's copy of the slice header shows
  alias,     \* whether that header and the service's slice share a backing array
  stored,    \* whether the instance serves this service, or still the one before it
  reader,    \* the call that reads the served list: none, a refresh or a selection
  seen,      \* what it has read
  due,       \* history: what the list showed when it began
  crossed    \* history: whether a removal ran since

chainVars == <<chain, settled, reorgs, moved, swapped>>
serviceVars == <<tree, outputs, byC, accepted, hole>>
headerVars == <<served, alias, stored>>
readVars == <<reader, seen, due, crossed>>
vars == <<chainVars, serviceVars, headerVars, readVars>>

NodeOf(i) == Start + i - 1
Elements(s) == {s[k] : k \in DOMAIN s}

\* Mutant: the slot after the one to be removed.
NextSlot(s, c) == (CHOOSE k \in DOMAIN s : s[k] = c) + 1

SlotOf(s, c) == CHOOSE k \in DOMAIN s : s[k] = c

\* What the instance's header shows once the service's slots hold s.
Shown(s) ==
  IF alias
  THEN [k \in DOMAIN served |-> IF k \in DOMAIN s THEN s[k] ELSE served[k]]
  ELSE served

\* The tree of the leaves 1..n of the chain, inserted in order.
TreeOfChain(n) ==
  LET leaf(k) == [m \in Start..(Start + k - 1) |-> chain[m - Start + 1]]
      inner[k \in 0..n] ==
        IF k = 0 THEN <<>> ELSE Climb(inner[k - 1], leaf(k), NodeOf(k), Logarithm2(k))
  IN [leaf |-> leaf(n), inner |-> inner[n],
      reverse |-> [c \in {chain[i] : i \in 1..n} |-> NodeOf(CHOOSE i \in 1..n : chain[i] = c)],
      count |-> n, index |-> Start + n]

Init ==
  /\ chain = <<>> /\ settled = 0 /\ reorgs = 0 /\ moved = {} /\ swapped = FALSE
  /\ tree = NewTree /\ outputs = <<>> /\ byC = {} /\ accepted = None /\ hole = 0
  /\ served = <<>> /\ alias = FALSE /\ stored = FALSE
  /\ reader = "none" /\ seen = <<>> /\ due = {} /\ crossed = FALSE

-----------------------------------------------------------------------------
(* The chain *)

Deposit ==
  /\ Len(chain) < MaxLeaves
  /\ chain' = Append(chain, Commitment(Len(chain) + 1, 1))
  /\ UNCHANGED <<settled, reorgs, moved, swapped, serviceVars, headerVars, readVars>>

Settle ==
  /\ settled < Len(chain)
  /\ settled' = settled + 1
  /\ UNCHANGED <<chain, reorgs, moved, swapped, serviceVars, headerVars, readVars>>

\* Another commitment takes leaf i: one of its own, or one of another leaf, which then takes the
\* one that i had.
Reorg(i, c) ==
  /\ reorgs < MaxReorgs
  /\ i > settled /\ chain[i] # c
  /\ c \in Elements(chain) \/ Home(c) = i
  /\ \A j \in 1..settled : chain[j] # c
  /\ chain' = [j \in DOMAIN chain |->
                 CASE j = i -> c
                   [] j # i /\ chain[j] = c -> chain[i]
                   [] OTHER -> chain[j]]
  /\ moved' = moved \cup {chain[j] : j \in {k \in DOMAIN chain : chain[k] \in {chain[i], c}}}
  /\ swapped' = (swapped \/ c \in Elements(chain))
  /\ reorgs' = reorgs + 1
  /\ UNCHANGED <<settled, serviceVars, headerVars, readVars>>

-----------------------------------------------------------------------------
(* The service *)

\* A new service replaces the old one, whose array nobody writes any more: a reset stops the
\* listener, and its scan waits for the mutex. Its snapshot is the server's: settled leaves in
\* order, with or without a reverse index.
LoadSnapshot(n, withReverse) ==
  /\ accepted = None
  /\ tree' = IF withReverse THEN TreeOfChain(n)
                            ELSE [TreeOfChain(n) EXCEPT !.reverse = BuildReverse(TreeOfChain(n))]
  /\ outputs' = [k \in 1..n |-> chain[k]]
  /\ byC' = Elements(outputs')
  /\ alias' = FALSE
  /\ stored' = FALSE
  /\ UNCHANGED <<accepted, hole, served, chainVars, readVars>>

\* processEvents runs under the chain's mutex, one event after the other; a commitment that is
\* there already is not accepted.
MayAccept(i) == accepted = None /\ reader # "refresh" /\ At(tree.leaf, NodeOf(i)) # chain[i]

\* AcceptEvent's end: an output is listed once. It is written behind the last one, in the same
\* array while that has room: behind what the header shows there may be none left.
Listing(c) ==
  IF c \in Elements(outputs)
  THEN UNCHANGED <<outputs, served, alias>>
  ELSE /\ outputs' = Append(outputs, c)
       /\ served' = Shown(outputs')
       /\ alias' \in IF Len(outputs) < Len(served) THEN {alias} ELSE {alias, FALSE}

\* AcceptEvent of a commitment at an index that is still free.
AcceptNew(i) ==
  /\ MayAccept(i)
  /\ NodeOf(i) \notin DOMAIN tree.leaf
  /\ tree' = Insert(tree, chain[i], NodeOf(i))
  /\ byC' = byC \cup {chain[i]}
  /\ Listing(chain[i])
  /\ UNCHANGED <<accepted, hole, stored, chainVars, readVars>>

\* AcceptEvent of another commitment at an index that is taken: the tree, the map, and the slot
\* of the old output, if the map has one for it.
AcceptReplacement(i) ==
  LET existing == tree.leaf[NodeOf(i)] IN
  /\ MayAccept(i)
  /\ NodeOf(i) \in DOMAIN tree.leaf
  /\ tree' = Insert(tree, chain[i], NodeOf(i))
  /\ byC' = (byC \ {existing}) \cup {chain[i]}
  /\ accepted' = chain[i]
  /\ hole' = IF existing \in byC \cap Elements(outputs) THEN SlotOf(outputs, existing) ELSE 0
  /\ crossed' = (reader # "none")
  /\ UNCHANGED <<outputs, headerVars, reader, seen, due, chainVars>>

\* append(s[:i], s[i+1:]...): the outputs behind the hole move down, one slot after the other.
Shift ==
  /\ hole \in 1..(Len(outputs) - 1)
  /\ outputs' = [outputs EXCEPT ![hole] = outputs[hole + 1]]
  /\ hole' = hole + 1
  /\ served' = Shown(outputs')
  /\ UNCHANGED <<tree, byC, accepted, alias, stored, chainVars, readVars>>

\* The service's own slice gets shorter; the slot it leaves keeps what it held.
Shrink ==
  /\ hole = Len(outputs) /\ hole # 0
  /\ outputs' = SubSeq(outputs, 1, Len(outputs) - 1)
  /\ hole' = 0
  /\ UNCHANGED <<tree, byC, accepted, headerVars, chainVars, readVars>>

\* Mutant: the new output is only put in the map.
ListAcceptedDropsNew ==
  /\ accepted # None /\ hole = 0
  /\ accepted' = None
  /\ UNCHANGED <<tree, outputs, byC, hole, headerVars, chainVars, readVars>>

\* The new output is listed.
ListAccepted ==
  /\ accepted # None /\ hole = 0
  /\ Listing(accepted)
  /\ accepted' = None
  /\ UNCHANGED <<tree, byC, hole, stored, chainVars, readVars>>

-----------------------------------------------------------------------------
(* The instance *)

\* storeChainState copies the header of the list as it is now, which the new listener may be at
\* work on. (A call that reads the old list, which nobody writes, may as well end before.)
StoreChainState ==
  /\ ~stored
  /\ reader = "none"
  /\ stored' = TRUE
  /\ served' = outputs
  /\ alias' = TRUE
  /\ UNCHANGED <<serviceVars, chainVars, readVars>>

\* Mutant: a refresh does not wait for the mutex.
BeginReadUnlocked(how) ==
  /\ reader = "none"
  /\ reader' = how
  /\ seen' = <<>>
  /\ due' = Elements(served)
  /\ crossed' = (accepted # None)
  /\ UNCHANGED <<serviceVars, headerVars, chainVars>>

\* A refresh waits for the mutex; a selection of inputs does not.
BeginRead(how) ==
  /\ reader = "none"
  /\ how = "refresh" => accepted = None
  /\ reader' = how
  /\ seen' = <<>>
  /\ due' = Elements(served)
  /\ crossed' = (accepted # None)
  /\ UNCHANGED <<serviceVars, headerVars, chainVars>>

\* filterOwnedOutputs goes through the slice from the first slot to the last.
ReadOutput ==
  /\ reader # "none"
  /\ Len(seen) < Len(served)
  /\ seen' = Append(seen, served[Len(seen) + 1])
  /\ UNCHANGED <<reader, due, crossed, serviceVars, headerVars, chainVars>>

EndRead ==
  /\ reader # "none"
  /\ Len(seen) = Len(served)
  /\ reader' = "none" /\ seen' = <<>> /\ due' = {} /\ crossed' = FALSE
  /\ UNCHANGED <<serviceVars, headerVars, chainVars>>

Next ==
  \/ Deposit
  \/ Settle
  \/ \E i \in 1..Len(chain), c \in Commitments : Reorg(i, c)
  \/ \E i \in 1..Len(chain) : AcceptNew(i) \/ AcceptReplacement(i)
  \/ Shift \/ Shrink \/ ListAccepted
  \/ \E n \in 0..settled, withReverse \in BOOLEAN : LoadSnapshot(n, withReverse)
  \/ StoreChainState
  \/ \E how \in {"refresh", "selection"} : BeginRead(how)
  \/ ReadOutput \/ EndRead

Spec == Init /\ [][Next]_vars

-----------------------------------------------------------------------------
(* Properties *)

Leaves == DOMAIN tree.leaf
LeafValues == {tree.leaf[n] : n \in Leaves}
Distinct(s) == \A j, k \in DOMAIN s : s[j] = s[k] => j = k

\* The leaves whose commitments have been at one index only.
Steady == IF swapped THEN LeafValues \ moved ELSE LeafValues

\* Every variable keeps its shape, and what the tree counts stays within the leaves of the chain.
TypeOK ==
  /\ chain \in Seq(Commitments) /\ Len(chain) <= MaxLeaves
  /\ settled \in 0..Len(chain)
  /\ reorgs \in 0..MaxReorgs /\ moved \subseteq Commitments /\ swapped \in BOOLEAN
  /\ DOMAIN tree = DOMAIN NewTree
  /\ Leaves \subseteq Start..(Start + Len(chain) - 1) /\ LeafValues \subseteq Commitments
  /\ tree.count \in 0..Len(chain)
  /\ tree.index \in Start..(Start + Len(chain))
  /\ outputs \in Seq(Commitments) /\ byC \subseteq Commitments
  /\ accepted \in Commitments \cup {None} /\ hole \in 0..Len(outputs)
  /\ served \in Seq(Commitments) /\ alias \in BOOLEAN /\ stored \in BOOLEAN
  /\ reader \in {"none", "refresh", "selection"} /\ crossed \in BOOLEAN
  /\ seen \in Seq(Commitments) /\ Len(seen) <= Len(served) /\ due \subseteq Commitments

\* In whatever order leaves arrive, are repeated or replaced, GetRootHash answers exactly when
\* no leaf below the last one is missing, and with the root of a tree built from scratch.
RootIsReference ==
  IF Leaves = Start..(tree.index - 1)
  THEN RootHash(tree) = ReferenceRoot([k \in 1..(tree.index - Start) |-> tree.leaf[NodeOf(k)]])
  ELSE RootHash(tree) = Incomplete

\* The path of every leaf of a complete tree is given, leads to the root within the circuit's
\* length, and has nothing but zeros above it. (The reverse entry of a commitment that was
\* exchanged with another and back may name the wrong leaf.)
PathVerifies ==
  RootHash(tree) # Incomplete =>
    \A c \in Steady :
      LET path == CommitmentPath(tree, c) IN
      /\ path # Refused
      /\ PathRoot(c, path.siblings, path.sides, Height(tree.count)) = RootHash(tree)
      /\ \A k \in (Height(tree.count) + 1)..(CircomLength - 1) : path.siblings[k] = Default

\* After each event the service lists the outputs of its map, each once and every one a leaf's,
\* so none of a commitment that the event replaced. The output of a leaf is missing only if a
\* reorganisation has exchanged its commitment with another: AcceptEvent then finds it listed,
\* and the event of its old index removes it.
OutputsMatchLeaves ==
  accepted = None =>
    /\ Distinct(outputs)
    /\ Elements(outputs) = byC
    /\ byC \subseteq LeafValues
    /\ Steady \subseteq byC

\* The service's work on its own list takes no output out of the list the instance serves, not
\* even for the moment in which slots of the array they share are moved (a slot is overwritten
\* when the one before has what it held), but those that a reorganisation took from their index.
ServedLosesOnlyMoved ==
  [][~StoreChainState => Elements(served) \ moved \subseteq Elements(served')]_vars

\* A balance refresh, which holds the chain's mutex, reads every output that the served list
\* showed when it began and that no reorganisation has moved, whatever the listener does
\* meanwhile; so does an input selection, which holds nothing, unless a removal ran while it
\* read. Neither reads one twice, unless two commitments were exchanged: then a removal may end
\* without an addition, and the slot it left still shows the last output again.
ReadIsWhole ==
  /\ reader = "refresh" \/ (reader = "selection" /\ ~crossed)
  /\ Len(seen) = Len(served)
  => /\ due \ moved \subseteq Elements(seen)
     /\ ~swapped => Distinct(seen)

\* The comment in CalcCommitmentsSiblingAndSides: a commitment missing from the tree has an
\* all-zero path, which is why the function refuses it. So none gets the path of another leaf.
AbsentCommitmentRefused ==
  \A c \in Commitments \ LeafValues :
    CommitmentPath(tree, c) # Refused =>
      \A k \in 1..CircomLength : CommitmentPath(tree, c).siblings[k] = Default

-----------------------------------------------------------------------------
(* The inductive invariant: why moving slots of a shared array does no harm to the rest *)

\* No commitment is on the chain twice, none comes from behind its end, and without an exchange
\* each is where it was first mined.
ChainInv ==
  /\ Distinct(chain)
  /\ \A k \in DOMAIN chain : Home(chain[k]) \in DOMAIN chain /\ (swapped \/ Home(chain[k]) = k)

\* A leaf that differs from the chain's was moved; the tree counts its leaves and knows the last.
LeavesInv ==
  /\ \A n \in Leaves : tree.leaf[n] \in moved \/ tree.leaf[n] = chain[n - Start + 1]
  /\ ~swapped => \A n \in Leaves : Home(tree.leaf[n]) = n - Start + 1
  /\ tree.count = Cardinality(Leaves)
  /\ \A n \in Leaves : n < tree.index
  /\ tree.index # Start => tree.index - 1 \in Leaves

\* The list as it is when the slots behind the hole have moved.
Without(s, h) == [k \in 1..(Len(s) - 1) |-> IF k < h THEN s[k] ELSE s[k + 1]]
Listed == IF hole = 0 THEN outputs ELSE Without(outputs, hole)

\* The list and the map agree but for the commitment that is still to be listed.
OutputsInv ==
  /\ Distinct(Listed)
  /\ IF accepted = None THEN hole = 0 /\ Elements(Listed) = byC
                        ELSE byC = Elements(Listed) \cup {accepted}
  /\ ~swapped => accepted \notin Elements(Listed)
  /\ byC \subseteq LeafValues
  /\ Steady \subseteq byC

\* What the hole holds was moved, or is in the slot before it too.
HoleInv ==
  hole # 0 => outputs[hole] \in moved \/ (hole > 1 /\ outputs[hole - 1] = outputs[hole])

\* A header on the service's array shows its slots, and behind them only what was moved or is
\* shown before; without an exchange there is nothing behind them once an event is done.
HeaderInv ==
  /\ alias => \A k \in DOMAIN served :
       IF k <= Len(outputs)
       THEN served[k] = outputs[k]
       ELSE served[k] \in moved \cup Elements(outputs)
  /\ ~swapped => IF alias THEN Len(served) <= Len(Listed) + (IF accepted = None THEN 0 ELSE 1)
                          ELSE Distinct(served)

\* As long as no removal runs, what a reader shall find is in a slot that nobody writes.
ReaderInv ==
  /\ reader = "none" => seen = <<>>
  /\ reader = "refresh" => ~crossed
  /\ reader # "none" /\ ~crossed =>
       /\ accepted = None
       /\ \A c \in due \ moved :
            \E k \in DOMAIN served : /\ served[k] = c
                                     /\ k <= Len(seen) => seen[k] = c
                                     /\ alias => k <= Len(outputs)
       /\ ~swapped => \A k \in DOMAIN seen : seen[k] = served[k]

IInv == TypeOK /\ ChainInv /\ LeavesInv /\ OutputsInv /\ HoleInv /\ HeaderInv /\ ReaderInv
=============================================================================
