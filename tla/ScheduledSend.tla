--------------------------- MODULE ScheduledSend ---------------------------
(* Deposit and send: one goroutine submits the deposit, another builds the    *)
(* withdrawal (or bridge) of every recipient on a Merkle tree to which the    *)
(* deposit's leaves are added before the chain has them, and the batch is     *)
(* scheduled at the relayer to run after the deposit.  Deposits without a     *)
(* send are calls of this module that stop at the deposit.                    *)
EXTENDS DirectDeposit

CONSTANTS BatchSize   \* proofs the enclave builds at a time (5)

ASSUME BatchAssumption == BatchSize \in Nat \ {0}

VARIABLES call,      \* what the caller knows: "running", "ok", "error"
          batch,     \* the goroutine that builds the withdrawals
          worker,    \* the proof a local batch is building
          nonces,    \* recipients whose temporary wallet the server knows
          stirred,   \* withdrawals whose tree moved while they were built
          sched      \* what the relayer scheduled

sendVars == <<call, batch, worker, nonces, stirred, sched>>
vars     == <<depVars, sendVars>>

NotScheduled == [items |-> <<>>, dependsOn |-> 0]
Recipients   == DOMAIN req.amounts
Idle == [phase |-> "idle", k |-> 0, present |-> 0, root |-> <<>>, index |-> 0]

-----------------------------------------------------------------------------
(* A withdrawal of the batch.                                                 *)

\* mutant: the index within the group.
BatchIndexOnly(start, batchIndex) == batchIndex + 1

(* The note a worker of the batch spends: batchIndex counts from the start of *)
(* its group, the recipients and their amounts from the first.                *)
AbsoluteIndex(start, batchIndex) == start + batchIndex

(* What is asked of the relayer.  A Solana withdrawal carries the fee of the  *)
(* amount its recipient gets; Tron's b coordinates are swapped for a relayer. *)
Withdrawal(i, root, index) ==
    LET at == AbsoluteIndex(batch.start, i - batch.start)
    IN  [note |-> i, recipient |-> at, amount |-> req.amounts[at],
         native |-> IF NativeNotes(req) THEN {Len(req.amounts) + i} ELSE {},
         fee |-> CalculateTotalFee(req.amounts[at], req.fee),
         root |-> root, index |-> index, swapped |-> OnTron]

(* What the recipient is left with.  The contract's cut of the amount is      *)
(* taken to be rounded up.                                                    *)
Cut(amount) == CeilDiv(amount * req.fee.rate, Bps)

Net(item) ==
    LET spent == NoteAmount(req, item.note)
    IN  CASE req.flow = "solana" -> spent - item.fee
          [] req.flow = "lifi"   -> spent - Cut(spent) - req.fee.flat
          [] OTHER -> spent - req.fee.flat - Cut(spent - req.fee.flat)

Record(i, item) ==
    /\ batch' = [batch EXCEPT !.items = [@ EXCEPT ![i] = <<item>>],
                              !.busy = @ \ {i}]
    /\ worker' = Idle

-----------------------------------------------------------------------------
(* The call.                                                                  *)

Reject ==
    /\ call = "running" /\ dep.pc = "start" /\ ~ValidRequest(req)
    /\ call' = "error"
    /\ dep' = [dep EXCEPT !.pc = "failed"]
    /\ UNCHANGED <<req, leaves, bounds, tree, allowance, earlier, batch, worker,
                   nonces, stirred, sched>> /\ Quiet

(* group.Go twice: an errgroup that no failure cancels.                       *)
Spawn ==
    /\ BeginSubmit
    /\ batch' = IF req.flow \in Scheduled THEN [batch EXCEPT !.pc = "next"] ELSE batch
    /\ UNCHANGED <<chainVars, call, worker, nonces, stirred, sched>> /\ Quiet

\* mutant: a goroutine that failed is never reported.
EndedWell(pc) == pc = "done"

Ended(pc) == pc \in {"done", "failed"}

(* A deposit on its own, or one that could not be prepared.                   *)
Return ==
    /\ call = "running" /\ batch.pc = "idle" /\ Ended(dep.pc)
    /\ call' = IF dep.pc = "done" THEN "ok" ELSE "error"
    /\ UNCHANGED <<depVars, batch, worker, nonces, stirred, sched>>

(* group.Wait waits for the deposit and for the batch.                        *)
WaitFails ==
    /\ call = "running"
    /\ Ended(dep.pc) /\ Ended(batch.pc)
    /\ "failed" \in {dep.pc, batch.pc}
    /\ call' = "error"
    /\ UNCHANGED <<depVars, batch, worker, nonces, stirred, sched>>

(* TransactCallRelayerBatch: the relayer refuses, or schedules the batch and  *)
(* its answer arrives, or is lost or lacks the id.                            *)
Schedule ==
    /\ call = "running" /\ dep.pc = "done" /\ batch.pc = "done"
    /\ \E scheduled, answered \in BOOLEAN :
         /\ sched' = IF scheduled
                     THEN [items |-> [i \in Recipients |-> batch.items[i][1]],
                           dependsOn |-> Len(dep.wire)]
                     ELSE sched
         /\ call' = IF scheduled /\ answered THEN "ok" ELSE "error"
    /\ UNCHANGED <<depVars, batch, worker, nonces, stirred>>

-----------------------------------------------------------------------------
(* The batch.                                                                 *)

batchFrame == <<depVars, call, sched>>

proofBatchSize == IF req.remote /\ ~OnTron THEN BatchSize ELSE 1

(* Leaves of others the tree lacks: the deposit will not land right after     *)
(* what the tree holds.                                                       *)
Lags == \E i \in Len(tree) + 1 .. Len(leaves) : IsForeign(leaves[i])

BeginGroup ==
    LET last == batch.start + proofBatchSize - 1
    IN  /\ batch.pc = "next" /\ batch.start <= Len(req.amounts)
        /\ batch' = [batch EXCEPT !.pc = "group",
                                  !.busy = (batch.start .. last) \cap Recipients]
        /\ UNCHANGED <<batchFrame, worker, nonces, stirred>>

EndGroup ==
    /\ batch.pc = "group" /\ batch.busy = {}
    /\ batch' = [batch EXCEPT !.pc = IF batch.failed THEN "failed" ELSE "next",
                              !.start = @ + proofBatchSize]
    /\ UNCHANGED <<batchFrame, worker, nonces, stirred>>

EndBatch ==
    /\ batch.pc = "next" /\ batch.start > Len(req.amounts)
    /\ batch' = [batch EXCEPT !.pc = "done"]
    /\ UNCHANGED <<batchFrame, worker, nonces, stirred>>

(* Any call of a worker fails: its group fails, the others of the group go on *)
(* until they see the context cancelled.                                      *)
WorkerErrs(i) ==
    /\ i \in batch.busy
    /\ batch' = [batch EXCEPT !.failed = TRUE, !.busy = @ \ {i}]
    /\ worker' = Idle
    /\ UNCHANGED <<batchFrame, nonces, stirred>>

(* AddTemporaryWalletNonce comes first in a bridge; its answer may be lost.   *)
AddTemporaryWalletNonce(i) ==
    /\ i \in batch.busy /\ req.flow = "lifi" /\ i \notin nonces
    /\ nonces' = nonces \union {i}
    /\ UNCHANGED <<batchFrame, batch, worker, stirred>>

MayProve(i) == i \in batch.busy /\ (req.flow = "lifi" => i \in nonces)

(* The enclave gets the notes and the pending leaves and uses a tree of its   *)
(* own.                                                                       *)
ProveRemotely(i) ==
    LET root == IF Landed THEN leaves ELSE leaves \o PendingLeaves
    IN  /\ MayProve(i) /\ req.remote
        /\ Record(i, Withdrawal(i, root, IndexOf(root)))
        /\ UNCHANGED <<batchFrame, nonces, stirred>>

BeginProof(i) ==
    /\ MayProve(i) /\ ~req.remote /\ worker.phase = "idle"
    /\ worker' = [Idle EXCEPT !.phase = "scan", !.k = 1]
    /\ stirred' = IF Lags THEN stirred \union {i} ELSE stirred
    /\ UNCHANGED <<batchFrame, batch, nonces>>

Working(phase, i) == i \in batch.busy /\ worker.phase = phase

(* SpeculativeMerkleTree asks the live tree for one pending leaf at a time.   *)
ScanLeaf(i) ==
    /\ Working("scan", i) /\ worker.k <= Len(PendingLeaves)
    /\ worker' = [worker EXCEPT !.k = @ + 1,
                    !.present = @ + (IF Contains(tree, PendingLeaves[worker.k])
                                     THEN 1 ELSE 0)]
    /\ UNCHANGED <<batchFrame, batch, nonces, stirred>>

Scanned(i) == Working("scan", i) /\ worker.k > Len(PendingLeaves)

PartialLeaves(i) ==
    /\ Scanned(i) /\ worker.present \notin {0, Len(PendingLeaves)}
    /\ WorkerErrs(i)

(* The copying of the live tree begins; nothing keeps the indexer out.        *)
BeginClone(i) ==
    /\ Scanned(i) /\ worker.present = 0
    /\ worker' = [worker EXCEPT !.phase = "clone", !.root = tree]
    /\ UNCHANGED <<batchFrame, batch, nonces, stirred>>

(* A tree copied while leaves are inserted: as it was, as it is, or with the  *)
(* count of the one and nodes of the other, which is the tree of no leaves at *)
(* the places that came.                                                      *)
Copies(before, after) ==
    {before, after, [j \in DOMAIN after |-> IF j \in DOMAIN before THEN after[j] ELSE 0]}

\* mutant: the pending leaves go into the live tree.
InsertIntoLiveTree(i) ==
    /\ Working("clone", i)
    /\ tree' = tree \o PendingLeaves
    /\ Record(i, Withdrawal(i, tree', IndexOf(tree')))
    /\ UNCHANGED <<req, leaves, bounds, allowance, earlier, dep, overtaken, missed,
                   call, sched, nonces, stirred>>

(* A clone with the pending leaves at its end, which only this worker has.    *)
CloneTree(i) ==
    /\ Working("clone", i)
    /\ \E copy \in Copies(worker.root, tree) :
         LET root == copy \o PendingLeaves
         IN  Record(i, Withdrawal(i, root, IndexOf(root)))
    /\ UNCHANGED <<batchFrame, nonces, stirred>>

(* areLocalTreesUpToDate: the live tree is used when its root is the chain's, *)
(* the server's siblings when it is not.                                      *)
CompareRoots(i) ==
    /\ Scanned(i) /\ worker.present = Len(PendingLeaves)
    /\ IF tree = leaves
       THEN worker' = [worker EXCEPT !.phase = "root"] /\ UNCHANGED batch
       ELSE Record(i, Withdrawal(i, leaves, IndexOf(leaves)))
    /\ UNCHANGED <<batchFrame, nonces, stirred>>

(* handleLocalMerkleTrees reads the root, the index and the paths of the live *)
(* tree one after the other.                                                  *)
ReadRootHash(i) ==
    /\ Working("root", i)
    /\ worker' = [worker EXCEPT !.phase = "index", !.root = tree]
    /\ UNCHANGED <<batchFrame, batch, nonces, stirred>>

ReadRootIndex(i) ==
    /\ Working("index", i)
    /\ worker' = [worker EXCEPT !.phase = "path", !.index = IndexOf(tree)]
    /\ UNCHANGED <<batchFrame, batch, nonces, stirred>>

(* A path of another tree than the root's has no proof.                       *)
ReadPaths(i) ==
    /\ Working("path", i)
    /\ IF tree = worker.root
       THEN /\ Record(i, Withdrawal(i, worker.root, worker.index))
            /\ UNCHANGED <<batchFrame, nonces, stirred>>
       ELSE WorkerErrs(i)

Work(i) == \/ WorkerErrs(i) \/ AddTemporaryWalletNonce(i) \/ ProveRemotely(i)
           \/ BeginProof(i) \/ ScanLeaf(i) \/ PartialLeaves(i) \/ BeginClone(i)
           \/ CloneTree(i) \/ CompareRoots(i) \/ ReadRootHash(i)
           \/ ReadRootIndex(i) \/ ReadPaths(i)

Batch == \/ BeginGroup \/ EndGroup \/ EndBatch
         \/ \E i \in Recipients : Work(i)

-----------------------------------------------------------------------------
(* stirred: a withdrawal built before another user's deposit that came before *)
(* ours, or in whose making the indexer moved the live tree.                  *)
Built == {i \in Recipients : batch.items[i] # <<>> \/ i \in batch.busy}

Disturbed ==
    (IF leaves' # leaves /\ ~Landed /\ dep'.wire = dep.wire THEN Built ELSE {})
    \union (IF tree' # tree /\ worker.phase # "idle" THEN batch.busy ELSE {})

Environment ==
    /\ call = "running" \/ ~Landed
    /\ Chain
    /\ stirred' = stirred \union Disturbed
    /\ UNCHANGED <<call, batch, worker, nonces, sched>>

Deposit == /\ ValidRequest(req)
           /\ Prepare \/ Approve \/ Send \/ DepositErrs
           /\ UNCHANGED sendVars

Init == /\ DepositInit
        /\ call = "running"
        /\ batch = [pc |-> "idle", start |-> 1, busy |-> {}, failed |-> FALSE,
                    items |-> [i \in Recipients |-> <<>>]]
        /\ worker = Idle
        /\ nonces = {} /\ stirred = {} /\ sched = NotScheduled

Call == Reject \/ Spawn \/ Return \/ WaitFails \/ Schedule

Next == Environment \/ Deposit \/ Batch \/ Call

(* The goroutines run; a transaction on its way is mined, and the chain's     *)
(* blocks pass.                                                               *)
Fairness == /\ WF_vars(Deposit) /\ WF_vars(Batch) /\ WF_vars(Call)
            /\ WF_vars(ApprovalMined /\ UNCHANGED sendVars)
            /\ WF_vars(EarlierLands /\ UNCHANGED sendVars)
            /\ WF_vars(BlockHeightPasses /\ UNCHANGED sendVars)

Spec == Init /\ [][Next]_vars /\ Fairness

-----------------------------------------------------------------------------
(* Properties.                                                                *)

Places == {"start", "index", "prepared", "allow", "reset", "resetWait", "approve",
           "approveWait", "poll", "estimate", "send", "confirm", "done", "failed"}

Deposits ==
    [pc : Places, root : Seq(Int), index : Int, buckets : SUBSET Nat,
     swapped : BOOLEAN, approval : {"none", "reset", "approve"},
     polls : 0 .. WaitAttempts, gas : BOOLEAN, open : BOOLEAN,
     wire : Seq({"pending", "landed", "reverted", "expired", "dropped"})]

Withdrawals ==
    [note : Nat, recipient : Nat, amount : Int, native : SUBSET Nat, fee : Int,
     root : Seq(Int), index : Int, swapped : BOOLEAN]

TypeOK ==
    /\ req \in Requests
    /\ leaves \in Seq(Int) /\ tree \in Seq(Int) /\ bounds \subseteq 1 .. Len(leaves)
    /\ allowance \in Nat /\ earlier \in {0, Earlier}
    /\ dep \in Deposits /\ Len(dep.wire) <= SendRetries
    /\ overtaken \in BOOLEAN /\ missed \in BOOLEAN
    /\ call \in {"running", "ok", "error"}
    /\ batch \in [pc : {"idle", "next", "group", "done", "failed"},
                  start : Nat \ {0}, busy : SUBSET Recipients, failed : BOOLEAN,
                  items : [Recipients -> Seq(Withdrawals)]]
    /\ worker \in [phase : {"idle", "scan", "clone", "root", "index", "path"},
                   k : Nat, present : Nat, root : Seq(Int), index : Int]
    /\ nonces \subseteq Recipients /\ stirred \subseteq Recipients

(* Proving before the deposit has landed: the instance's tree never holds a   *)
(* leaf the chain does not have there, and every scheduled withdrawal is      *)
(* proved on a root that the contract keeps once the deposit has landed,      *)
(* under the index it names, and that holds the notes the withdrawal spends.  *)
(* It fails only for a withdrawal whose tree moved while it was made, or      *)
(* another user's deposit that came in between.                               *)
SpeculationSound ==
    /\ IsPrefix(tree, leaves)
    /\ Landed => \A i \in DOMAIN sched.items \ stirred :
         LET item == sched.items[i]
         IN  /\ Accepted(item.root, item.index)
             /\ {item.note} \union item.native \subseteq ToSet(item.root)

(* What is scheduled is what was asked for: every recipient once, with a note *)
(* of his own, at least the amount asked for after the contract's cut, the    *)
(* bridge's fee where it takes one and a temporary wallet the server knows;   *)
(* behind a deposit that was sent.  The caller gets a success only then, and  *)
(* a caller who asked for the transaction's data has nothing sent.            *)
ScheduleHonoursRequest ==
    /\ sched # NotScheduled =>
         /\ DOMAIN sched.items = Recipients
         /\ \A i \in Recipients :
              LET item == sched.items[i]
              IN  /\ item.note = i /\ item.recipient = i
                  /\ item.native \subseteq ToSet(PendingLeaves)
                  /\ Net(item) >= req.amounts[i]
                  /\ req.flow = "lifi" => i \in nonces
                  /\ OnTron => item.swapped
         /\ dep.pc = "done" /\ sched.dependsOn \in DOMAIN dep.wire
    /\ req.returnTx => dep.wire = <<>> /\ dep.approval = "none"
    /\ call = "ok" => /\ dep.pc = "done"
                      /\ req.flow \in Scheduled => sched # NotScheduled

(* A deposit that is sent lands, unless the chain moved after the last look   *)
(* at it: an earlier transaction of the owner took the allowance, or other    *)
(* deposits filled the Solana bucket.  It lands once, unless the confirmation *)
(* loop let the last block pass without seeing it.                            *)
DepositLandsOnce ==
    /\ (\E a \in DOMAIN dep.wire : dep.wire[a] = "reverted") => overtaken \/ missed
    /\ \A a, b \in DOMAIN dep.wire :
         dep.wire[a] = "landed" /\ dep.wire[b] = "landed" => a = b \/ missed

(* The call returns: no failure of one goroutine leaves the other, or the     *)
(* caller, waiting.                                                           *)
CallEnds == <>(call # "running")

-----------------------------------------------------------------------------
(* The inductive invariant.                                                   *)

Unsent   == Places \ {"send", "confirm", "done", "failed"}
InFlight == \E a \in DOMAIN dep.wire : dep.wire[a] = "pending"

(* Where the deposit is: nothing goes out before "send", only the Solana      *)
(* deposits that confirm go out again, and only the last one may still land.  *)
DepositInv ==
    /\ dep.pc \in Unsent => dep.wire = <<>> /\ ~dep.gas
    /\ dep.pc \in Unsent \ {"estimate"} => dep.polls < WaitAttempts
    /\ dep.pc = "send" => Len(dep.wire) < SendRetries
    /\ dep.pc = "index" => NeedsProof /\ ~OnTron
    /\ dep.pc = "confirm" => req.flow = "solanaDeposit" /\ dep.wire # <<>>
    /\ req.flow # "solanaDeposit" => /\ Len(dep.wire) <= 1
                                     /\ dep.pc = "send" => dep.wire = <<>>
    /\ \A a \in DOMAIN dep.wire :
         dep.wire[a] = "pending" \/ (dep.wire[a] = "landed" /\ ~missed) =>
           /\ a = Len(dep.wire)
           /\ dep.pc \in {"done", "failed"} \/ (dep.pc = "confirm" /\ dep.open)
    /\ dep.pc = "done" => req.returnTx \/ dep.wire # <<>>
    /\ req.returnTx => /\ dep.pc \in {"start", "index", "prepared", "done", "failed"}
                       /\ dep.wire = <<>> /\ dep.approval = "none"
    /\ dep.approval = "reset" => dep.pc \in {"resetWait", "failed"} /\ dep.wire = <<>>
    /\ ~ValidRequest(req) => /\ dep.pc \in {"start", "failed"}
                             /\ dep.wire = <<>> /\ dep.approval = "none"

(* What the chain checks of a deposit held when it was last looked at: the    *)
(* root it was built on is one the contract keeps, under its index once an    *)
(* estimate has passed; the coordinates are back in order; and the allowance  *)
(* and the buckets are right unless the chain moved.                          *)
FitInv ==
    /\ NeedsProof /\ (dep.pc \notin {"start", "failed"} \/ dep.wire # <<>>) =>
         IsPrefix(dep.root, leaves) /\ Len(dep.root) \in bounds
    /\ req.flow \in {"evm", "lifi", "deposit"} /\ (dep.gas \/ dep.wire # <<>>) =>
         dep.index = IndexOf(dep.root)
    /\ OnTron => (dep.swapped <=> dep.pc = "prepared")
    /\ ~overtaken /\ (InFlight \/ (dep.pc = "send" /\ (dep.gas \/ OnTron))) =>
         allowance >= ApprovalAmount
    /\ /\ OnSolana /\ ~overtaken /\ ~missed /\ ~Landed
       /\ dep.pc \notin {"start", "done", "failed"} \/ InFlight
       => dep.buckets = SolanaRootBuckets(Len(leaves))

(* The leaves of the chain: others' but for the deposit's, which lie together *)
(* after the first n.                                                         *)
LandedAt(n) ==
    /\ n + NoteCount(req) \in bounds
    /\ \A j \in 1 .. NoteCount(req) : leaves[n + j] = j
    /\ \A j \in DOMAIN leaves : j \in n + 1 .. n + NoteCount(req) \/ IsForeign(leaves[j])

LeavesInv ==
    /\ IsPrefix(tree, leaves) /\ Len(leaves) \in bounds
    /\ ~Landed => \A j \in DOMAIN leaves : IsForeign(leaves[j])
    /\ Landed /\ req.flow \in Scheduled => \E n \in 0 .. Len(leaves) : LandedAt(n)

(* The batch: the groups before the current one are complete or one of their  *)
(* workers has failed.                                                        *)
BatchInv ==
    /\ batch.pc # "idle" => /\ req.flow \in Scheduled /\ ValidRequest(req)
                            /\ dep.pc \notin {"start", "index", "prepared"}
    /\ batch.pc = "idle" =>
         /\ batch.start = 1 /\ \A i \in Recipients : batch.items[i] = <<>>
         /\ req.flow \in Scheduled => dep.pc \in {"start", "index", "prepared", "failed"}
    /\ batch.pc # "group" => batch.busy = {}
    /\ batch.pc \in {"idle", "next", "done"} =>
         ~batch.failed /\ \A i \in Recipients : i < batch.start => batch.items[i] # <<>>
    /\ batch.pc = "group" =>
         /\ batch.busy \subseteq batch.start .. batch.start + proofBatchSize - 1
         /\ ~batch.failed => \A i \in Recipients : i < batch.start + proofBatchSize =>
                               i \in batch.busy \/ batch.items[i] # <<>>
    /\ batch.pc = "done" => batch.start > Len(req.amounts)

(* A withdrawal that is built is the one that was asked for.                  *)
Asked(i, item) ==
    /\ item.note = i /\ item.recipient = i /\ item.amount = req.amounts[i]
    /\ item.native = IF NativeNotes(req) THEN {Len(req.amounts) + i} ELSE {}
    /\ item.fee = CalculateTotalFee(req.amounts[i], req.fee)
    /\ item.swapped = OnTron
    /\ req.flow = "lifi" => i \in nonces

(* Its root is one the contract keeps once the deposit is on the chain, and   *)
(* until then the chain's with the deposit's leaves added.                    *)
Provable(root, index) ==
    IF Landed
    THEN Accepted(root, index) /\ ToSet(PendingLeaves) \subseteq ToSet(root)
    ELSE root = leaves \o PendingLeaves /\ index = IndexOf(root)

ItemsInv ==
    \A i \in Recipients : batch.items[i] # <<>> =>
      LET item == batch.items[i][1]
      IN  /\ Asked(i, item)
          /\ i \notin stirred => Provable(item.root, item.index)

(* The worker looks whether the tree holds the pending leaves, or copies a    *)
(* tree that does not.                                                        *)
Looks(phase) == phase \in {"scan", "clone"}

(* A local worker is alone; unless its tree moved, it has seen of the pending *)
(* leaves what the tree holds, and copies the tree as it is.                  *)
WorkerInv ==
    worker.phase # "idle" =>
      /\ ~req.remote /\ batch.busy = {batch.start}
      /\ req.flow = "lifi" => batch.start \in nonces
      /\ worker.k \in 1 .. NoteCount(req) + 1 /\ worker.present < worker.k
      /\ worker.present > 0 => Landed
      /\ ~Looks(worker.phase) => Landed
      /\ worker.phase = "clone" => /\ worker.present = 0
                                   /\ worker.k = NoteCount(req) + 1
      /\ batch.start \notin stirred =>
           /\ Looks(worker.phase) =>
                /\ worker.present = 0 => \A j \in 1 .. worker.k - 1 : j \notin ToSet(tree)
                /\ IF Landed
                   THEN \/ 1 \in ToSet(tree)
                        \/ LET root == tree \o PendingLeaves
                           IN  Accepted(root, IndexOf(root))
                   ELSE tree = leaves
           /\ ~Looks(worker.phase) => Provable(tree, IndexOf(tree))
           /\ worker.phase \in {"clone", "index", "path"} => worker.root = tree
           /\ worker.phase = "path" => worker.index = IndexOf(tree)

(* What is scheduled is the batch, behind the deposit.                        *)
ScheduleInv ==
    /\ sched # NotScheduled =>
         /\ sched = [items |-> [i \in Recipients |-> batch.items[i][1]],
                     dependsOn |-> Len(dep.wire)]
         /\ call # "running" /\ dep.pc = "done" /\ batch.pc = "done"
    /\ call = "ok" => dep.pc = "done" /\ (req.flow \in Scheduled => sched # NotScheduled)

IInv == /\ TypeOK /\ DepositInv /\ FitInv /\ LeavesInv /\ BatchInv /\ ItemsInv
        /\ WorkerInv /\ ScheduleInv /\ DepositLandsOnce
=============================================================================
