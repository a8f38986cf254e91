--------------------------- MODULE DirectDeposit ---------------------------
(* A deposit the owner of the wallet sends himself, from the request to the   *)
(* chain: the notes and their amounts, the state the transaction is built     *)
(* from (root and index of an EVM tree, root of the Tron tree, root buckets   *)
(* of the Solana tree), the token approval and the broadcast, with the        *)
(* confirmation loop of the Solana deposits that wait.  ScheduledSend runs it *)
(* beside the withdrawal proofs of a deposit-and-send.                        *)
(*                                                                            *)
(* A root is the sequence of leaves it commits to.                            *)
EXTENDS Integers, FiniteSets, Sequences, SequencesExt

CONSTANTS Requests,            \* the calls a user makes
          Earlier,             \* what a pending transaction of the owner takes
          WaitAttempts,        \* polls of the allowance (30)
          SendRetries,         \* attempts of SignAndConfirm
          MaxOthers,           \* bound: deposits of other users
          MaxTronSelfOutputs,  \* notes a Tron deposit can create (4)
          BucketCap,           \* roots of one Solana bucket (327680)
          Bps                  \* denominator of a variable rate (10000)

ASSUME DepositAssumption ==
    /\ {Earlier, MaxOthers, MaxTronSelfOutputs} \subseteq Nat
    /\ {WaitAttempts, SendRetries, BucketCap, Bps} \subseteq Nat \ {0}

(* What a call hands over.  A variable rate is less than the whole, and only  *)
(* a deposit without a send can ask for the transaction's data.               *)
Flows == {"evm", "lifi", "tron", "solana", "deposit", "proofless", "solanaDeposit"}

ASSUME RequestAssumption == \A rq \in Requests :
    /\ rq.flow \in Flows /\ rq.amounts \in Seq(Int)
    /\ rq.fee.flat \in Nat /\ rq.fee.rate \in 0 .. Bps - 1
    /\ {rq.remote, rq.native, rq.pre, rq.returnTx} \subseteq BOOLEAN
    /\ rq.returnTx => rq.flow \in {"deposit", "proofless", "solanaDeposit"}

VARIABLES req,        \* the request
          leaves,     \* leaves of the contract's tree
          bounds,     \* numbers of leaves at which the contract kept a root
          tree,       \* the instance's Merkle tree, which the indexer fills
          allowance,  \* what the contract may take of the owner's token
          earlier,    \* what the owner's pending transaction will take of it
          dep,        \* the goroutine that submits the deposit
          overtaken,  \* the chain moved after the deposit's last check
          missed      \* a deposit landed that SignAndConfirm did not see

depVars == <<req, leaves, bounds, tree, allowance, earlier, dep, overtaken,
             missed>>

-----------------------------------------------------------------------------
(* Requests.                                                                  *)

Scheduled  == {"evm", "lifi", "tron", "solana"}
OnSolana   == req.flow \in {"solana", "solanaDeposit"}
OnTron     == req.flow = "tron"
NeedsProof == req.flow \in {"evm", "lifi", "tron", "deposit"}

(* validateDepositAndWithdrawArgs, validateDepositAndBridgeArgs and           *)
(* validateSolanaDepositArgs: what no flow accepts.                           *)
ValidAmounts(rq) == /\ rq.amounts # <<>>
                    /\ \A i \in DOMAIN rq.amounts : rq.amounts[i] > 0

(* HinkalDepositAndWithdraw: a Tron circuit has a limited number of outputs.  *)
ValidRequest(rq) ==
    /\ ValidAmounts(rq)
    /\ rq.flow = "tron" => Len(rq.amounts) <= MaxTronSelfOutputs

CeilDiv(a, b) == (a + b - 1) \div b

(* divideRoundingUp of the variable part a recipient must not lose.           *)
CalculateVariableFeeGrossUp(amount, rate) == CeilDiv(amount * rate, Bps - rate)

CalculateGrossUtxoAmount(amount, fee) ==
    amount + CalculateVariableFeeGrossUp(amount, fee.rate) + fee.flat

CalculateGrossAmountWithFee(amount, fee) ==
    CeilDiv((amount + fee.flat) * Bps, Bps - fee.rate)

CalculateTotalFee(amount, fee) == fee.flat + (amount * fee.rate) \div Bps

(* What the deposit puts into the note of a recipient.                        *)
NoteAmount(rq, i) ==
    LET amount == rq.amounts[i]
    IN  CASE rq.flow \in {"evm", "tron"} -> CalculateGrossUtxoAmount(amount, rq.fee)
          [] rq.flow = "lifi"   -> CalculateGrossAmountWithFee(amount, rq.fee)
          [] rq.flow = "solana" -> amount + CalculateTotalFee(amount, rq.fee)
          [] OTHER              -> amount

(* HinkalDepositAndBridge adds a second token, of one note per recipient,     *)
(* when a bridge wants its fee in the native coin.                            *)
NativeNotes(rq) == rq.flow = "lifi" /\ rq.native
NoteCount(rq)   == Len(rq.amounts) * (IF NativeNotes(rq) THEN 2 ELSE 1)

(* PrepareDepositOnChainUtxos, tronDepositAndWithdraw and                     *)
(* HinkalSolanaDepositAndWithdraw: note i of the main token is leaf i, its    *)
(* native note follows all of the main token's.                               *)
PendingLeaves == [i \in 1 .. NoteCount(req) |-> i]
Foreign(k)    == -1 - k
IsForeign(l)  == l < 0

(* What the contract takes of the owner's token: the totals of the prepared   *)
(* deposit, the split of a Tron one, or the amounts of a proofless deposit,   *)
(* which may name the token several times and pay its fee in it, added up.    *)
SumOf(s) == SumFunction(s)

ApprovalAmount ==
    IF req.token = "native" \/ OnSolana THEN 0
    ELSE SumOf([i \in DOMAIN req.amounts |-> NoteAmount(req, i)])
         + (IF req.flow = "proofless" THEN req.fee.flat ELSE 0)

-----------------------------------------------------------------------------
(* The contract.                                                              *)

IndexOf(root) == Len(root) - 1

(* The EVM contract finds a root it kept by its index, the others by itself.  *)
Accepted(root, index) ==
    /\ IsPrefix(root, leaves)
    /\ Len(root) \in bounds
    /\ req.flow \in {"evm", "lifi", "deposit"} => index = IndexOf(root)

(* resolveSolanaRootBuckets: the buckets the roots of the deposit fall in.    *)
SolanaRootBuckets(count) ==
    LET bucket == count \div BucketCap
    IN  IF (count % BucketCap) + NoteCount(req) > BucketCap
        THEN {bucket, bucket + 1}
        ELSE {bucket}

(* The deposit as it was built would not revert now.  The Tron contract takes *)
(* the b coordinates of a proof in the order the proof was built with.        *)
DepositFits ==
    /\ allowance >= ApprovalAmount
    /\ NeedsProof => Accepted(dep.root, dep.index)
    /\ OnTron => ~dep.swapped
    /\ OnSolana => SolanaRootBuckets(Len(leaves)) = dep.buckets

Grow(new) == /\ leaves' = leaves \o new
                /\ bounds' = bounds \union {Len(leaves) + Len(new)}

(* Another user's deposit.  On Solana it may fill the bucket.                 *)
OtherLeaf ==
    LET others == Cardinality({i \in DOMAIN leaves : IsForeign(leaves[i])})
    IN  /\ others <= MaxOthers
        /\ Grow(<<Foreign(others)>>)
        /\ overtaken' = (overtaken \/ (OnSolana /\ dep.pc # "start"))
        /\ UNCHANGED <<req, tree, allowance, earlier, dep, missed>>

(* The indexer puts the next leaf into the instance's tree.                   *)
AcceptLeaf ==
    /\ Len(tree) < Len(leaves)
    /\ tree' = Append(tree, leaves[Len(tree) + 1])
    /\ UNCHANGED <<req, leaves, bounds, allowance, earlier, dep, overtaken,
                   missed>>

(* Nothing looks at the allowance again before the transaction is executed.   *)
PastLastCheck ==
    \/ dep.wire # <<>>
    \/ dep.pc = "send" /\ (dep.gas \/ OnTron)

(* A transaction the owner sent before takes its part of the allowance.       *)
EarlierLands ==
    /\ earlier > 0
    /\ earlier' = 0
    /\ allowance' = IF allowance >= earlier THEN allowance - earlier ELSE allowance
    /\ overtaken' = (overtaken \/ PastLastCheck)
    /\ UNCHANGED <<req, leaves, bounds, tree, dep, missed>>

(* Transactions of an EVM account execute in the order of their nonces.       *)
InTurn == OnTron \/ OnSolana \/ earlier = 0

ApprovalMined ==
    /\ InTurn
    /\ dep.approval # "none"
    /\ allowance' = IF dep.approval = "reset" THEN 0 ELSE ApprovalAmount
    /\ dep' = [dep EXCEPT !.approval = "none"]
    /\ UNCHANGED <<req, leaves, bounds, tree, earlier, overtaken, missed>>

DepositLands(a) ==
    /\ InTurn
    /\ dep.wire[a] = "pending"
    /\ dep' = [dep EXCEPT !.wire[a] = IF DepositFits THEN "landed" ELSE "reverted"]
    /\ IF DepositFits
       THEN /\ Grow(PendingLeaves)
            /\ allowance' = allowance - ApprovalAmount
       ELSE UNCHANGED <<leaves, bounds, allowance>>
    /\ UNCHANGED <<req, tree, earlier, overtaken, missed>>

Landed == \E a \in DOMAIN dep.wire : dep.wire[a] = "landed"

(* The last block that may hold the Solana transaction has passed.            *)
BlockHeightPasses ==
    LET a == Len(dep.wire)
    IN  /\ dep.pc = "confirm" /\ dep.open
        /\ dep' = [dep EXCEPT !.open = FALSE,
                     !.wire[a] = IF @ = "pending" THEN "expired" ELSE @]
        /\ missed' = (missed \/ dep.wire[a] = "landed")
        /\ UNCHANGED <<req, leaves, bounds, tree, allowance, earlier, overtaken>>

Chain == \/ OtherLeaf \/ AcceptLeaf \/ EarlierLands \/ ApprovalMined
         \/ BlockHeightPasses \/ \E a \in DOMAIN dep.wire : DepositLands(a)

-----------------------------------------------------------------------------
(* Building the deposit.                                                      *)

chainVars == <<req, leaves, bounds, tree, allowance, earlier>>

Goto(pc) == dep' = [dep EXCEPT !.pc = pc]
Quiet     == UNCHANGED <<overtaken, missed>>

(* HinkalTransact has the enclave build the proof, on a root and the index    *)
(* that goes with it.                                                         *)
PrepareRemotely ==
    /\ dep.pc = "start" /\ NeedsProof /\ req.remote
    /\ dep' = [dep EXCEPT !.pc = "prepared", !.root = leaves,
                          !.index = IndexOf(leaves), !.swapped = OnTron]
    /\ UNCHANGED chainVars /\ Quiet

(* FetchOnChainRootHashAndIndex: two calls of an EVM contract, one of Tron's. *)
PrepareReadRoot ==
    /\ dep.pc = "start" /\ NeedsProof /\ ~req.remote
    /\ dep' = [dep EXCEPT !.pc = IF OnTron THEN "prepared" ELSE "index",
                          !.root = leaves, !.swapped = OnTron]
    /\ UNCHANGED chainVars /\ Quiet

PrepareReadIndex ==
    /\ dep.pc = "index"
    /\ dep' = [dep EXCEPT !.pc = "prepared", !.index = IndexOf(leaves)]
    /\ UNCHANGED chainVars /\ Quiet

(* HinkalProoflessDeposit: its data hold no state of the chain.               *)
PrepareProofless ==
    /\ dep.pc = "start" /\ req.flow = "proofless"
    /\ Goto("prepared")
    /\ UNCHANGED chainVars /\ Quiet

(* buildProoflessDepositInstruction names the root buckets.                   *)
PrepareSolana ==
    /\ dep.pc = "start" /\ OnSolana
    /\ dep' = [dep EXCEPT !.pc = "prepared",
                          !.buckets = SolanaRootBuckets(Len(leaves))]
    /\ UNCHANGED chainVars /\ Quiet

Prepare == \/ PrepareRemotely \/ PrepareReadRoot \/ PrepareReadIndex
           \/ PrepareProofless \/ PrepareSolana

-----------------------------------------------------------------------------
(* Approving the token.                                                       *)

(* A caller who asked for the transaction's data gets them.  A Solana deposit *)
(* has nothing to approve; a Tron deposit restores the order of its proof's   *)
(* b coordinates first.                                                       *)
BeginSubmit ==
    /\ dep.pc = "prepared"
    /\ dep' = [dep EXCEPT !.pc = IF req.returnTx THEN "done"
                                 ELSE IF OnSolana THEN "send" ELSE "allow",
                           !.swapped = IF OnTron THEN ~@ ELSE @]

(* Where the goroutine goes once the token is approved.                       *)
NextCheck == IF req.pre THEN "estimate" ELSE "send"

(* approveTokenToHinkal and ApproveTokens: an allowance that is large enough  *)
(* is left alone.  EVM polls it all the same.                                 *)
CheckAllowance ==
    /\ dep.pc = "allow"
    /\ Goto(IF allowance >= ApprovalAmount
            THEN IF OnTron \/ ApprovalAmount = 0 THEN NextCheck ELSE "poll"
            ELSE IF req.token = "usdt" /\ allowance > 0 THEN "reset" ELSE "approve")
    /\ UNCHANGED chainVars /\ Quiet

SendApproval(pc, kind, next) ==
    /\ dep.pc = pc
    /\ dep' = [dep EXCEPT !.pc = next, !.approval = kind]
    /\ UNCHANGED chainVars /\ Quiet

(* WaitForTransaction of EVM; on Tron the polls of the allowance do that.     *)
AwaitApproval(pc, next) ==
    /\ dep.pc = pc /\ dep.approval = "none"
    /\ Goto(next)
    /\ UNCHANGED chainVars /\ Quiet

(* WaitForErc20Approvals gives up without an error.                           *)
PollAllowance ==
    LET enough == allowance >= ApprovalAmount
        last   == dep.polls + 1 >= WaitAttempts
    IN  /\ dep.pc = "poll"
        /\ dep' = [dep EXCEPT !.pc = IF enough \/ last THEN NextCheck ELSE @,
                              !.polls = @ + 1]
        /\ overtaken' = (overtaken \/ (OnTron /\ ~req.pre /\ ~enough /\ last))
        /\ UNCHANGED chainVars /\ UNCHANGED missed

Approve == \/ CheckAllowance
           \/ SendApproval("reset", "reset", "resetWait")
           \/ AwaitApproval("resetWait", "approve")
           \/ SendApproval("approve", "approve", IF OnTron THEN "poll" ELSE "approveWait")
           \/ AwaitApproval("approveWait", "poll")
           \/ PollAllowance

-----------------------------------------------------------------------------
(* Sending it.                                                                *)

(* TransactCallDirect ignores an estimate that fails: SendTransaction makes   *)
(* its own then.  TransactCallDirectTron stops.                               *)
PreEstimate ==
    /\ dep.pc = "estimate"
    /\ dep' = [dep EXCEPT !.pc = IF OnTron /\ ~DepositFits THEN "failed" ELSE "send",
                          !.gas = DepositFits]
    /\ UNCHANGED chainVars /\ Quiet

(* SendTransaction estimates the gas of a request that has no limit, which    *)
(* fails when the call would revert.                                          *)
EstimateRefuses == ~OnTron /\ ~OnSolana /\ ~dep.gas /\ ~DepositFits

Broadcast ==
    /\ dep.pc = "send" /\ ~EstimateRefuses
    /\ \E answered \in BOOLEAN :
         dep' = [dep EXCEPT !.wire = Append(@, "pending"), !.open = TRUE,
                   !.pc = IF ~answered THEN "failed"
                          ELSE IF req.flow = "solanaDeposit" THEN "confirm" ELSE "done"]
    /\ UNCHANGED chainVars /\ Quiet

\* mutant: any failure is tried again.
RetryAnything(reason) == TRUE

(* retryableSendError: the node did not know the block hash, or no block      *)
(* could hold the transaction any more.                                       *)
Retryable(reason) == reason \in {"blockhash", "timeout"}

\* mutant: one attempt too many.
AfterFailureOnce(reason, attempts) ==
    IF Retryable(reason) /\ attempts <= SendRetries THEN "send" ELSE "failed"

(* SignAndConfirm after an attempt that failed.                               *)
AfterFailure(reason, attempts) ==
    IF Retryable(reason) /\ attempts < SendRetries THEN "send" ELSE "failed"

SolanaSendRefused ==
    /\ dep.pc = "send" /\ req.flow = "solanaDeposit"
    /\ \E reason \in {"blockhash", "refused"} :
         dep' = [dep EXCEPT !.wire = Append(@, "dropped"),
                            !.pc = AfterFailure(reason, Len(dep.wire) + 1)]
    /\ UNCHANGED chainVars /\ Quiet

(* The answer to the broadcast is lost: the transaction may be on its way.    *)
SolanaAnswerLost ==
    /\ dep.pc = "send" /\ req.flow = "solanaDeposit"
    /\ dep' = [dep EXCEPT !.wire = Append(@, "pending"), !.open = TRUE,
                          !.pc = AfterFailure("lost", Len(dep.wire) + 1)]
    /\ UNCHANGED chainVars /\ Quiet

(* A round of waitForConfirmation, which looks at the height before it looks  *)
(* at the transaction.                                                        *)
WaitForConfirmation ==
    LET a == Len(dep.wire)
    IN  /\ dep.pc = "confirm"
        /\ dep' = [dep EXCEPT !.pc =
                     IF ~dep.open THEN AfterFailure("timeout", a)
                     ELSE CASE dep.wire[a] = "landed"   -> "done"
                            [] dep.wire[a] = "reverted" -> "failed"
                            [] OTHER                    -> "confirm"]
        /\ UNCHANGED chainVars /\ Quiet

Send == \/ PreEstimate \/ Broadcast \/ SolanaSendRefused \/ SolanaAnswerLost
        \/ WaitForConfirmation

(* A call of the node, of the token or of the wallet fails.                   *)
DepositErrs ==
    /\ dep.pc \notin {"confirm", "prepared", "done", "failed"}
    /\ Goto("failed")
    /\ UNCHANGED chainVars /\ Quiet

DepositInit ==
    /\ req \in Requests
    /\ leaves = <<Foreign(0)>> /\ bounds = {1}
    /\ tree \in {<<>>, leaves}
    /\ allowance \in {0, Earlier, ApprovalAmount} \intersect Nat
    /\ earlier \in {0, Earlier}
    /\ dep = [pc |-> "start", root |-> <<>>, index |-> 0, buckets |-> {},
              swapped |-> FALSE, approval |-> "none", polls |-> 0, gas |-> FALSE,
              wire |-> <<>>, open |-> FALSE]
    /\ overtaken = FALSE /\ missed = FALSE
=============================================================================
