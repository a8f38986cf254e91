# Verification of the Hinkal Go SDK

This directory holds TLA+ models of the Hinkal Go SDK, the TLC configurations that check
them on small instances, and proofs of their main invariants for every value of the constants.
Every definition that models code is listed in `PROJECT.json` under `map` with the source
lines it stands for.

## 1. The system

The SDK lets an application hold notes (UTXOs) in Hinkal's shielded pool. Everything the pool
knows is on chain: commitments are leaves of a Merkle tree, spent notes are published as
nullifiers, and the contents of a note are an encrypted output that only its owner can read. The
SDK rebuilds the tree, the list of encrypted outputs and the set of nullifiers of each chain,
decrypts the outputs of its user, and builds transactions that spend notes and create others.

| Component | State it keeps | Operations | Interacts with |
| --- | --- | --- | --- |
| Event emitter, listener (`eventservice`) | watermark, `isReady`, registered processors, cancel function | `Init`, `RetrieveEvents`, `ProcessExternalEvents`, `IntervalClear`, a poll every 5 s | RPC node, snapshot server, snapshot services (callbacks under one mutex per chain) |
| Snapshot services and fetcher (`snapshot`) | tree, outputs, output of each commitment, nullifiers; the last files downloaded | `Init`, `AcceptEvent`, `SaveSnapshot` | emitter, instance |
| Merkle tree (`merkletree`) | nodes, reverse index, count, index | `Insert`, `GetRootHash`, sibling paths, `Contains`, `Clone` | snapshot services, proofs |
| Hinkal instance (`hinkal`) | per chain: services, tree, outputs, nullifiers; mutexes; rate-limiter entries | `ResetMerkle`, `ResetMerkleTreesIfNecessary`, the facade | everything |
| Wallet view (`balance`, `cache`) | per user and chain: decrypted outputs and the last output seen | `GetInputUtxoAndBalance`, `ResetCache`, input selection and padding | instance, transactions |
| Transact pipeline (`transactions`) | none between calls | pick, pad, prove, submit, mark as spent | wallet view, proofs, relayer |
| Stuck notes | the list taken at the start of a withdrawal | `HinkalWithdrawStuckUtxos` | wallet view, pipeline, enclave |
| Deposit and withdraw, speculative notes | pending leaves | deposit beside the proofs, then a schedule | tree, relayer |
| Bridges, NEAR intents, temporary wallets | nonces at the server, intents, salt cache | publish, poll, recover | services, other chains |
| Receive vaults (`receivevault`) | account cache, indices at the server | claim, register, recover | server, other chains |
| Enclave (`enclave`) | session key, verified handshake | build, verify, sign, finalise | enclave service |
| Proofs (`snarkjs`), keys, web3, api, types | none, or connections | conversions and remote calls | everything |

How they interact. `ResetMerkle` builds an emitter and two snapshot services per chain and stores
their state in the instance. From then on the emitter's goroutine hands the services the
events the snapshot server reports. Readers take the tree and the nullifier map by reference,
and the list of outputs as a copy of the slice header, each under its own read lock. A
transaction reads the wallet view, picks notes, proves them against the tree and submits; the
instance learns of the outcome only through the events.

What is hard about it, and what makes each part correct:

* *Synchronisation*: two files of different ages, a scan of an RPC node that may be behind them, a
  listener with a cursor of its own, and a reset that replaces all of it while the old listener
  may be anywhere. Correct when no event of a settled block is missing below the watermark,
  when the old and the new arrangement never feed services together, and when every reset ends.
* *Tree*: leaves arrive in any order, again, and with replaced values. Correct when a tree that is
  complete has the root of its leaves, and every path it gives leads to that root.
* *Wallet view*: reads under separate locks against maps a reset replaces, and a cache that is
  extended without a lock. Correct when no note is lost or counted twice.
* *Transactions*: partial failures after something was submitted; notes selected twice. Correct
  when a note is spent by one transaction only and what was submitted is reported.
* *Bridges and intents*: lost answers, retries, timeouts, crashes between registering and
  moving funds. Correct when funds can always be found again and nothing is published twice.
* *Receive vaults*: two claims at once. Correct when an address is given out once.

`PROJECT.json` lists the components with their files, and under `hazards` where each of these
bites.

## 2. Plan

In this order, the most important behaviour first.

1. `ChainSync` with `MCChainSync`, three runs, and `ChainSyncProofs`: done.
2. `MerkleTree`, `CommitmentStore`: the tree and `AcceptEvent`, against a reference root: done.
3. `WalletView`: the decryption cache against the served outputs, with concurrent readers,
   and `WalletViewProofs`: done.
4. `StuckWithdrawal`, a pipeline that spends chunk after chunk: done.
5. `RefundClaim`, an abstract claim, and `NearIntents`, which implements it: done.
6. `DirectDeposit`, and `ScheduledSend` on top of it: speculative tree, deposit in flight, schedule: done.
7. `ReceiveVault`, and `PrivateBridge` on top of it: vaults, temporary wallets, recovery: done.
8. `TransactRequests`, `ProofInputs`, `EnclaveAnswer`, `Transact`, each on top of the one before: done.
9. `SumTheorems`, `StuckWithdrawalProofs`, `NearIntentsProofs`, `PrivateBridgeProofs`, `CommitmentStoreProofs`: the
   invariants of the four modules, and that `NearIntents` implements `RefundClaim`, safety: done.
10. `ScheduledSendProofs`: `SpeculationSound`, `ScheduleHonoursRequest`, `DepositLandsOnce`; `ServedNeverRegresses` in `ChainSyncProofs`: done.
11. Left, in the models: the NEAR legs of a deposit-and-bridge, the public-fee deposit on Solana, the emporium flows.

Modules to be proved about use no recursive operators; constants carry named assumptions.

## 3. ChainSync

`ChainSync` models one chain of one instance: the chain itself, the snapshot server, the reset,
and for each reset (a *generation*) the emitter, its listener and its two services. Objects of
an old generation stay alive in the code after a reset, since goroutines hold them, so they stay
alive here.

| Variables | Code |
| --- | --- |
| `head`, `content`, `rpcLags` | the chain; `content[b]` is the event block `b` emits, or `Empty`; whether the client's RPC node may be behind |
| `srv`, `file` | the snapshot server's watermark and the two files it has published |
| `rst`, `gen`, `served`, `cached` | control of `resetMerkleTreeForChain`, generations built, the one in the instance's maps, the fetcher's copy of the files |
| `lock`, `todo` | `eventsFetchingMutex` (one per chain, shared by all generations) and the processors still to run |
| `wm`, `ready`, `hooked` | `latestBlockNumber`, `isReady`, `eventProcessors != nil` |
| `lis`, `cancel`, `done`, `fetchFrom`, `page`, `upTo` | the listener goroutine: control, cancel function, context, cursor, the answer in flight |
| `acc`, `tip` | events each service holds; which blocks the RPC scan read while they could be replaced (history) |

Actions follow the code statement by statement where another goroutine can come in between:
`ResetBegin`, `ClearOldCommitments`, `ClearOldNullifiers` (both services share one emitter, which is
cleared twice), `LoadCommitments`, `LoadNullifiers`, `InitLock`, `InitHead` or
`InitNothing`, `InitLogs`, `ProcessPage` per service, `InitDone`, `StoreChainState`, and the failures
`LoadFails` and `InitFails`; for the listener `ListenerStart`, `TickFetch`, `TickLock`,
`ProcessPage`, `TickApplied`, `TickMove`, `ListenerStop`. `Mine`, `Reorg` and `ServerScan` are the
environment. An event is a pair of block and content: what a service does with it is the
business of other modules.

Left out: the fan-out over chains, which share no state; chains the enclave proves for, which
keep no local state; the `inProgress` flag, whose test cannot be true under the mutex that
guards it; the polling delegate and `RetrieveEventsFromLatestBlock`, which nothing calls; the
client's persistence of snapshots, which does nothing. The Solana emitter and services follow
the same protocol over slots, but skip a transaction they cannot fetch, where the EVM scan fails as
a whole: `Coverage` is a claim about the EVM scan.

### Runs

| Run | Instance | Shows |
| --- | --- | --- |
| `ChainSyncSafety` | 3 blocks, depth 2, 2 resets, an RPC node that may lag or does not (`rpcLags`) | `Coverage`, `SingleFeeder`, `WatermarkMonotone`, `ServedNeverRegresses`, and the inductive invariants `IInv`, which has `TypeOK`, and `SuccessorInv` |
| `ChainSyncLive` | 2 blocks, depth 1, 2 resets | `ResetEnds`, `ListenerCatchesUp` |
| `ChainSyncLeak` | 1 block, 2 resets | `ClearedListenerStops` is violated |

Three blocks and depth two are the least with one block that can be replaced and two below it
that the server may have scanned up to different points, so the two files can have different ages and
both ends of a page can be off by one; two resets are the least in which one generation replaces
another. Contents are "nothing" and one event: a reorganisation turns one into the other.
Deadlock is not checked because the bounded chain and number of resets really stop.
A node that lags behind the chain makes a new generation serve less than the old one had: this
is why `ServedNeverRegresses` speaks of behaviours with one that does not (`~rpcLags`). It says that no
reset serves less, not that the served generation moves on: after a reset that failed nobody feeds it until the next.

`Coverage` excepts the blocks that the first scan read inside the reorganisation depth (`tip`): a
client scans up to the node's head and never reads those blocks again.

Fairness (`FairSpec`): a reset that has begun goes on, since each of its calls returns or fails;
processors run; each listener is scheduled, and its request is answered again and again, since a
failed poll leaves everything as it was and is repeated after five seconds. Nothing is asked of
the chain, the server, or those who call for a reset.

### Finding

`ChainSyncLeak`: `Init` starts the listener in a goroutine, and that goroutine is what registers the
cancel function `IntervalClear` calls. If the next reset clears the emitter before the
goroutine has run, nothing is cancelled; the goroutine then starts to poll and nothing can
stop it. The comment in `emitter.go:121` says `IntervalClear` stops the listener. The services
are not harmed (`SingleFeeder` and `Coverage` hold): its pages find no processors.

### Proofs

`ChainSyncProofs` proves, for every number of blocks, contents and resets and every depth,
`TypeOK`, `Coverage`, `SingleFeeder`, `WatermarkMonotone` and, for a node that does not lag, `ServedNeverRegresses`, from
`ChainSyncAssumption` (the bounds are positive naturals and `Empty` is a content).

`Coverage` alone is not inductive: it says nothing of a page in flight, or of a listener whose
cursor is not the watermark. `IInv` adds:

* `Frontier(g)`: the block up to which generation `g` is complete, read off its control state
  (the watermark before its listener starts, `upTo` when a page has been applied, else the
  block before the cursor). The watermark is at most one ahead of it, since `TickMove` advances it
  to the cursor.
* `Complete`: both services hold every event up to the frontier, and those blocks are safe, so that
  no reorganisation can take that back.
* `PageCovers` and `Applied`: the page in flight has every event of its range; a processor that is
  done has applied it.
* `MutexInv`: processors only run for the generation that holds the mutex. `ServerInv`: the
  server and the files stay behind the safe block. `ControlInv`, `ResetInv`, `FeederInv`: where the
  reset stands and what it knows of the generation it builds; that the old generation is
  disconnected before the new one has a listener.

`ServedNeverRegresses` relates two generations, of which `IInv` says nothing: that the new one is complete up to
its frontier does not tell how far the old one had come. `SuccessorInv` does, when the node does not lag. The successor asks the node for
its head after `InitLock`, and `BelowHead` says that no service has an event beyond the head; from then to `StoreChainState` the
served generation gets nothing, since it has no processors left and the mutex is the successor's (`Handover`), while `ReadTo`, how far the
successor has read, only grows, also under its listener, which may run before it is stored. With a node that lags, the successor may
have read less than what it replaces, and the property fails.

Each part has a lemma, one step per action. The liveness properties are
only model-checked: liveness under fairness is not something this prover does.

## 4. MerkleTree and CommitmentStore

`MerkleTree` is the sparse tree of `merkletree/impl.go` as a value: `leaf` and `inner`, the two parts of the
code's one map (`Nodes`; an index below the leaves is never inserted), `reverse`, `count` and `index`, with `Insert` (through `ForceInsert` and `Logarithm2`), `RootHash`, the sibling path
(`SiblingIndex`, `SiblingHashes`, `SiblingSides`), `Contains`, `BuildReverse` and, from the proof
code, `CommitmentPath`. The hash is a free constructor, so that two roots are equal only if
they hash the same leaves in the same order. `ReferenceRoot` and `PathRoot` define what a root and
a path should be without any of these.

`CommitmentStore` is the commitments service around such a tree, and a call of the wallet that reads the list it serves.

| Variables | Code |
| --- | --- |
| `chain`, `settled`, `reorgs` | the chain: the commitment of each leaf, which leaves can no longer be replaced, how often it was reorganised |
| `tree`, `outputs`, `byC` | `merkleTree`, `encOutputs`, `byCommitment` |
| `accepted`, `hole` | an `AcceptEvent` that replaces: the commitment it has yet to list, and the slot it is about to overwrite |
| `served`, `alias`, `stored` | what the instance's copy of the slice header shows, whether it still shares its backing array with `encOutputs`, and whether this service is the instance's |
| `reader`, `seen` | a call that goes through the served list, slot by slot, and what it has read |
| `moved`, `swapped`, `due`, `crossed` | history: commitments a reorganisation took from their index, whether it exchanged two; what the list showed when the call began, and whether a removal ran since |

`AcceptEvent` of an index that is free is one step (`AcceptNew`). Of an index that holds another commitment it is as many steps as
a reader can tell apart: `AcceptReplacement` (tree and map), `Shift` for each slot that `append(s[:i], s[i+1:]...)` moves, `Shrink`
of the service's own header, `ListAccepted`, which appends unless the output is listed (the early return), into the same array or a larger one.
`LoadSnapshot` is a new service with the server's snapshot, with or without a reverse index in the file; its new array is read by nobody until `StoreChainState`.
`Reorg` replaces a leaf by a commitment that was not seen before, or lets two commitments change places. A refresh of the
balance holds the chain's mutex for reading and so waits for the emitter (`runWithChainBalanceLocks`); the selection of inputs for a transaction holds nothing.

Abstractions. A commitment has one encrypted output, and outputs are unique. Events of any leaf of the chain can
be delivered at any time, which is more than the scan does. `Insert` is one step, though the tree has no mutex: what a proof reads of a tree that moves is the
matter of `ScheduledSend`. `StoreChainState` copies the header in one step, under a mutex that the emitter does not take. The code goes through the list up to three times
(`indexOfOutput`, `filterOwnedOutputs`, then the owned slots again); the model once.

| Run | Instance | Shows |
| --- | --- | --- |
| `CommitmentStore` | 3 leaves in a tree of 4 levels, one reorganisation, two commitments of each leaf, one reader | `RootIsReference`, `PathVerifies`, `OutputsMatchLeaves`, `ServedLosesOnlyMoved`, `ReadIsWhole`, and `IInv`, which has `TypeOK` |
| `CommitmentStoreStale` | 2 leaves | `AbsentCommitmentRefused` is violated |

Three leaves pass the powers of two 1 and 2, where the number of levels to update changes, leave room for a gap before the last,
and for a removal that moves two slots; a deeper tree only adds levels nothing is in. One reorganisation replaces or
exchanges: there is a stale reverse entry and a shift of the shared array. `RootIsReference` also
states when there is an answer at all: exactly when no leaf is missing below the last.

What the properties except is what the code does not do. Let A and B be leaves 1 and 2, and B and A after a reorganisation. The event of B at 1 replaces A in tree and map,
removes A's output and returns, for B's is listed; the event of A at 2 removes B's and lists A's. B is then a leaf whose output neither the list nor
the map has, until the next reset. So `OutputsMatchLeaves` and `ServedLosesOnlyMoved` speak of the commitments no reorganisation has
moved (`Steady`, `moved`), and so does `PathVerifies`, since the reverse entry of a commitment that moved and came back can name the wrong leaf. Such a removal that nothing follows
also leaves the last slot of the served header showing the last output again, which is why `ReadIsWhole` lets a reader see one twice then (`swapped`).
A selection that a removal overtakes can skip or repeat an output (`crossed`). Without each of these exceptions TLC finds the behaviour; no comment, document or test of the
repository says otherwise, so they are hazards and no findings.

*Finding* (`CommitmentStoreStale`). `forceInsert` adds a reverse entry for the new value and leaves the
one of the value it replaces. `Contains` then answers yes for a commitment that is not in the tree
any more, so `CalcCommitmentsSiblingAndSides` does not refuse it as its comment intends, and
its path is that of the leaf that took its place.

`CommitmentStoreProofs` proves `IInv`, `TypeOK`, `OutputsMatchLeaves`, `ServedLosesOnlyMoved` and `ReadIsWhole` for any number of leaves,
versions, reorganisations and reloads, and that the tree's counters tell when a leaf is missing (`RefusedWhileIncomplete`). That the first leaf's number is a positive
number is assumed with the tree's constants: powers are defined by recursion. The invariant:

* `ChainInv`, `LeavesInv`: no commitment is on the chain twice; a leaf that differs from the chain's was moved; the tree counts its leaves and knows the last.
* `OutputsInv`: the list as it will be when the slots behind the hole have moved (`Listed`) has no output twice and agrees with the map,
  but for the commitment still to be listed; what no reorganisation moved is in the map.
* `HoleInv`: the slot about to be overwritten holds an output that was moved or that the slot before it holds as well. So no moment of a shift loses an output.
* `HeaderInv`: a header on the service's array shows its slots, and behind them only what was moved or is shown before.
* `ReaderInv`: as long as no removal runs, what a reader shall find is in a slot that nobody writes, and if he is past it he has read it.

`RootIsReference` and `PathVerifies` stay with TLC. They are about the nodes above the leaves, which recursive functions compute; what these
give for every tree needs induction over data, which the prover does not do here.

## 5. WalletView

`WalletView` models what the calls of one user see of one chain: `GetInputUtxoAndBalance` with the
cache of decrypted outputs.

| Variables | Code |
| --- | --- |
| `head`, `emitted`, `nulls` | the chain: after each event, how many outputs and which nullifiers there are |
| `gen`, `list`, `seen` | the instance: the generation in its maps, the outputs each generation was stored with, and how far its live nullifier map has come |
| `cache` | `HinkalCacheInterface` on the cache device: the cursor `LastOutput` and the outputs, as a bag |
| `pc`, `length`, `map`, `found`, `all`, `offered` | a call: where it is, the list and the map it has read, the cache it found, `allUtxos`, what it returns |
| `known`, `older` | history: what the instance knew to be spent when the call began, and whether a reset has served an older view |

One action per access to shared state: `ReadOutputs`, `ReadNullifiers` (each under its own read
lock), `ResetCache`, `ReadCache`, `Extend` (decrypt what follows the cursor, write the whole cache) or
`CacheOnly` (the cursor is not in the list), `Filter`, `Return`. Between any two of them other calls,
`Listen` (the listener of any generation adds to the map it shares with readers) and `Reset`
(`storeChainState` with a list that may be shorter than the one before) can come.

Balance refreshes take two mutexes, transactions take none. The model takes none for any call, so its
behaviours include those of the calls that do. A call may fail at any point (`Return`), and the device may
hold nothing that can be parsed (`ReadCache`).

Abstractions. Outputs are numbered as they are emitted, their nullifiers have their
numbers, and the list of a generation is a prefix of them: there are no reorganisations here. A cursor is
then a number, and "not in the list" is "beyond its end". Instances with tree updates disabled,
which never leave `CacheOnly`, and blocked notes, which are another list with the same
treatment, are left out. `Filter` is one step though it looks up one note after the other: the
map only grows, and the properties speak about one note at a time. That the runtime may end
the process when a map is read and written at once is listed as a hazard; nothing can be said after it.

| Run | Instance | Shows |
| --- | --- | --- |
| `WalletView` | 3 outputs of which 2 are the user's, 4 events, one reset, 2 calls | `TypeOK`, `CacheExact`, `NoNoteHidden`, `NoSettledSpentOffered`, `IInv` |

Two calls are the least that overwrite each other's cache; one reset is the least that gives a call
the outputs of one generation and the nullifiers of another; the output between the user's two makes
a cursor that is not one of the cached outputs. The two calls are symmetric, and the properties are
invariants. Deadlock is checked: a call can always begin or return.

A call that began before a reset to an older view may well offer a note that is spent: `older`
excepts that from `NoSettledSpentOffered`, which is about calls and resets that cross, not about a
node that lags.

### Proofs

`WalletViewProofs` proves all five invariants for any number of outputs, events, resets and
concurrent calls, from `WalletViewAssumption` (the bounds are natural numbers, the user's outputs are
outputs). `IInv` adds to the properties:

* `ChainInv`: nullifiers are never taken back, no generation knows of an event that has not
  happened, and no call has the map of a generation that is not there yet.
* `CacheInv`: not only the cache but whatever a call *found* in it is exact, so that what the call
  writes later is exact too, whoever has written in between; and `all` is exact at least up to
  the end of the list the call has read.
* `KnownInv`: what the instance knew when a call began is in the map that the call will read, then in
  the map it has read, and at the end not in what it offers. This is where the order of the two
  reads would matter if a map could lose anything: it cannot, unless `older`.

The one lemma with arithmetic is `AddOwnedExact`: decrypting what follows the cursor of an exact bag
gives a bag exact up to the end of the list.

## 6. StuckWithdrawal

`StuckWithdrawal` models `HinkalWithdrawStuckUtxos` with local proofs (the paths through the enclave are in `Transact`). A note made for a scheduled transaction is
*blocked*; when the server no longer has a transaction for it, it is *stuck* and can be
withdrawn. The call lists the stuck notes of a token once, sorted by amount, and cuts the list into chunks. For
each chunk it builds a transaction over the chunk's total less the fee. That transaction is not given the notes of the
chunk: it reads the wallet view again and takes the largest notes that are stuck by then.

| Variables | Code |
| --- | --- |
| `emitted`, `spent`, `scheduled` | the chain's notes and nullifiers, the server's schedule |
| `txs` | transactions the relayer has received, whether it answered, whether their notes were marked and the marks lost (history), and whether they landed |
| `list`, `nullifiers`, `resets` | the instance's outputs and nullifier map; a reset replaces both |
| `pc`, `view`, `todo`, `total`, `fee`, `results` | the call: what it has read, `stuckUtxos[start:]`, `totalAmount`, the quoted fee, `results` |
| `firstTx`, `stuck`, `quiet` | history: where the call's transactions begin, what it listed, whether anything else touched the notes since |

`View` reads the wallet view (its steps are those of `WalletView`), `ListStuck` asks the server which notes
are not scheduled, `NextChunk` takes the next chunk if it is worth more than the fee, `Submit`
selects, pads, builds and hands over the transaction, `Mark` is `OnTxConfirm`, `Fail` is any error of any
step. The relayer's answer may be lost after it has taken the transaction (`Submit(FALSE)`).
`Execute`, `Cancel`, `Land`, `Listen`, `Emit` and `Reset` are what goes on meanwhile.

Since a list that is sorted by a total order is known by its elements, `todo` is a set and a chunk is its
`Largest` notes; the same operator describes the selection, which sorts in the same way. One
token, which also pays the fee; amounts are those of the instance. One call runs at a time: the code does not
exclude two, which would select the same notes.

| Run | Instance | Shows |
| --- | --- | --- |
| `StuckWithdrawal` | 3 notes of amounts 2, 3, 2, chunks of 2, fees 1 or 2, 2 calls, 1 reset | `SentOnce`, `HiddenOnlyIfSent`, `ResultsReported`, `QuietWithdrawsAll`, `PaidByNotes`, and `IInv`, which has `TypeOK` |

Three notes make a full chunk and one that is not, and equal amounts need the second sort key. With fee 2 a
chunk of one note of 2 is refused, with fee 1 it is not. The second call is the retry after an error. Deadlock is
not checked, because the calls are bounded.

`SentOnce` says exactly when a note can be sent twice: after a lost answer, or after a reset that has replaced
the map the mark was made in. Both do happen in the model; that the contract then takes only one of the two
is what `PaidByNotes` relies on. `QuietWithdrawsAll` is the agreement of chunks and selection when nothing
interferes.

`StuckWithdrawalProofs` proves all of these properties for any number of notes, amounts, fees, chunk
size, calls and resets, from `StuckWithdrawalAssumption` (amounts are positive, fees natural). The inductive invariant is
`IInv`; besides the properties it has:

* `MarkInv`: an acknowledged transaction is marked before the call goes on, and its notes stay in the map until
  a reset forgets them. That is why the second selection cannot see them (`SentOnce`).
* `ReportInv`: what the call will report are its marked transactions, at every step and not only at the end.
* `QuietInv`: while nothing interferes, the notes that can be selected are the list less what was sent, and the
  chunks still to be built are what is left of it; so the total of the chunk, computed from the list, is the sum of the
  selection, made from a newer view.
* `SpendInv`: a transaction's sums balance, and landed transactions share no note.

Sums over sets of notes need induction, and the library's induction theorems take an operator as a parameter,
which the provers here cannot instantiate. `SumTheorems` therefore derives what it needs of `SumFunctionOnSet` by the least
counterexample: among the sets for which a fact fails, one of least cardinality contradicts it (`LeastSubset`). It
gives existence and uniqueness of the recursive function that the community module chooses, and from them `SumAdd`, `SumRemove`,
`SumUnion` and `SumAgree`, which `NearIntentsProofs` uses as well.

## 7. RefundClaim and NearIntents

`RefundClaim` says what a claim of a refund promises: it takes the listed amount once or never, it is
reported as done only when it was taken (and delivered, on a bridge whose deliveries the client can see), and it
returns. `NearIntents` models how: `StartRecoverStuckBridgeBalance` and the part of the NEAR intents SDK in
`near_intents_withdrawal.go` and `near_intents_hot_bridge.go` that it uses.

| Variables | Code |
| --- | --- |
| `asset`, `claim`, `funds` | the refund, what each claim has listed, what the accounts hold on the contract |
| `chainSalt`, `relay`, `late`, `bridge` | the contract's salt, the relay's knowledge of each payload, requests given up on that still arrive, the bridge's status |
| the client's variables | control of each claim, the shared salt manager, the salt of each payload, its debit, the attempts and polls counted |
| `lost`, `refusedAt` | history: claims with a publish request that was not answered, the contract's salt when a payload was refused |

One step of a claim is one request or one access to the shared salt: `Prepare` (bridge, fee, validation),
`CachedSalt`, `FetchSalt` and `StoreSalt`, `Answered` and `Unanswered` for an attempt to publish, `RefreshSalt`, `Settle`, `Watch`.
`FindBridge`, the fee of each bridge, the quotes with their fallback and the intents each bridge makes are operators over
the kind of asset. The relay, the contract and the bridges are external and do what the client's handling of their answers supposes.

| Run | Instance | Shows |
| --- | --- | --- |
| `NearIntents` | two claims of a refund the POA bridge withdraws, one of each other kind; amount 3, fees up to 2, one rotation, two attempts, two polls, two errors | `IntentsSpendExactly`, `FreshSaltOnRetry`, `FailureIsHonest`, `IInv`, which has `TypeOK`, and that it implements `RefundClaim` (`ImplementsRefundClaim`) |

Two claims are the least that share a salt and the funds of an account; two attempts are the least with a retry; a fee of 2 of
an amount of 3 leaves something and can be exceeded. `OneClaimUnlessPoa` (an action constraint) leaves the other assets to
one claim, since the bridges differ only in fees, intents and answers.

Fairness: the goroutine of each claim goes on. Nothing is assumed of the services: every wait in the code
has a limit, and that is why `RefundClaim`'s `Report` is fair. Simplifications: a retry loop around a read is one
step; prices are one to one; one asset, with one intent per NEAR transaction, so that the withdrawal described is the first of the
token; cancellation of the context is not modelled.

`FailureIsHonest` excepts claims with a lost answer. The code reports those as failures too although the intent may be
executed; `RefundClaim` therefore promises nothing about a failure.


`NearIntentsProofs` proves the invariants for any number of claims and accounts and any bounds, and the safety part of the
refinement: `RefinesRefundClaim` states `Abs!Init` and `[][Abs!Next]_(Abs!vars)`. It is left to TLC that claims return, for
which `ImplementsRefundClaim` needs the fairness of the claims. The assumption names the types of the constants.

* `IntentsExact`: for each bridge, kind of asset, fee and quote, the intents take the claimed amount and no native token
  they do not buy. It goes over the shapes of a payload (`PoaExact`, `SwapAndWithdraw` for a swap, a storage deposit and a withdrawal,
  `WithdrawExact`), with the sums of `SumTheorems` and the bounds of `FeeQuotes` (`FeeQuotesSound`).
* `ClaimOK`: the payload of a claim exists only when its debit is exact; requests and errors are counted.
* `SaltOK`: once a claim has cleared the cache, what is in the cache, or on its way there, was read after the
  refusal. `FreshSaltOnRetry` alone is not inductive: a salt asked for before the refusal could still be
  stored; the lock, which `RefreshSalt` waits for, rules that out.
* `RelayOK`: at most one of a claim's two payloads is ever known to the relay, since the second is signed only when the
  first was refused for a salt that the contract has left for good. The once of `RefundClaim`'s `Take` rests on it (`OneCounts`).

A step of one claim leaves the parts of the others alone (`Elsewhere`), so each part has a lemma for a claim's own step and one for
the services.

## 8. DirectDeposit and ScheduledSend

A deposit-and-send runs two goroutines: one submits the deposit, the other builds the withdrawals of the
recipients against a tree to which the deposit's leaves are added in advance. When both are done, the batch is scheduled
to run after the deposit. `DirectDeposit` is the first goroutine, and every other deposit of the SDK; `ScheduledSend` extends
it by the second, on EVM, Tron and Solana and over LiFi.

| Variables | Code |
| --- | --- |
| `req` | the call: flow, amounts, token, fee, local or remote proofs, a gas estimate made before |
| `leaves`, `bounds` | the contract's tree and the lengths at which it kept a root (external) |
| `tree` | the instance's tree, which the indexer fills leaf by leaf |
| `allowance`, `earlier`, `dep` | what the contract may take, an earlier transaction of the owner that takes of it, the deposit's goroutine with each transaction on the wire |
| `call`, `batch`, `worker`, `nonces`, `sched` | what the caller knows, the other goroutine and the proof it works on, registered temporary wallets, the relayer's schedule |
| `overtaken`, `missed`, `stirred` | history: the chain moved after the deposit's last check; a deposit landed that the confirmation loop did not see; the tree moved while a withdrawal was built on it |

A root is the sequence of the leaves it commits to, so that "provable on chain" is a comparison of
sequences. The goroutines interleave at every call to a node and at every read of the shared tree.

| Run | Instance | Shows |
| --- | --- | --- |
| `ScheduledSend` | 17 calls of 7 flows, one to three recipients, one deposit of another user, an earlier transaction that takes 3, two polls, two attempts, buckets of 2, batches of 2 | `SpeculationSound`, `ScheduleHonoursRequest`, `DepositLandsOnce`, `CallEnds`, and `IInv`, which has `TypeOK` |

One foreign leaf is enough to shift an index; two recipients are the least of which the indexer can have one leaf and not the other,
three, with batches of 2 in the enclave, the least with a second batch, whose recipients must not be taken for those of the first; buckets of two make a
deposit cross a bucket. Fairness for `CallEnds`: goroutines run, a transaction that was sent is mined, the chain's height
passes a transaction's last block.

The history variables name what the code does not promise. The tree has no lock: `Contains` (`merkletree/impl.go:109`) and `Clone` (`:258-276`) read maps that
`Insert` writes in the listener's goroutine. `ScanLeaf` asks for one leaf at a time, and the copy takes two steps: `BeginClone` remembers the tree as the copying begins, and
`CloneTree` ends it with the tree of then, of now, or with the count of one and the nodes of the other (`Copies`; the maps are copied before count and index). A single `Contains` or `Insert` is one step; the runtime may also end
the process on a concurrent access to a map, of which nothing can be said. `SpeculationSound` excepts withdrawals during
whose construction the tree moved, or before which another user's deposit came (`stirred`): the
comment at `speculative_utxo.go:59-61` ("the live tree with those leaves appended, or the live tree itself") is
true of a tree that stands still. What the property catches is a worker that harms the shared tree, or misjudges one that stood still. `DepositLandsOnce` excepts a deposit overtaken on chain after its last check (with a gas
estimate made before, the broadcast makes no second one; on Tron the wait for an allowance ends without a result and the deposit is sent all the same),
and a Solana deposit whose confirmation was missed: height and status are two calls.

The contract's cut is taken to be rounded up. Native notes of no value that go with a bridge's fee are scheduled
like the others; what the contract makes of them is not known here.

### Proofs

`ScheduledSendProofs` proves `IInv`, `TypeOK`, `SpeculationSound`, `ScheduleHonoursRequest` and `DepositLandsOnce` for any set of calls, of any
number of recipients, amounts, fees and rates, and for any number of foreign deposits, polls, attempts, buckets and batches. The
assumptions: `DepositAssumption` (the bounds are naturals, those that count attempts, buckets and basis points positive),
`BatchAssumption` (a batch holds at least one proof) and `RequestAssumption` (a call is of one of the seven flows, its amounts are integers, its flat fee a natural
and its variable rate below the whole; only a deposit without a send can ask for the transaction's data). Calls with no amounts or with negative ones are
among them: that nothing is sent for those is part of the proof.

None of the three properties is inductive: they speak of what was scheduled or has landed, and nothing of what is on its way. `IInv` adds:

* `DepositInv`, control of the deposit: nothing is on the wire before `send`; only a Solana deposit that waits for its confirmation sends again;
  of all attempts only the last can be pending, or have landed without having been missed. Hence it lands once.
* `FitInv`, what the contract checks of a deposit, as of the last look at it: its root is one the contract keeps, under its index once the
  gas has been estimated, for the root and the index are two calls; the allowance and the buckets suffice unless `overtaken`. Hence it lands.
* `LeavesInv`: before the deposit lands every leaf is another user's; afterwards its leaves lie together at the end of a length at which the
  contract kept a root.
* `Provable`, of a root and an index that a withdrawal is proved on: before the deposit lands, the chain's leaves with the deposit's added, so
  that the root exists once it lands; afterwards, a root the contract accepts that holds the deposit's leaves. `ItemsInv` says so of what is built,
  unless its tree was stirred, and `WorkerInv` of the tree a worker reads. The lemma `UpToDate` is the heart of it: a worker that scans the tree leaf by leaf,
  and has met none of the pending ones, may append them all, as long as the tree stood still.
* `BatchInv`, `Asked`: the groups before the current one are complete or one of their workers has failed, and what is built is what was asked for.
  That the amount is covered after the contract's cut (`NetCovers`) is arithmetic of rounded quotients, with a lemma per rounding.
* `ScheduleInv`: what is scheduled is the batch, behind the last deposit on the wire.

The proof has one lemma per action, grouped by who acts: the chain and the indexer, the deposit's goroutine, the batch and its workers, the caller.

## 9. ReceiveVault and PrivateBridge

A receive vault is a deposit address the wallet derives from an index, registers and hands out; the relayer shields what
arrives there until the address expires, and the owner scans for the rest. `ReceiveVault` models the account: load (shared between
callers by `restoreGroup`), reuse or claim, version, index, registration, scan, sweep. `PrivateBridge` extends it by the bridges that
deliver to such an address from the private balance, over NEAR and over LiFi with a temporary wallet, and by the recovery of what a bridge hands back to that wallet.

| Variables | Code |
| --- | --- |
| `now`, `versions` | the clock; versions of the factory on chain |
| `server`, `blocks` | the enclave's records of the account; what the relayer refused |
| `flight`, `plan`, `call`, `issued` | the shared load; what each caller has yet to call and is doing; addresses handed out (history) |
| `pay`, `sweeps` | where each payment is; signed sweeps on their way |
| `nonces`, `recoveries`, `drawn` | temporary wallets the backend knows; recoveries on their way; what they took from the private balance (history) |

| Run | Instance | Shows |
| --- | --- | --- |
| `PrivateBridge` | two callers in eight pairings of plans, a third party that pays, a wallet of the old key scheme with money, two chains, three ticks, one upgrade | `NothingStranded`, `AddressSuits`, and `IInv`, which has `TypeOK` |

An address lives two ticks, a bridge wants one left, a sweep is valid for one: the least in which an address can be too old
for a bridge and not expired. Each session pairs the plans that meet: two claims, a claim and a rescue, two
recoveries of one wallet. Refunds of 0, 1 and 4 with a flat fee of 1 are worth nothing, the fee, and more. An upgrade
of the factory comes while a claim is under way (`UpgradeWhenClaiming`), where it matters. Deadlock is not checked: an
application may be done.

`NothingStranded` holds through a crash between any two steps, because the nonce and the vault are registered
before money moves, and because both key schemes are tried. `AddressSuits` excepts claims
during which another one registered: the index is read and registered in two calls, and both get the same address (the payments are not lost by that:
`NothingStranded`). It also excepts NEAR quotes that took longer than the margin of
`ResolveBridgeVaultAddress`. A wallet's money in a token whose price is not known, or that is taken for spam or volatile, is not listed by
`isRecoverableBalance`; its nonce is known all the same, and `NothingStranded` asks for the listing of known tokens only.

Simplifications: one refund per wallet; fees in the recovered token; what remains in a wallet after a recovery is
ignored; recoveries equal in every field count as one; the request to register carries no expiry, so the
enclave counts its own; senders pay on chains of the network. The flow "public" contributes its nonce and its refund only.

`PrivateBridgeProofs` proves `IInv`, `TypeOK`, `NothingStranded` and `AddressSuits` for any number of callers, payments, chains, versions
and earlier records, and any lives of addresses and signatures. The assumptions describe what the sessions before left behind:
`ServerAssumption` (records live no longer than any, what is not the account's has another owner, one record is the newest),
`SessionAssumption` (money that earlier sessions put in a vault or in a temporary wallet is on record there), `HabitAssumption` (senders pay on the
network's chains). That one record is the newest is true of every finite set of records, but takes induction. A payment is named after the caller that makes it, so
a caller bridges at most once; how many callers there are is free. Neither property is inductive; `IInv` adds:

* `Backed`, the heart of `NothingStranded`, for money that is still on the way too: the vault it goes to is on record and the nonce of its temporary
  wallet is known, before it moves. `CallOK` has it one step earlier, of the call that is about to move it.
* `ServerInv`: a registration replaces at most the record of its own address, by one that lives longer, since no record of the account
  outlives one registered now. So a vault on record stays so, and watched as long as it was (`Covers`).
* `CallOK` and `FlightInv`: what a call has read and not yet acted on, its own or a shared load, is still true enough when it
  acts: records only grow, the newest index only if another call registered in between (`overlapped`).
* `OnTime`: what a quote of NEAR promised within the margin is before the end of the address. `IssuedInv`: addresses handed out are on
  record, and distinct where the caller asked for that.
* `HoldsOrHeld` and `RecoveryOK`: a recovery is computed from a balance that is still there or was taken by another recovery; one whose fee exceeds the balance, for which the
  private balance would pay, is only ever signed for a wallet that is empty when it arrives. So `drawn` stays zero.

What every step leaves alone is stated once (`RecordsKept`, `PayKept`, `Carries`), and so is the invariant of those who did not move: `CallMoves` and `CallActs` for the step of
a caller, `WorldMoves` for the rest, which settle, sweep, refund and recover. Each action then has a lemma of its own.

## 10. TransactRequests, ProofInputs, EnclaveAnswer and Transact

Every private transaction goes through one pipeline. `TransactRequests` is what each flow (withdraw, transfer, swap, claim, deposit, for
oneself or another, the send of a note, the split of a Tron deposit) asks of it: fees merged into the balance changes, the account that is
paid, the notes that must be spent; a flow that refuses its arguments makes no request. `ProofInputs` chooses and pads the inputs, makes the
outputs, and says what the message binds. `EnclaveAnswer` is what the enclave may answer when it builds the transaction, and what the client
checks before it signs (`construct_tx_enclave_verify.go`). `Transact` runs several calls of one wallet over these, on EVM, Tron and Solana.

| Variables | Code |
| --- | --- |
| `setup` | the kind of chain; whether the enclave makes the proof; whether the build can make one itself |
| `unspent`, `view` | notes the contract has not seen spent; those the wallet takes for unspent, which lags |
| `calls` | per call: the ask, the control, the request, inputs and outputs or the enclave's jobs, what was submitted, how many hashes came back, the answer to the user |
| `signed`, `pool` | every signature with its call (history); messages submitted and not executed |

`resolveTransactRelay`, `buildProofLocally`, `SignLocally`, `Prove` and `TransactCallRelayer` or `TransactCallDirect` are the local path;
`ResolveRelay`, `prepareEnclaveJob`, `FinalizeTxEnclaveCallRelay` or `FinalizeTxEnclaveCall` the enclave's; `PrepareStuck` and
`stuckWithdrawViaEnclave` or `stuckWithdrawSolanaViaEnclave` the stuck notes', job after job. `HandBack` is a caller that
submits the proof himself. `Execute` is the contract, which spends a note once.

| Run | Instance | Shows |
| --- | --- | --- |
| `Transact` | three kinds of chain with the enclave, a build without and one with a prover; calls of each flow, with the fee in the token sent, the one bought, and a third; four notes of a token, circuits of 2 and 3 inputs; a second call that wants the same notes | `TypeOK`, `SignedAsAsked` |
| `TransactPair` | the same | `PairIsCallers` is violated |

Four notes of one token against a large circuit of three are the least where the selection cannot take all; amounts are chosen so that
a call needs one note, two, three, or more than there are. Rates are in tenths. The second call makes the first
one's view stale. There is no liveness: calls end whenever a service fails, and `CHECK_DEADLOCK FALSE` says that they end.

The enclave's answer reads the request right, or has one thing wrong: a field misread silently or openly, a
stranger's note, a unit missing with or without a consistent change, another's pair, wrong dimensions, notes other than those pinned, another relay or none with the fee or without,
sealed outputs of no use. An answer about stuck notes has one job with a thing wrong, or a note in two. `SignedAsAsked`
says that nothing is signed that spends, pays or costs anything but what was asked for, with three parts of the message that it leaves open, because the client takes them from the answer as they are:

* The relay, on EVM and Tron: the client hashes `response.Relay` whatever it says (`:806-824`, `:870-873`), and a call that gave no address pays to it. A relay
  that is not the one asked for gets the fee; with none the contract takes no fee, and what was set aside for it goes to the account of the transaction. So `PaysAsAsked` is exact
  with a relay (`relayed`) and a lower bound without.
* The sealed outputs (`encryptedOutputs`, `onChainEncryptedOutput`, `:878`, `:1177-1191`): the note a message makes is the recipient's, but whether he can open it the client does not see.
* The stealth pair on Solana, see below. On Tron it is no part of the message, nor are created notes (`:632-636`).

A note listed twice in one transaction, which the contract refuses, is not among the answers. A withdrawal of stuck notes reports
every hash it was given (`HashesReported`), but for a failed one on Solana, which returns the error alone (`withdraw_stuck_utxos.go:398-401`).

*Finding* (`TransactPair`). A swap asks the contract to create the note of what was bought, and the note goes to the owner of the message's stealth pair. The EVM and Tron check asks
whether the pair is the caller's (`verifyAssertTxLevelStealthPairOwnedByCaller`, with the comment "so it must be caller-owned"); `verifyPrepareSolanaTxResponse` hashes
the pair of the answer and does not ask. TLC gives the swap that is signed with another's pair. The comment names the Solidity contract, and what the Solana program makes of
the pair is not in this repository.

Hashes, field wrapping, commitments and nullifiers are one-to-one: a message is the record of what its hash binds. So the model does not compare
the two computations of the hash. (They differ in layout: the local one, `ComputeSignedMessageHashEvm`, packs all fields in one hash without chain and
contract, the check of the enclave's answer hashes two parts with both; and the local path uses the EVM layout on Tron.) A token is worth one of any other; the slippage,
computed in floats, is exact. Transfers have one token: of more than one, only the first token's amount is delivered.

`GenerateZkProofSelf` returns `ErrSelfProvingNotImplemented` in this build: with `prover` FALSE, as here, the
local path signs and then fails. The runs with `prover` TRUE, and the local paths of `StuckWithdrawal`, `ScheduledSend` and
`PrivateBridge`, are about a build that has one. On Solana the facade's `Withdraw` ignores `isRelayerOff`: a withdrawal the user asked to
submit himself goes through the relayer, for a fee. The proof that `FinalizeTxEnclaveCall` hands back is not
compared with the message signed before; the contract is what binds it.

## 11. What is proved and what is only checked

Proved for every value of the constants: the theorems of `ChainSyncProofs`, `CommitmentStoreProofs`, `WalletViewProofs`,
`StuckWithdrawalProofs`, `NearIntentsProofs` (with the safety part of its refinement), `ScheduledSendProofs` and `PrivateBridgeProofs`, with the
lemmas on sums of `SumTheorems`. Checked on the instances above only:

* Liveness: `ResetEnds`, `ListenerCatchesUp`, `CallEnds`, and the returning of claims in `ImplementsRefundClaim`. These provers do not reason about
  fairness and `ENABLED`.
* `RootIsReference` and `PathVerifies` of `CommitmentStore`. What the recursive functions of `MerkleTree` compute for every tree is
  induction over data.
* `TypeOK` and `SignedAsAsked` of `Transact`. The amounts of its requests and of its proof inputs are folds of sequences and its notes are put in
  order by a library's sort; what these compute for every sequence is induction over data as well.

Each inductive invariant is an invariant of a run, so that TLC has seen it hold on the small instance.

Three runs expect a violation, `ChainSyncLeak`, `CommitmentStoreStale` and `TransactPair`; they are the findings of sections 3, 4 and 10.

## 12. What is not modelled, and why

The witness formats, hashes, curves and encryption are pure functions without control; notes,
commitments and events enter as opaque values. HTTP and RPC clients are calls that return, fail, or whose answer is lost.
Tables, types, ABI bindings and account layouts hold no behaviour. Quotes, prices and gas are parameters of a request.
The rate limiter of the facade is a map and a clock beside everything else. Left for later are the NEAR legs of a deposit-and-bridge, the
Solana deposit that pays a public fee (`solana_deposit.go:407-491`), `proxy_send` and `proxy_to_private`, and the emporium operations of a flow. The
Solana emitter follows the protocol of section 3, except that it skips what it cannot fetch. `PROJECT.json` says for each component what is left out of it.
