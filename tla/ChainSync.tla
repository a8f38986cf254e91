----------------------------- MODULE ChainSync -----------------------------
(***************************************************************************)
(* How one chain of a Hinkal instance is synchronised: the snapshot files, *)
(* the initial scan of the RPC node, the update listener that polls the    *)
(* snapshot server, and resetMerkleTreeForChain, which replaces the whole  *)
(* arrangement while the listener it replaces may still be at work.        *)
(*                                                                         *)
(* Every reset builds a new emitter with two new snapshot services. Both   *)
(* are objects that outlive the reset that built them, so they are indexed *)
(* here by a generation number. An event is a pair <<block, content>>: all *)
(* that the synchronisation promises is which events each service holds.   *)
(***************************************************************************)
EXTENDS Integers, FiniteSets

CONSTANTS
  MaxBlock,   \* bound: the highest block number that is ever mined
  Contents,   \* what a block can hold for the Hinkal contract
  Empty,      \* the content of a block that emits no event of the contract
  Depth,      \* GetReorgDepth: how many blocks at the tip may be replaced
  MaxGen      \* bound: how many times the chain is reset

ASSUME ChainSyncAssumption ==
  /\ MaxBlock \in Nat \ {0}
  /\ Depth \in Nat \ {0}
  /\ MaxGen \in Nat \ {0}
  /\ Empty \in Contents

Blocks   == 1..MaxBlock
Gens     == 1..MaxGen
Services == {"commitments", "nullifiers"}
Event    == Blocks \X (Contents \ {Empty})
SnapFile == [latest : 0..MaxBlock, upTo : 0..MaxBlock]

VARIABLES
  head,       \* the chain: number of its last block
  content,    \* the chain: content[b] of block b
  rpcLags,    \* whether the client's RPC node may be behind the chain's head
  srv,        \* snapshot server: the last block it has scanned
  file,       \* snapshot server: file[s], the published snapshot of service s
  rst,        \* control of resetMerkleTreeForChain (its per-chain mutex is held unless "idle")
  gen,        \* number of emitters created so far
  served,     \* generation stored in the Hinkal maps by storeChainState, 0: none
  cached,     \* SnapshotFetcherService.cached of the generation being built
  lock,       \* generation whose emitter holds eventsFetchingMutex, 0: free
  todo,       \* processors of the page being processed that have not run yet
  wm,         \* wm[g]: latestBlockNumber, the watermark of emitter g
  ready,      \* ready[g]: isReady
  hooked,     \* hooked[g]: eventProcessors is not nil
  lis,        \* lis[g]: control of the update listener goroutine
  cancel,     \* cancel[g]: cancelableListener.cancel is not nil
  done,       \* done[g]: the listener's context is cancelled
  fetchFrom,  \* fetchFrom[g]: first block the listener asks the server for
  page,       \* page[g]: events retrieved and not yet processed
  upTo,       \* upTo[g]: the block the retrieved page reaches
  acc,        \* acc[g][s]: events that service s of generation g holds
  tip         \* tip[g]: blocks the RPC scan read while the chain could replace them
              \* (a history variable: no action reads it)

chainVars == <<head, content, rpcLags>>
serverVars == <<srv, file>>
resetVars == <<rst, gen, served, cached>>
mutexVars == <<lock, todo>>
emitterVars == <<wm, ready, hooked, lis, cancel, done, fetchFrom, page, upTo, acc, tip>>
vars == <<chainVars, serverVars, resetVars, mutexVars, emitterVars>>

-----------------------------------------------------------------------------
(* Helpers *)

\* safeReorgBlock(latest, reorgDepth)
SafeReorgBlock(latest, depth) ==
  IF latest + 1 <= depth THEN 0 ELSE latest + 1 - depth

Safe == SafeReorgBlock(head, Depth)

\* watermark.advance: the compare-and-swap loop raises the value and never lowers it
Advance(cur, v) == IF v <= cur THEN cur ELSE v

\* Mutant: the second snapshot overwrites the block of the first one.
AtMostLastWins(cur, v) == v

\* watermark.syncFromAtMost once synced is set: the loop only lowers the value
AtMost(cur, v) == IF v >= cur THEN cur ELSE v

\* The events that the blocks lo..hi emit on the chain as it stands.
EventsInRange(lo, hi) ==
  {<<b, content[b]>> : b \in {c \in Blocks : lo <= c /\ c <= hi /\ content[c] # Empty}}

\* DeserializeSnapshot: the server saves a snapshot while it processes a page, before the
\* watermark follows, so the payload reaches upTo and the file says latest. A commitments
\* file that says 0 is read as a new, empty tree.
Payload(s, f) ==
  IF s = "commitments" /\ f.latest = 0 THEN {} ELSE EventsInRange(1, f.upTo)

\* emitter.processEvents runs the processors that are registered when it starts.
Processors(g) == IF hooked[g] THEN Services ELSE {}

Put(f, g, v) == [f EXCEPT ![g] = v]

-----------------------------------------------------------------------------
Init ==
  /\ head = 0
  /\ content = [b \in Blocks |-> Empty]
  /\ rpcLags \in BOOLEAN
  /\ srv = 0
  /\ file = [s \in Services |-> [latest |-> 0, upTo |-> 0]]
  /\ rst = "idle"
  /\ gen = 0
  /\ served = 0
  /\ cached = [s \in Services |-> [latest |-> 0, upTo |-> 0]]
  /\ lock = 0
  /\ todo = {}
  /\ wm = [g \in Gens |-> 0]
  /\ ready = [g \in Gens |-> FALSE]
  /\ hooked = [g \in Gens |-> FALSE]
  /\ lis = [g \in Gens |-> "none"]
  /\ cancel = [g \in Gens |-> FALSE]
  /\ done = [g \in Gens |-> FALSE]
  /\ fetchFrom = [g \in Gens |-> 0]
  /\ page = [g \in Gens |-> {}]
  /\ upTo = [g \in Gens |-> 0]
  /\ acc = [g \in Gens |-> [s \in Services |-> {}]]
  /\ tip = [g \in Gens |-> {}]

-----------------------------------------------------------------------------
(* The chain and the snapshot server *)

\* The chain grows by a block.
Mine(c) ==
  /\ head < MaxBlock
  /\ head' = head + 1
  /\ content' = [content EXCEPT ![head + 1] = c]
  /\ UNCHANGED <<rpcLags, serverVars, resetVars, mutexVars, emitterVars>>

\* A block that is not yet safe is replaced by another one.
Reorg(b, c) ==
  /\ b > Safe /\ b <= head
  /\ c # content[b]
  /\ content' = [content EXCEPT ![b] = c]
  /\ UNCHANGED <<head, rpcLags, serverVars, resetVars, mutexVars, emitterVars>>

\* The snapshot server, an emitter with isServer set, retrieves the events up to a safe block.
\* Its services save a snapshot from within processEventsPage (pub: those that do), when
\* its watermark is still where the page starts.
ServerScan(to, pub) ==
  /\ srv < to /\ to <= Safe
  /\ srv' = to
  /\ file' = [s \in Services |-> IF s \in pub THEN [latest |-> srv, upTo |-> to] ELSE file[s]]
  /\ UNCHANGED <<chainVars, resetVars, mutexVars, emitterVars>>

-----------------------------------------------------------------------------
(* resetMerkleTreeForChain *)

ResetBegin ==
  /\ rst = "idle"
  /\ gen < MaxGen
  /\ gen' = gen + 1
  /\ rst' = IF served = 0 THEN "loadCommitments" ELSE "clearCommitments"
  /\ hooked' = Put(hooked, gen + 1, TRUE)
  /\ UNCHANGED <<chainVars, serverVars, served, cached, mutexVars,
                 wm, ready, lis, cancel, done, fetchFrom, page, upTo, acc, tip>>

\* Mutant: the processors stay registered.
IntervalClearKeepsProcessors(g) ==
  /\ ready' = Put(ready, g, FALSE)
  /\ done' = Put(done, g, done[g] \/ cancel[g])
  /\ cancel' = Put(cancel, g, FALSE)
  /\ UNCHANGED <<wm, hooked, lis, fetchFrom, page, upTo, acc, tip>>

\* BlockchainEventEmitter.IntervalClear. The cancel function is only there once the listener
\* goroutine has started.
IntervalClear(g) ==
  /\ ready' = Put(ready, g, FALSE)
  /\ hooked' = Put(hooked, g, FALSE)
  /\ done' = Put(done, g, done[g] \/ cancel[g])
  /\ cancel' = Put(cancel, g, FALSE)
  /\ UNCHANGED <<wm, lis, fetchFrom, page, upTo, acc, tip>>

\* The old commitments service and the old nullifiers service share one emitter: it is
\* cleared twice.
ClearOldCommitments ==
  /\ rst = "clearCommitments"
  /\ rst' = "clearNullifiers"
  /\ IntervalClear(served)
  /\ UNCHANGED <<chainVars, serverVars, gen, served, cached, mutexVars>>

ClearOldNullifiers ==
  /\ rst = "clearNullifiers"
  /\ rst' = "loadCommitments"
  /\ IntervalClear(served)
  /\ UNCHANGED <<chainVars, serverVars, gen, served, cached, mutexVars>>

\* commitments.Svc.Init: the fetcher downloads both files and keeps them, the payload of the
\* first one is populated, and syncFromAtMost stores its block, being the first call.
LoadCommitments ==
  /\ rst = "loadCommitments"
  /\ rst' = "loadNullifiers"
  /\ cached' = file
  /\ acc' = [acc EXCEPT ![gen]["commitments"] = Payload("commitments", file["commitments"])]
  /\ wm' = Put(wm, gen, file["commitments"].latest)
  /\ UNCHANGED <<chainVars, serverVars, gen, served, mutexVars,
                 ready, hooked, lis, cancel, done, fetchFrom, page, upTo, tip>>

\* nullifiers.Svc.Init: served from the fetcher's cache, or downloaded again when five minutes
\* have passed; the second syncFromAtMost can only lower the watermark.
LoadNullifiers ==
  /\ rst = "loadNullifiers"
  /\ rst' = "lock"
  /\ \E f \in {cached["nullifiers"], file["nullifiers"]} :
       /\ acc' = [acc EXCEPT ![gen]["nullifiers"] = Payload("nullifiers", f)]
       /\ wm' = Put(wm, gen, AtMost(wm[gen], f.latest))
  /\ UNCHANGED <<chainVars, serverVars, gen, served, cached, mutexVars,
                 ready, hooked, lis, cancel, done, fetchFrom, page, upTo, tip>>

\* Dialling, fetching or deserialising fails: the reset returns its error and stores nothing.
LoadFails ==
  /\ rst \in {"loadCommitments", "loadNullifiers"}
  /\ rst' = "idle"
  /\ UNCHANGED <<chainVars, serverVars, gen, served, cached, mutexVars, emitterVars>>

\* emitter.Init sets isReady and enters RetrieveEvents, which takes eventsFetchingMutex.
InitLock ==
  /\ rst = "lock"
  /\ lock = 0
  /\ lock' = gen
  /\ ready' = Put(ready, gen, TRUE)
  /\ rst' = "head"
  /\ UNCHANGED <<chainVars, serverVars, gen, served, cached, todo,
                 wm, hooked, lis, cancel, done, fetchFrom, page, upTo, acc, tip>>

\* GetLastBlockNumberForEventRequest of a client: the node's head, with no reorg protection.
RpcHeads == IF rpcLags THEN 0..head ELSE {head}

\* Mutant: no test of lastBlock against fromBlock.
InitHeadUnchecked(last) ==
  /\ rst = "head"
  /\ last \in RpcHeads
  /\ upTo' = Put(upTo, gen, last)
  /\ rst' = "logs"
  /\ UNCHANGED <<chainVars, serverVars, gen, served, cached, mutexVars,
                 wm, ready, hooked, lis, cancel, done, fetchFrom, page, acc, tip>>

\* RetrieveEvents with something to scan.
InitHead(last) ==
  /\ rst = "head"
  /\ last \in RpcHeads
  /\ last >= wm[gen] + 1
  /\ upTo' = Put(upTo, gen, last)
  /\ rst' = "logs"
  /\ UNCHANGED <<chainVars, serverVars, gen, served, cached, mutexVars,
                 wm, ready, hooked, lis, cancel, done, fetchFrom, page, acc, tip>>

\* RetrieveEvents with lastBlock < fromBlock: nothing to scan, Init succeeds.
InitNothing(last) ==
  /\ rst = "head"
  /\ last \in RpcHeads
  /\ last < wm[gen] + 1
  /\ lock' = 0
  /\ lis' = Put(lis, gen, "spawned")
  /\ rst' = "store"
  /\ UNCHANGED <<chainVars, serverVars, gen, served, cached, todo,
                 wm, ready, hooked, cancel, done, fetchFrom, page, upTo, acc, tip>>

\* GetEventsInRange, every page and every bisected half of it.
InitLogs ==
  /\ rst = "logs"
  /\ page' = Put(page, gen, EventsInRange(wm[gen] + 1, upTo[gen]))
  /\ tip' = Put(tip, gen, {b \in Blocks : wm[gen] < b /\ b <= upTo[gen] /\ b > Safe})
  /\ todo' = Processors(gen)
  /\ rst' = "apply"
  /\ UNCHANGED <<chainVars, serverVars, gen, served, cached, lock,
                 wm, ready, hooked, lis, cancel, done, fetchFrom, upTo, acc>>

\* Mutants: the error of Init is dropped and the state stored; the early return keeps the mutex.
InitFailsStored ==
  /\ rst \in {"head", "logs"}
  /\ lock' = 0
  /\ rst' = "store"
  /\ UNCHANGED <<chainVars, serverVars, gen, served, cached, todo, emitterVars>>

InitFailsLocked ==
  /\ rst \in {"head", "logs"}
  /\ rst' = "idle"
  /\ UNCHANGED <<chainVars, serverVars, gen, served, cached, mutexVars, emitterVars>>

\* An RPC error: RetrieveEvents unlocks, Init and the reset return it.
InitFails ==
  /\ rst \in {"head", "logs"}
  /\ lock' = 0
  /\ rst' = "idle"
  /\ UNCHANGED <<chainVars, serverVars, gen, served, cached, todo, emitterVars>>

\* RetrieveEvents stores the block it has read up to and unlocks; Init spawns the listener.
InitDone ==
  /\ rst = "apply"
  /\ todo = {}
  /\ wm' = Put(wm, gen, upTo[gen])
  /\ page' = Put(page, gen, {})
  /\ lock' = 0
  /\ lis' = Put(lis, gen, "spawned")
  /\ rst' = "store"
  /\ UNCHANGED <<chainVars, serverVars, gen, served, cached, todo,
                 ready, hooked, cancel, done, fetchFrom, upTo, acc, tip>>

StoreChainState ==
  /\ rst = "store"
  /\ served' = gen
  /\ rst' = "idle"
  /\ UNCHANGED <<chainVars, serverVars, gen, cached, mutexVars, emitterVars>>

-----------------------------------------------------------------------------
(* processEvents: the processors run concurrently, under eventsFetchingMutex *)

\* SnapshotService.processEventsPage of service s: AcceptEvent for every event of the page.
ProcessPage(s) ==
  /\ s \in todo
  /\ todo' = todo \ {s}
  /\ acc' = [acc EXCEPT ![lock][s] = @ \cup page[lock]]
  /\ UNCHANGED <<chainVars, serverVars, resetVars, lock,
                 wm, ready, hooked, lis, cancel, done, fetchFrom, page, upTo, tip>>

-----------------------------------------------------------------------------
(* StartUpdateListener of the client delegate, a goroutine per emitter *)

\* Mutant: the cursor starts one block late.
ListenerStartLate(g) ==
  /\ lis[g] = "spawned"
  /\ lis' = Put(lis, g, "wait")
  /\ cancel' = Put(cancel, g, TRUE)
  /\ fetchFrom' = Put(fetchFrom, g, wm[g] + 2)
  /\ UNCHANGED <<chainVars, serverVars, resetVars, mutexVars,
                 wm, ready, hooked, done, page, upTo, acc, tip>>

\* The goroutine runs at last: it registers its cancel function and takes its cursor.
ListenerStart(g) ==
  /\ lis[g] = "spawned"
  /\ lis' = Put(lis, g, "wait")
  /\ cancel' = Put(cancel, g, TRUE)
  /\ fetchFrom' = Put(fetchFrom, g, wm[g] + 1)
  /\ UNCHANGED <<chainVars, serverVars, resetVars, mutexVars,
                 wm, ready, hooked, done, page, upTo, acc, tip>>

\* Mutant: an answer that ends at the cursor is taken for one that ends before it.
TickFetchStrict(g) ==
  /\ lis[g] = "wait"
  /\ ~done[g]
  /\ srv > fetchFrom[g]
  /\ upTo' = Put(upTo, g, srv)
  /\ page' = Put(page, g, EventsInRange(fetchFrom[g], srv))
  /\ lis' = Put(lis, g, IF EventsInRange(fetchFrom[g], srv) = {} THEN "move" ELSE "deliver")
  /\ UNCHANGED <<chainVars, serverVars, resetVars, mutexVars,
                 wm, ready, hooked, cancel, done, fetchFrom, acc, tip>>

\* A tick's request is answered. A failed request, and an answer that ends before fetchFrom,
\* change nothing.
TickFetch(g) ==
  /\ lis[g] = "wait"
  /\ ~done[g]
  /\ srv >= fetchFrom[g]
  /\ upTo' = Put(upTo, g, srv)
  /\ page' = Put(page, g, EventsInRange(fetchFrom[g], srv))
  /\ lis' = Put(lis, g, IF EventsInRange(fetchFrom[g], srv) = {} THEN "move" ELSE "deliver")
  /\ UNCHANGED <<chainVars, serverVars, resetVars, mutexVars,
                 wm, ready, hooked, cancel, done, fetchFrom, acc, tip>>

\* ProcessExternalEvents takes the mutex and starts the processors that are still registered.
TickLock(g) ==
  /\ lis[g] = "deliver"
  /\ lock = 0
  /\ lock' = g
  /\ todo' = Processors(g)
  /\ lis' = Put(lis, g, "apply")
  /\ UNCHANGED <<chainVars, serverVars, resetVars,
                 wm, ready, hooked, cancel, done, fetchFrom, page, upTo, acc, tip>>

\* ProcessExternalEvents advances the watermark and unlocks.
TickApplied(g) ==
  /\ lis[g] = "apply"
  /\ todo = {}
  /\ wm' = Put(wm, g, Advance(wm[g], upTo[g]))
  /\ page' = Put(page, g, {})
  /\ lock' = 0
  /\ lis' = Put(lis, g, "move")
  /\ UNCHANGED <<chainVars, serverVars, resetVars, todo,
                 ready, hooked, cancel, done, fetchFrom, upTo, acc, tip>>

\* The cursor moves past the answer, and the watermark is advanced to the cursor.
TickMove(g) ==
  /\ lis[g] = "move"
  /\ fetchFrom' = Put(fetchFrom, g, upTo[g] + 1)
  /\ wm' = Put(wm, g, Advance(wm[g], upTo[g] + 1))
  /\ lis' = Put(lis, g, "wait")
  /\ UNCHANGED <<chainVars, serverVars, resetVars, mutexVars,
                 ready, hooked, cancel, done, page, upTo, acc, tip>>

\* runPolling returns on a cancelled context.
ListenerStop(g) ==
  /\ lis[g] = "wait"
  /\ done[g]
  /\ lis' = Put(lis, g, "stopped")
  /\ UNCHANGED <<chainVars, serverVars, resetVars, mutexVars,
                 wm, ready, hooked, cancel, done, fetchFrom, page, upTo, acc, tip>>

-----------------------------------------------------------------------------
Environment ==
  \/ \E c \in Contents : Mine(c)
  \/ \E b \in Blocks, c \in Contents : Reorg(b, c)
  \/ \E to \in Blocks, pub \in SUBSET Services : ServerScan(to, pub)

Scan ==
  \/ InitLock
  \/ \E last \in 0..head : InitHead(last) \/ InitNothing(last)
  \/ InitLogs
  \/ InitFails
  \/ InitDone

Reset ==
  \/ ClearOldCommitments
  \/ ClearOldNullifiers
  \/ LoadCommitments
  \/ LoadNullifiers
  \/ LoadFails
  \/ Scan
  \/ StoreChainState

Listener(g) ==
  \/ ListenerStart(g)
  \/ TickFetch(g)
  \/ TickLock(g)
  \/ TickApplied(g)
  \/ TickMove(g)
  \/ ListenerStop(g)

Process == \E s \in Services : ProcessPage(s)

Next ==
  \/ Environment
  \/ ResetBegin
  \/ Reset
  \/ Process
  \/ \E g \in Gens : Listener(g)

Spec == Init /\ [][Next]_vars

(***************************************************************************)
(* Fairness: a reset that has begun runs to its end (each call returns or  *)
(* fails), processors run, and the goroutine of the listener is scheduled; *)
(* its requests are answered again and again, since a failed one leaves    *)
(* everything as it was and is repeated five seconds later. Nothing is     *)
(* asked of the chain, of the server or of the caller of a reset.          *)
(***************************************************************************)
FairSpec ==
  /\ Spec
  /\ WF_vars(Reset)
  /\ WF_vars(Process)
  /\ \A g \in Gens : WF_vars(Listener(g))

-----------------------------------------------------------------------------
(* Properties *)

TypeOK ==
  /\ head \in 0..MaxBlock
  /\ content \in [Blocks -> Contents]
  /\ rpcLags \in BOOLEAN
  /\ srv \in 0..MaxBlock
  /\ file \in [Services -> SnapFile]
  /\ rst \in {"idle", "clearCommitments", "clearNullifiers", "loadCommitments",
              "loadNullifiers", "lock", "head", "logs", "apply", "store"}
  /\ gen \in 0..MaxGen
  /\ served \in 0..MaxGen
  /\ cached \in [Services -> SnapFile]
  /\ lock \in 0..MaxGen
  /\ todo \subseteq Services
  /\ wm \in [Gens -> 0..(MaxBlock + 1)]
  /\ ready \in [Gens -> BOOLEAN]
  /\ hooked \in [Gens -> BOOLEAN]
  /\ lis \in [Gens -> {"none", "spawned", "wait", "deliver", "apply", "move", "stopped"}]
  /\ cancel \in [Gens -> BOOLEAN]
  /\ done \in [Gens -> BOOLEAN]
  /\ fetchFrom \in [Gens -> 0..(MaxBlock + 2)]
  /\ page \in [Gens -> SUBSET Event]
  /\ upTo \in [Gens -> 0..MaxBlock]
  /\ acc \in [Gens -> [Services -> SUBSET Event]]
  /\ tip \in [Gens -> SUBSET Blocks]

\* Service s of generation g holds the event of block b, if b emits one.
Holds(g, s, b) == content[b] # Empty => <<b, content[b]>> \in acc[g][s]

\* An emitter that has begun Init and is not cleared has handed both services the event of
\* every block below its watermark, whatever mixture of snapshot files, RPC scan and server
\* answers brought it there and however resets, listeners and reorganisations interleave.
\* Only blocks the initial scan read inside the reorganisation depth are excepted.
Coverage ==
  \A g \in Gens : ready[g] =>
    \A s \in Services, b \in Blocks :
      (b < wm[g] /\ b \notin tip[g]) => Holds(g, s, b)

\* A cleared emitter and its successor never both feed their services: the arrangement being
\* replaced is disconnected before the next one spawns its listener.
SingleFeeder ==
  \A g, k \in Gens :
    (/\ hooked[g] /\ lis[g] \notin {"none", "stopped"}
     /\ hooked[k] /\ lis[k] \notin {"none", "stopped"}) => g = k

\* While an emitter is ready its watermark never goes back, although RetrieveEvents stores the
\* node's block unconditionally and the node may answer with an older one.
WatermarkMonotone ==
  [][\A g \in Gens : (ready[g] /\ ready'[g]) => wm'[g] >= wm[g]]_wm

\* Replacing or extending the served generation loses no event of a settled block that the
\* instance already had: a reset that fails leaves the old services in place, one that
\* succeeds has caught up with what they had reached, if its node answers with the chain's
\* head. (Blocks read at the tip excepted.)
ServedNeverRegresses ==
  [][\A s \in Services, b \in Blocks :
       (/\ ~rpcLags /\ served # 0 /\ b <= Safe /\ b \notin tip[served']
        /\ content[b] # Empty /\ <<b, content[b]>> \in acc[served][s])
       => <<b, content[b]>> \in acc'[served'][s]]_<<served, acc>>

\* A reset that has begun ends: no cycle of the per-chain mutex, the events mutex and the
\* processors can hold it.
ResetEnds == (rst # "idle") ~> (rst = "idle")

\* What the server has scanned reaches the services of the served generation, unless that
\* generation is cleared first: no event is skipped by the listener's cursor for good.
ListenerCatchesUp ==
  \A b \in Blocks :
    (served # 0 /\ ready[served] /\ srv >= b)
      ~> (\/ served = 0 \/ ~ready[served] \/ b \in tip[served]
          \/ \A s \in Services : Holds(served, s, b))

\* The comment at Init says that the update listener is stopped by IntervalClear: a listener
\* whose emitter is cleared returns sooner or later.
ClearedListenerStops ==
  \A g \in Gens : (lis[g] = "wait" /\ ~ready[g]) ~> (lis[g] = "stopped")

-----------------------------------------------------------------------------
(***************************************************************************)
(* The inductive invariant behind Coverage. Frontier(g) is the block up to *)
(* which generation g is complete; the watermark runs at most one ahead of *)
(* it. The rest says what a page in flight contains, who holds the mutex   *)
(* on behalf of what, and that what is safe on the chain has settled.      *)
(***************************************************************************)
Frontier(g) ==
  CASE lis[g] \in {"none", "spawned"} -> wm[g]
    [] lis[g] = "move" -> upTo[g]
    [] OTHER -> fetchFrom[g] - 1

Complete(g, s, n) ==
  \A b \in Blocks : (b <= n /\ b \notin tip[g]) => (b <= Safe /\ Holds(g, s, b))

PageCovers(g, lo) ==
  \A b \in Blocks :
    (lo <= b /\ b <= upTo[g] /\ b \notin tip[g])
      => (b <= Safe /\ (content[b] # Empty => <<b, content[b]>> \in page[g]))

Applied(g) == \A s \in Services \ todo : page[g] \subseteq acc[g][s]

ServerInv ==
  /\ srv <= Safe
  /\ \A s \in Services : file[s].latest <= file[s].upTo /\ file[s].upTo <= srv
  /\ \A s \in Services : cached[s].latest <= cached[s].upTo /\ cached[s].upTo <= srv

ControlInv ==
  /\ served <= gen
  /\ rst # "idle" => gen > served /\ hooked[gen]
  /\ rst \in {"clearCommitments", "clearNullifiers"} => served # 0
  /\ rst \notin {"idle", "store"} => lis[gen] = "none"
  /\ rst \in {"clearCommitments", "clearNullifiers", "loadCommitments", "loadNullifiers",
              "lock", "head", "logs"} => tip[gen] = {}
  /\ rst \in {"clearCommitments", "clearNullifiers", "loadCommitments", "loadNullifiers",
              "lock"} => ~ready[gen]
  /\ \A g \in Gens : g > gen => lis[g] = "none" /\ ~ready[g] /\ tip[g] = {}
  /\ \A g \in Gens : ready[g] => hooked[g]

MutexInv ==
  /\ rst \in {"head", "logs", "apply"} => lock = gen
  /\ \A g \in Gens : lis[g] = "apply" => lock = g
  /\ todo # {} => \/ rst = "apply"
                  \/ lock # 0 /\ lis[lock] = "apply"

ResetInv ==
  /\ rst = "loadNullifiers" => wm[gen] <= srv /\ Complete(gen, "commitments", wm[gen])
  /\ rst = "lock" => wm[gen] <= srv /\ \A s \in Services : Complete(gen, s, wm[gen])
  /\ rst = "logs" => wm[gen] < upTo[gen] /\ upTo[gen] <= head
  /\ rst = "apply" => wm[gen] < upTo[gen] /\ PageCovers(gen, wm[gen] + 1) /\ Applied(gen)

Accounted(g) ==
  /\ wm[g] <= Frontier(g) + 1
  /\ \A s \in Services : Complete(g, s, Frontier(g))
  /\ lis[g] \in {"deliver", "apply"} => fetchFrom[g] <= upTo[g] /\ PageCovers(g, fetchFrom[g])
  /\ lis[g] = "apply" => Applied(g)

ListenerInv == \A g \in Gens : ready[g] => Accounted(g)

\* Only the served emitter, or the one about to be stored once the served one is disconnected,
\* has both processors and a listener.
FeederInv ==
  /\ \A g \in Gens : (hooked[g] /\ lis[g] # "none") => (g = served \/ (g = gen /\ rst = "store"))
  /\ rst \notin {"idle", "clearCommitments", "clearNullifiers"}
       => (served = 0 \/ ~hooked[served])

IInv == TypeOK /\ ServerInv /\ ControlInv /\ MutexInv /\ ResetInv /\ FeederInv /\ ListenerInv

\* What ServedNeverRegresses adds to it: nothing is known of a block beyond the head; and, with a
\* node that does not lag, from the scan of the successor to its storing, the served generation,
\* which is disconnected by then, has nothing beyond what the successor reads.
Building == {"head", "logs", "apply", "store"}
Reading  == Building \ {"head"}

UpTill(n) == {e \in Event : e[1] <= n}
ReadTo    == IF rst = "store" THEN Frontier(gen) ELSE upTo[gen]

BelowHead ==
  \A g \in Gens : /\ page[g] \subseteq UpTill(head)
                  /\ \A s \in Services : acc[g][s] \subseteq UpTill(head)

Handover ==
  /\ rst \in Building => ready[gen]
  /\ rst = "store" /\ todo # {} => lock = gen
  /\ ~rpcLags /\ served # 0 /\ rst \in Reading =>
       \A s \in Services : acc[served][s] \subseteq UpTill(ReadTo)

SuccessorInv == BelowHead /\ Handover
=============================================================================
