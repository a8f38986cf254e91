----------------------------- MODULE WalletView -----------------------------
(***************************************************************************)
(* What a user's calls see of one chain: GetInputUtxoAndBalance reads the  *)
(* served outputs and the served nullifiers, extends the cache of the      *)
(* outputs that the user's keys decrypt, and offers the notes that are not *)
(* spent. Balance refreshes hold two mutexes while they do, transactions   *)
(* none; so a call is here a sequence of steps with no lock, among which   *)
(* other calls, resets and the update listener come in.                    *)
(*                                                                         *)
(* The chain has no reorganisations here: outputs are numbered as they are *)
(* emitted, the list of a generation is a prefix of them, and an output's  *)
(* nullifier has its number.                                               *)
(***************************************************************************)
EXTENDS Integers

CONSTANTS
  MaxOutputs,  \* bound: outputs that are ever emitted
  Mine,        \* the outputs that the user's keys decrypt
  MaxHead,     \* bound: events on the chain
  MaxGen,      \* bound: resets
  Callers      \* calls that may run at once

ASSUME WalletViewAssumption ==
  /\ MaxOutputs \in Nat
  /\ Mine \subseteq 1..MaxOutputs
  /\ MaxHead \in Nat
  /\ MaxGen \in Nat \ {0}

Outputs == 1..MaxOutputs
Heads   == 0..MaxHead
Gens    == 1..MaxGen
Bag     == [Outputs -> Nat]
Cache   == [last : 0..MaxOutputs, copies : Bag]

VARIABLES
  head,     \* the chain: number of its last event
  emitted,  \* emitted[h]: how many outputs there are after event h
  nulls,    \* nulls[h]: the nullifiers after event h
  gen,      \* generation in the instance's maps
  list,     \* list[g]: length of the outputs slice that storeChainState copied
  seen,     \* seen[g]: the event up to which the live nullifier map of generation g goes
  cache,    \* HinkalCacheInterface: LastOutput (0: none) and EncryptedOutputs, as a bag
  pc,       \* control of a call
  length,   \* hinkalOutputs: length of the slice the call has read
  map,      \* nullifiers: generation of the map the call has read
  found,    \* cached: what GetHinkalCache returned
  all,      \* allUtxos, as a bag
  offered,  \* the notes a call has returned
  known,    \* known[c]: the nullifiers the instance had when call c began (history)
  older     \* whether a reset has served an older view than the one before (history)

chainVars == <<head, emitted, nulls>>
instanceVars == <<gen, list, seen, older>>
callVars == <<pc, length, map, found, all, offered, known>>
vars == <<chainVars, instanceVars, cache, callVars>>

EmptyBag == [i \in Outputs |-> 0]
EmptyCache == [last |-> 0, copies |-> EmptyBag]

Init ==
  /\ head = 0
  /\ emitted = [h \in Heads |-> 0]
  /\ nulls = [h \in Heads |-> {}]
  /\ gen = 1
  /\ list = [g \in Gens |-> 0]
  /\ seen = [g \in Gens |-> 0]
  /\ cache = EmptyCache
  /\ pc = [c \in Callers |-> "idle"]
  /\ length = [c \in Callers |-> 0]
  /\ map = [c \in Callers |-> 1]
  /\ found = [c \in Callers |-> EmptyCache]
  /\ all = [c \in Callers |-> EmptyBag]
  /\ offered = [c \in Callers |-> {}]
  /\ known = [c \in Callers |-> {}]
  /\ older = FALSE

-----------------------------------------------------------------------------
(* The chain, the listener and the reset *)

\* An event on the chain: a new output, or the nullifier of one of the user's.
Emit ==
  /\ head < MaxHead
  /\ emitted[head] < MaxOutputs
  /\ head' = head + 1
  /\ emitted' = [emitted EXCEPT ![head + 1] = emitted[head] + 1]
  /\ nulls' = [nulls EXCEPT ![head + 1] = nulls[head]]
  /\ UNCHANGED <<instanceVars, cache, callVars>>

Spend(i) ==
  /\ head < MaxHead
  /\ i \in Mine /\ i <= emitted[head] /\ i \notin nulls[head]
  /\ head' = head + 1
  /\ emitted' = [emitted EXCEPT ![head + 1] = emitted[head]]
  /\ nulls' = [nulls EXCEPT ![head + 1] = nulls[head] \cup {i}]
  /\ UNCHANGED <<instanceVars, cache, callVars>>

\* The listener of a generation, a replaced one included, adds events to the map it shares with
\* whoever has read it. The list of outputs it appends to is not the instance's any more.
Listen(g, h) ==
  /\ g <= gen
  /\ seen[g] < h /\ h <= head
  /\ seen' = [seen EXCEPT ![g] = h]
  /\ UNCHANGED <<chainVars, gen, list, older, cache, callVars>>

\* storeChainState at the end of a reset, with what the services hold up to event h: less than
\* before if the node lags behind.
Reset(h) ==
  /\ gen < MaxGen
  /\ h \in 0..head
  /\ gen' = gen + 1
  /\ list' = [list EXCEPT ![gen + 1] = emitted[h]]
  /\ seen' = [seen EXCEPT ![gen + 1] = h]
  /\ older' = (older \/ h < seen[gen])
  /\ UNCHANGED <<chainVars, cache, callVars>>

-----------------------------------------------------------------------------
(* GetInputUtxoAndBalance *)

Begin(c) ==
  /\ pc[c] = "idle"
  /\ pc' = [pc EXCEPT ![c] = "outputs"]
  /\ known' = [known EXCEPT ![c] = nulls[seen[gen]]]
  /\ UNCHANGED <<chainVars, instanceVars, cache, length, map, found, all, offered>>

ReadOutputs(c) ==
  /\ pc[c] = "outputs"
  /\ length' = [length EXCEPT ![c] = list[gen]]
  /\ pc' = [pc EXCEPT ![c] = "nullifiers"]
  /\ UNCHANGED <<chainVars, instanceVars, cache, map, found, all, offered, known>>

\* Mutant: the map of the first generation is kept.
ReadNullifiersOnce(c) ==
  /\ pc[c] = "nullifiers"
  /\ map' = [map EXCEPT ![c] = 1]
  /\ pc' = [pc EXCEPT ![c] = "cache"]
  /\ UNCHANGED <<chainVars, instanceVars, cache, length, found, all, offered, known>>

ReadNullifiers(c) ==
  /\ pc[c] = "nullifiers"
  /\ map' = [map EXCEPT ![c] = gen]
  /\ pc' = [pc EXCEPT ![c] = "cache"]
  /\ UNCHANGED <<chainVars, instanceVars, cache, length, found, all, offered, known>>

\* ResetCacheBefore.
ResetCache(c) ==
  /\ pc[c] = "cache"
  /\ cache' = EmptyCache
  /\ pc' = [pc EXCEPT ![c] = "load"]
  /\ UNCHANGED <<chainVars, instanceVars, length, map, found, all, offered, known>>

\* GetHinkalCache: the cache, or an empty one if the device holds nothing that can be parsed.
ReadCache(c) ==
  /\ pc[c] \in {"cache", "load"}
  /\ \E f \in {cache, EmptyCache} : found' = [found EXCEPT ![c] = f]
  /\ pc' = [pc EXCEPT ![c] = "decrypt"]
  /\ UNCHANGED <<chainVars, instanceVars, cache, length, map, all, offered, known>>

\* filterOwnedOutputs of the outputs lo..hi, added to a bag.
AddOwned(bag, lo, hi) ==
  [i \in Outputs |-> IF i \in Mine /\ lo <= i /\ i <= hi THEN bag[i] + 1 ELSE bag[i]]

\* Mutants: the last output seen is decrypted again; the cursor is not moved; the outputs that
\* are already in the cache are taken to be all.
ExtendFromLast(c) ==
  LET new == [last   |-> IF length[c] > 0 THEN length[c] ELSE found[c].last,
              copies |-> AddOwned(found[c].copies, found[c].last, length[c])] IN
  /\ pc[c] = "decrypt"
  /\ found[c].last <= length[c]
  /\ cache' = new
  /\ all' = [all EXCEPT ![c] = new.copies]
  /\ pc' = [pc EXCEPT ![c] = "filter"]
  /\ UNCHANGED <<chainVars, instanceVars, length, map, found, offered, known>>

ExtendReturnsFound(c) ==
  LET new == [last   |-> IF length[c] > 0 THEN length[c] ELSE found[c].last,
              copies |-> AddOwned(found[c].copies, found[c].last + 1, length[c])] IN
  /\ pc[c] = "decrypt"
  /\ found[c].last <= length[c]
  /\ cache' = new
  /\ all' = [all EXCEPT ![c] = found[c].copies]
  /\ pc' = [pc EXCEPT ![c] = "filter"]
  /\ UNCHANGED <<chainVars, instanceVars, length, map, found, offered, known>>

ExtendCursorAhead(c) ==
  LET new == [last   |-> list[gen] + 1,
              copies |-> AddOwned(found[c].copies, found[c].last + 1, length[c])] IN
  /\ pc[c] = "decrypt"
  /\ found[c].last <= length[c]
  /\ cache' = new
  /\ all' = [all EXCEPT ![c] = new.copies]
  /\ pc' = [pc EXCEPT ![c] = "filter"]
  /\ UNCHANGED <<chainVars, instanceVars, length, map, found, offered, known>>

\* getInputUtxosLocally: the outputs after the cached cursor are decrypted, and the cache is
\* written whole, whatever it holds by now. The cursor is an output of the list that was read,
\* or there is none.
Extend(c) ==
  LET new == [last   |-> IF length[c] > 0 THEN length[c] ELSE found[c].last,
              copies |-> AddOwned(found[c].copies, found[c].last + 1, length[c])] IN
  /\ pc[c] = "decrypt"
  /\ found[c].last <= length[c]
  /\ cache' = new
  /\ all' = [all EXCEPT ![c] = new.copies]
  /\ pc' = [pc EXCEPT ![c] = "filter"]
  /\ UNCHANGED <<chainVars, instanceVars, length, map, found, offered, known>>

\* The cursor is not an output of the list: the cache is all there is. (So it is for an instance
\* with tree updates disabled, which has no list; that mode is left out.)
CacheOnly(c) ==
  /\ pc[c] = "decrypt"
  /\ found[c].last > length[c]
  /\ all' = [all EXCEPT ![c] = found[c].copies]
  /\ pc' = [pc EXCEPT ![c] = "filter"]
  /\ UNCHANGED <<chainVars, instanceVars, cache, length, map, found, offered, known>>

\* filterSpentUtxos with the map that was read, as it is by now. (One step: the map only grows, and
\* each note is looked up by itself.)
Filter(c) ==
  /\ pc[c] = "filter"
  /\ offered' = [offered EXCEPT ![c] = {i \in Outputs : all[c][i] > 0} \ nulls[seen[map[c]]]]
  /\ pc' = [pc EXCEPT ![c] = "done"]
  /\ UNCHANGED <<chainVars, instanceVars, cache, length, map, found, all, known>>

\* The call returns. Or it fails: the account has changed (checkAddressNotUpdated), the cache
\* or a key cannot be read. Nothing is undone.
Return(c) ==
  /\ pc[c] # "idle"
  /\ pc' = [pc EXCEPT ![c] = "idle"]
  /\ UNCHANGED <<chainVars, instanceVars, cache, length, map, found, all, offered, known>>

-----------------------------------------------------------------------------
Call(c) ==
  \/ Begin(c)
  \/ ReadOutputs(c)
  \/ ReadNullifiers(c)
  \/ ResetCache(c)
  \/ ReadCache(c)
  \/ Extend(c)
  \/ CacheOnly(c)
  \/ Filter(c)
  \/ Return(c)

Next ==
  \/ Emit
  \/ \E i \in Outputs : Spend(i)
  \/ \E g \in Gens, h \in Heads : Listen(g, h)
  \/ \E h \in Heads : Reset(h)
  \/ \E c \in Callers : Call(c)

Spec == Init /\ [][Next]_vars

-----------------------------------------------------------------------------
(* Properties *)

TypeOK ==
  /\ head \in Heads
  /\ emitted \in [Heads -> 0..MaxOutputs]
  /\ nulls \in [Heads -> SUBSET Mine]
  /\ gen \in Gens
  /\ list \in [Gens -> 0..MaxOutputs]
  /\ seen \in [Gens -> Heads]
  /\ cache \in Cache
  /\ pc \in [Callers -> {"idle", "outputs", "nullifiers", "cache", "load", "decrypt", "filter",
                     "done"}]
  /\ length \in [Callers -> 0..MaxOutputs]
  /\ map \in [Callers -> Gens]
  /\ found \in [Callers -> Cache]
  /\ all \in [Callers -> Bag]
  /\ offered \in [Callers -> SUBSET Outputs]
  /\ known \in [Callers -> SUBSET Mine]
  /\ older \in BOOLEAN

\* bag holds each of the user's outputs up to n once, and nothing else.
Exact(bag, n) == \A i \in Outputs : bag[i] = IF i \in Mine /\ i <= n THEN 1 ELSE 0

\* The cache holds each of the user's outputs up to its cursor exactly once, however calls that
\* read, clear and write it without a lock interleave with each other and with resets that serve
\* longer or shorter lists: no note is lost behind the cursor or counted twice.
CacheExact == Exact(cache.copies, cache.last)

\* A call that returns offers every note of the list it has read, except notes that are spent:
\* the cursor hides none.
NoNoteHidden ==
  \A c \in Callers : pc[c] = "done" =>
    \A i \in Mine : i <= length[c] => (i \in offered[c] \/ i \in nulls[head])

\* A call offers no note whose nullifier the instance had when the call began, although the
\* outputs and the nullifiers it reads may be those of two generations. (A reset that serves an
\* older view than the one before forgets nullifiers.)
NoSettledSpentOffered ==
  older \/ \A c \in Callers : pc[c] = "done" => offered[c] \cap known[c] = {}

-----------------------------------------------------------------------------
(***************************************************************************)
(* The inductive invariant: nullifiers are never taken back; whatever has  *)
(* been read from the cache is exact, whatever was written meanwhile; and  *)
(* what the instance knew when a call began is in the map the call filters *)
(* with, or in the one it will read.                                       *)
(***************************************************************************)
ChainInv ==
  /\ \A h, k \in Heads : h <= k /\ k <= head => nulls[h] \subseteq nulls[k]
  /\ \A g \in Gens : seen[g] <= head
  /\ \A c \in Callers : map[c] <= gen

CacheInv ==
  /\ CacheExact
  /\ \A c \in Callers : Exact(found[c].copies, found[c].last)
  /\ \A c \in Callers : pc[c] = "filter" =>
       \E n \in 0..MaxOutputs : length[c] <= n /\ Exact(all[c], n)

KnownInv ==
  older \/ \A c \in Callers :
    /\ pc[c] \in {"outputs", "nullifiers"} => known[c] \subseteq nulls[seen[gen]]
    /\ pc[c] \in {"cache", "load", "decrypt", "filter"} => known[c] \subseteq nulls[seen[map[c]]]
    /\ pc[c] = "done" => offered[c] \cap known[c] = {}

IInv == TypeOK /\ ChainInv /\ CacheInv /\ NoNoteHidden /\ KnownInv
=============================================================================
