-------------------------- MODULE WalletViewProofs --------------------------
(***************************************************************************)
(* Proofs about WalletView, for any number of outputs, events, resets and  *)
(* concurrent calls, and any set of outputs that are the user's.           *)
(***************************************************************************)
EXTENDS WalletView, TLAPS

-----------------------------------------------------------------------------
(* The cache *)

\* Decrypting what follows the cursor keeps a bag exact.
LEMMA AddOwnedExact ==
  ASSUME NEW bag \in Bag, NEW last \in 0..MaxOutputs, NEW n \in 0..MaxOutputs,
         last <= n, Exact(bag, last)
  PROVE  /\ AddOwned(bag, last + 1, n) \in Bag
         /\ Exact(AddOwned(bag, last + 1, n), n)
<1>0. MaxOutputs \in Nat
  BY WalletViewAssumption
<1>1. ASSUME NEW i \in Outputs
      PROVE  /\ AddOwned(bag, last + 1, n)[i] \in Nat
             /\ AddOwned(bag, last + 1, n)[i] = IF i \in Mine /\ i <= n THEN 1 ELSE 0
  <2>1. i \in Nat /\ bag[i] = IF i \in Mine /\ i <= last THEN 1 ELSE 0
    BY <1>0 DEF Exact, Outputs
  <2>2. AddOwned(bag, last + 1, n)[i]
          = IF i \in Mine /\ last + 1 <= i /\ i <= n THEN bag[i] + 1 ELSE bag[i]
    BY DEF AddOwned
  <2> QED
    BY <1>0, <2>1, <2>2
<1>2. AddOwned(bag, last + 1, n) \in Bag
  BY <1>1 DEF AddOwned, Bag
<1> QED
  BY <1>1, <1>2 DEF Exact

\* The cache that a call writes is well typed and exact up to the list it has read.
LEMMA ExtendedCache ==
  ASSUME TypeOK, CacheInv, NEW c \in Callers, found[c].last <= length[c]
  PROVE  LET new == [last   |-> IF length[c] > 0 THEN length[c] ELSE found[c].last,
                     copies |-> AddOwned(found[c].copies, found[c].last + 1, length[c])]
         IN new \in Cache /\ Exact(new.copies, new.last) /\ new.last = length[c]
<1>0. MaxOutputs \in Nat
  BY WalletViewAssumption
<1>1. /\ found[c] \in Cache
      /\ found[c].last \in 0..MaxOutputs /\ found[c].copies \in Bag
      /\ length[c] \in 0..MaxOutputs
      /\ Exact(found[c].copies, found[c].last)
  BY DEF TypeOK, CacheInv, Cache
<1>2. (IF length[c] > 0 THEN length[c] ELSE found[c].last) = length[c]
  BY <1>0, <1>1
<1>3. /\ AddOwned(found[c].copies, found[c].last + 1, length[c]) \in Bag
      /\ Exact(AddOwned(found[c].copies, found[c].last + 1, length[c]), length[c])
  BY <1>1, AddOwnedExact
<1> QED
  BY <1>1, <1>2, <1>3 DEF Cache

-----------------------------------------------------------------------------
(* The parts of the inductive invariant, one by one *)

\* Before anything is emitted or read, the invariant holds.
LEMMA IInvInit == Init => IInv
<1> SUFFICES ASSUME Init PROVE IInv
  OBVIOUS
<1>0. MaxOutputs \in Nat /\ MaxHead \in Nat /\ MaxGen \in Nat /\ 1 \in Gens /\ 0 \in Heads
  BY WalletViewAssumption DEF Gens, Heads
<1>1. EmptyBag \in Bag /\ EmptyCache \in Cache /\ Exact(EmptyCache.copies, EmptyCache.last)
  <2>1. EmptyBag \in Bag
    BY DEF EmptyBag, Bag
  <2>2. \A i \in Outputs : ~(i <= 0) /\ EmptyBag[i] = 0
    BY <1>0 DEF Outputs, EmptyBag
  <2> QED
    BY <1>0, <2>1, <2>2 DEF EmptyCache, Cache, Exact
<1>2. TypeOK
  <2>1. /\ head \in Heads /\ emitted \in [Heads -> 0..MaxOutputs] /\ nulls \in [Heads -> SUBSET Mine]
        /\ gen \in Gens /\ list \in [Gens -> 0..MaxOutputs] /\ seen \in [Gens -> Heads]
    BY <1>0 DEF Init
  <2>2. cache \in Cache /\ found \in [Callers -> Cache] /\ all \in [Callers -> Bag]
    BY <1>1 DEF Init
  <2>3. /\ length \in [Callers -> 0..MaxOutputs] /\ map \in [Callers -> Gens]
    BY <1>0 DEF Init
  <2>5. offered \in [Callers -> SUBSET Outputs] /\ known \in [Callers -> SUBSET Mine]
    BY DEF Init
  <2>6. older \in BOOLEAN
    BY DEF Init
  <2>4. pc \in [Callers -> {"idle", "outputs", "nullifiers", "cache", "load", "decrypt", "filter", "done"}]
    BY DEF Init
  <2> QED
    BY <2>1, <2>2, <2>3, <2>4, <2>5, <2>6 DEF TypeOK
<1>3. ChainInv
  BY <1>0 DEF Init, ChainInv
<1>4. CacheInv
  BY <1>1 DEF Init, CacheInv, CacheExact
<1>5. NoNoteHidden /\ KnownInv
  BY DEF Init, NoNoteHidden, KnownInv
<1> QED
  BY <1>2, <1>3, <1>4, <1>5 DEF IInv

\* No step leaves the types; the cache that a call writes is the only value to be computed.
LEMMA TypeStep == TypeOK /\ CacheInv /\ [Next]_vars => TypeOK'
<1> SUFFICES ASSUME TypeOK, CacheInv, [Next]_vars PROVE TypeOK'
  OBVIOUS
<1>0. MaxOutputs \in Nat /\ MaxHead \in Nat /\ MaxGen \in Nat /\ Mine \subseteq Outputs
  BY WalletViewAssumption DEF Outputs
<1>e. EmptyCache \in Cache
  BY <1>0 DEF EmptyCache, EmptyBag, Cache, Bag
<1>1. CASE Emit
  BY <1>0, <1>1 DEF Emit, TypeOK, Heads, instanceVars, callVars
<1>2. ASSUME NEW i \in Outputs, Spend(i) PROVE TypeOK'
  BY <1>0, <1>2 DEF Spend, TypeOK, Heads, instanceVars, callVars
<1>3. ASSUME NEW g \in Gens, NEW h \in Heads, Listen(g, h) PROVE TypeOK'
  BY <1>0, <1>3 DEF Listen, TypeOK, chainVars, callVars
<1>4. ASSUME NEW h \in Heads, Reset(h) PROVE TypeOK'
  <2>1. gen + 1 \in Gens /\ emitted[h] \in 0..MaxOutputs
    BY <1>0, <1>4 DEF Reset, TypeOK, Gens
  <2>2. gen' \in Gens /\ list' \in [Gens -> 0..MaxOutputs] /\ seen' \in [Gens -> Heads]
    BY <1>4, <2>1 DEF Reset, TypeOK
  <2>3. older' \in BOOLEAN
    BY <1>4 DEF Reset
  <2> QED
    BY <1>4, <2>2, <2>3 DEF Reset, TypeOK, chainVars, callVars
<1>5. ASSUME NEW c \in Callers, Begin(c) PROVE TypeOK'
  BY <1>5 DEF Begin, TypeOK, chainVars, instanceVars
<1>6. ASSUME NEW c \in Callers, ReadOutputs(c) PROVE TypeOK'
  BY <1>6 DEF ReadOutputs, TypeOK, chainVars, instanceVars
<1>7. ASSUME NEW c \in Callers, ReadNullifiers(c) PROVE TypeOK'
  BY <1>7 DEF ReadNullifiers, TypeOK, chainVars, instanceVars
<1>8. ASSUME NEW c \in Callers, ResetCache(c) PROVE TypeOK'
  BY <1>e, <1>8 DEF ResetCache, TypeOK, chainVars, instanceVars
<1>9. ASSUME NEW c \in Callers, ReadCache(c) PROVE TypeOK'
  BY <1>e, <1>9 DEF ReadCache, TypeOK, chainVars, instanceVars
<1>10. ASSUME NEW c \in Callers, Extend(c) PROVE TypeOK'
  <2>1. cache' \in Cache /\ all' = [all EXCEPT ![c] = cache'.copies]
    BY <1>10, ExtendedCache DEF Extend
  <2>2. cache'.copies \in Bag
    BY <2>1 DEF Cache
  <2> QED
    BY <1>10, <2>1, <2>2 DEF Extend, TypeOK, chainVars, instanceVars
<1>11. ASSUME NEW c \in Callers, CacheOnly(c) PROVE TypeOK'
  <2>1. found[c].copies \in Bag
    BY DEF TypeOK, Cache
  <2> QED
    BY <1>11, <2>1 DEF CacheOnly, TypeOK, chainVars, instanceVars
<1>12. ASSUME NEW c \in Callers, Filter(c) PROVE TypeOK'
  BY <1>12 DEF Filter, TypeOK, chainVars, instanceVars
<1>13. ASSUME NEW c \in Callers, Return(c) PROVE TypeOK'
  BY <1>13 DEF Return, TypeOK, chainVars, instanceVars
<1>14. CASE UNCHANGED vars
  BY <1>14 DEF vars, chainVars, instanceVars, callVars, TypeOK
<1> QED
  BY <1>1, <1>2, <1>3, <1>4, <1>5, <1>6, <1>7, <1>8, <1>9, <1>10, <1>11, <1>12, <1>13, <1>14
     DEF Next, Call

\* Only the chain changes the nullifiers of an event, and only of the event it adds; no
\* generation knows of an event that has not happened, and no call has the map of a later one.
LEMMA ChainInvStep == TypeOK /\ ChainInv /\ [Next]_vars => ChainInv'
<1> SUFFICES ASSUME TypeOK, ChainInv, [Next]_vars PROVE ChainInv'
  OBVIOUS
<1>0. MaxHead \in Nat /\ head \in Nat /\ \A h \in Heads : h \in Nat
  BY WalletViewAssumption DEF TypeOK, Heads
<1>1. ASSUME head' = head + 1, head < MaxHead, seen' = seen, gen' = gen, map' = map,
             NEW N, nulls[head] \subseteq N, nulls' = [nulls EXCEPT ![head + 1] = N]
      PROVE  ChainInv'
  <2>1. ASSUME NEW h \in Heads, NEW k \in Heads, h <= k, k <= head'
        PROVE  nulls'[h] \subseteq nulls'[k]
    <3>1. CASE k = head + 1 /\ h = head + 1
      BY <3>1
    <3>2. CASE k = head + 1 /\ h # head + 1
      <4>1. h <= head /\ nulls[h] \subseteq nulls[head]
        BY <1>0, <1>1, <2>1, <3>2 DEF ChainInv, TypeOK
      <4>2. nulls'[h] = nulls[h] /\ nulls'[k] = N
        BY <1>1, <3>2 DEF TypeOK
      <4> QED
        BY <1>1, <4>1, <4>2
    <3>3. CASE k # head + 1
      <4>1. k <= head /\ h # head + 1
        BY <1>0, <1>1, <2>1, <3>3
      <4> QED
        BY <1>1, <2>1, <3>3, <4>1 DEF ChainInv, TypeOK
    <3> QED
      BY <3>1, <3>2, <3>3
  <2>2. \A g \in Gens : seen'[g] <= head'
    BY <1>0, <1>1 DEF ChainInv, TypeOK, Heads
  <2> QED
    BY <1>1, <2>1, <2>2 DEF ChainInv
<1>2. CASE Emit
  BY <1>1, <1>2 DEF Emit, instanceVars, callVars
<1>3. ASSUME NEW i \in Outputs, Spend(i) PROVE ChainInv'
  BY <1>1, <1>3 DEF Spend, instanceVars, callVars
<1>4. ASSUME NEW g \in Gens, NEW h \in Heads, Listen(g, h) PROVE ChainInv'
  BY <1>4 DEF Listen, ChainInv, TypeOK, chainVars, callVars
<1>5. ASSUME NEW h \in Heads, Reset(h) PROVE ChainInv'
  <2>1. gen \in Nat /\ (\A c \in Callers : map[c] \in Nat) /\ gen' = gen + 1 /\ map' = map
    BY <1>5, WalletViewAssumption DEF Reset, TypeOK, Gens, callVars
  <2>2. \A c \in Callers : map'[c] <= gen'
    BY <2>1 DEF ChainInv
  <2> QED
    BY <1>0, <1>5, <2>2 DEF Reset, ChainInv, TypeOK, chainVars
<1>6. ASSUME NEW c \in Callers, Call(c) PROVE ChainInv'
  <2>1. map' = map \/ map' = [map EXCEPT ![c] = gen]
    BY <1>6 DEF Call, Begin, ReadOutputs, ReadNullifiers, ResetCache, ReadCache, Extend, CacheOnly,
                Filter, Return, callVars
  <2>2. UNCHANGED <<chainVars, instanceVars>>
    BY <1>6 DEF Call, Begin, ReadOutputs, ReadNullifiers, ResetCache, ReadCache, Extend, CacheOnly,
                Filter, Return
  <2>3. gen <= gen
    BY WalletViewAssumption DEF TypeOK, Gens
  <2>4. \A d \in Callers : map'[d] <= gen
    BY <2>1, <2>3 DEF ChainInv, TypeOK
  <2> QED
    BY <2>2, <2>4 DEF ChainInv, chainVars, instanceVars
<1>7. CASE UNCHANGED vars
  BY <1>7 DEF vars, chainVars, instanceVars, callVars, ChainInv
<1> QED
  BY <1>2, <1>3, <1>4, <1>5, <1>6, <1>7 DEF Next

\* Whatever call writes the cache, what it writes was computed from an exact cache that it read
\* as a whole, so that it is exact too.
LEMMA CacheInvStep == TypeOK /\ CacheInv /\ [Next]_vars => CacheInv'
<1> SUFFICES ASSUME TypeOK, CacheInv, [Next]_vars PROVE CacheInv'
  OBVIOUS
<1>0. MaxOutputs \in Nat
  BY WalletViewAssumption
<1>1. CASE UNCHANGED <<cache, callVars>>
  BY <1>1 DEF callVars, CacheInv, CacheExact
<1>2. ASSUME NEW c \in Callers, Begin(c) PROVE CacheInv'
  BY <1>2 DEF Begin, CacheInv, CacheExact, TypeOK
<1>3. ASSUME NEW c \in Callers, ReadOutputs(c) PROVE CacheInv'
  BY <1>3 DEF ReadOutputs, CacheInv, CacheExact, TypeOK
<1>4. ASSUME NEW c \in Callers, ReadNullifiers(c) PROVE CacheInv'
  BY <1>4 DEF ReadNullifiers, CacheInv, CacheExact, TypeOK
<1>n. Exact(EmptyCache.copies, EmptyCache.last)
  <2>1. \A i \in Outputs : ~(i <= 0) /\ EmptyBag[i] = 0
    BY <1>0 DEF Outputs, EmptyBag
  <2> QED
    BY <2>1 DEF EmptyCache, Exact
<1>5. ASSUME NEW c \in Callers, ResetCache(c) PROVE CacheInv'
  BY <1>n, <1>5 DEF ResetCache, CacheInv, CacheExact, TypeOK
<1>6. ASSUME NEW c \in Callers, ReadCache(c) PROVE CacheInv'
  BY <1>n, <1>6 DEF ReadCache, CacheInv, CacheExact, TypeOK
<1>7. ASSUME NEW c \in Callers, Extend(c) PROVE CacheInv'
  <2>1. /\ Exact(cache'.copies, cache'.last) /\ cache'.last = length[c]
        /\ all' = [all EXCEPT ![c] = cache'.copies]
    BY <1>7, ExtendedCache DEF Extend
  <2>2. length[c] \in 0..MaxOutputs /\ length[c] <= length[c] /\ length' = length
    BY <1>0, <1>7 DEF TypeOK, Extend
  <2>3. ASSUME NEW d \in Callers, pc'[d] = "filter"
        PROVE  \E n \in 0..MaxOutputs : length'[d] <= n /\ Exact(all'[d], n)
    <3>1. CASE d = c
      BY <2>1, <2>2, <3>1 DEF TypeOK
    <3>2. CASE d # c
      BY <1>7, <2>1, <2>2, <2>3, <3>2 DEF Extend, CacheInv, TypeOK
    <3> QED
      BY <3>1, <3>2
  <2> QED
    BY <1>7, <2>1, <2>3 DEF Extend, CacheInv, CacheExact
<1>8. ASSUME NEW c \in Callers, CacheOnly(c) PROVE CacheInv'
  <2>1. /\ found[c].last \in 0..MaxOutputs /\ length[c] <= found[c].last
        /\ Exact(found[c].copies, found[c].last)
    BY <1>0, <1>8 DEF CacheOnly, CacheInv, TypeOK, Cache
  <2>2. ASSUME NEW d \in Callers, pc'[d] = "filter"
        PROVE  \E n \in 0..MaxOutputs : length'[d] <= n /\ Exact(all'[d], n)
    <3>1. CASE d = c
      BY <1>8, <2>1, <3>1 DEF CacheOnly, TypeOK
    <3>2. CASE d # c
      BY <1>8, <2>2, <3>2 DEF CacheOnly, CacheInv, TypeOK
    <3> QED
      BY <3>1, <3>2
  <2> QED
    BY <1>8, <2>2 DEF CacheOnly, CacheInv, CacheExact
<1>9. ASSUME NEW c \in Callers, Filter(c) PROVE CacheInv'
  BY <1>9 DEF Filter, CacheInv, CacheExact, TypeOK
<1>10. ASSUME NEW c \in Callers, Return(c) PROVE CacheInv'
  BY <1>10 DEF Return, CacheInv, CacheExact, TypeOK
<1> QED
  BY <1>1, <1>2, <1>3, <1>4, <1>5, <1>6, <1>7, <1>8, <1>9, <1>10
     DEF Next, Call, Emit, Spend, Listen, Reset, vars

\* A call only gets to its end through Filter, on a bag that is exact beyond its list, and a
\* nullifier in any map is on the chain for good.
LEMMA NoNoteHiddenStep ==
  TypeOK /\ ChainInv /\ ChainInv' /\ CacheInv /\ NoNoteHidden /\ [Next]_vars => NoNoteHidden'
<1> SUFFICES ASSUME TypeOK, ChainInv, ChainInv', CacheInv, NoNoteHidden, [Next]_vars,
                    NEW c \in Callers, pc'[c] = "done", NEW i \in Mine, i <= length'[c]
             PROVE  i \in offered'[c] \/ i \in nulls'[head']
  BY DEF NoNoteHidden
<1>0. MaxHead \in Nat /\ head \in Heads /\ head <= head /\ i \in Outputs
  BY WalletViewAssumption DEF TypeOK, Heads, Outputs
<1>1. CASE Emit
  BY <1>0, <1>1 DEF Emit, NoNoteHidden, TypeOK, Heads, callVars
<1>2. ASSUME NEW j \in Outputs, Spend(j) PROVE i \in offered'[c] \/ i \in nulls'[head']
  BY <1>0, <1>2 DEF Spend, NoNoteHidden, TypeOK, Heads, callVars
<1>3. CASE /\ UNCHANGED chainVars
           /\ ~(\E d \in Callers : Filter(d))
  <2>1. pc[c] = "done" /\ UNCHANGED <<length, offered>> => i \in offered'[c] \/ i \in nulls'[head']
    BY <1>3 DEF NoNoteHidden, chainVars
  <2>2. pc[c] = "done" /\ length'[c] = length[c] /\ offered' = offered
    BY <1>0, <1>3 DEF Next, Call, Emit, Spend, Listen, Reset, Begin, ReadOutputs, ReadNullifiers, ResetCache,
                ReadCache, Extend, CacheOnly, Return, vars, chainVars, callVars, TypeOK, Heads
  <2> QED
    BY <1>3, <2>2 DEF NoNoteHidden, chainVars
<1>4. ASSUME NEW d \in Callers, Filter(d) PROVE i \in offered'[c] \/ i \in nulls'[head']
  <2>1. CASE d # c
    BY <1>4, <2>1 DEF Filter, NoNoteHidden, TypeOK, chainVars
  <2>2. CASE d = c
    <3>1. PICK n \in 0..MaxOutputs : length[c] <= n /\ Exact(all[c], n)
      BY <1>4, <2>2 DEF Filter, CacheInv
    <3>2. all[c][i] = 1
      <4>1. length[c] \in Nat /\ n \in Nat /\ i \in Nat /\ i <= length[c]
        BY <1>4, WalletViewAssumption DEF TypeOK, Filter, Outputs
      <4> QED
        BY <1>0, <3>1, <4>1 DEF Exact
    <3>3. nulls[seen[map[c]]] \subseteq nulls[head]
      BY <1>0 DEF ChainInv, TypeOK
    <3>4. offered'[c] = {j \in Outputs : all[c][j] > 0} \ nulls[seen[map[c]]]
      BY <1>4, <2>2 DEF Filter, TypeOK
    <3> QED
      BY <1>0, <1>4, <3>2, <3>3, <3>4 DEF Filter, chainVars
  <2> QED
    BY <2>1, <2>2
<1>5. UNCHANGED chainVars \/ Emit \/ \E j \in Outputs : Spend(j)
  BY DEF Next, Call, Listen, Reset, Begin, ReadOutputs, ReadNullifiers, ResetCache,
         ReadCache, Extend, CacheOnly, Filter, Return, vars
<1> QED
  BY <1>1, <1>2, <1>3, <1>4, <1>5

\* Unless a reset forgets nullifiers, the map that a call has read, or will read, has all that
\* the instance had when the call began.
LEMMA KnownInvStep == TypeOK /\ ChainInv /\ ChainInv' /\ KnownInv /\ [Next]_vars => KnownInv'
<1> SUFFICES ASSUME TypeOK, ChainInv, ChainInv', KnownInv, [Next]_vars, ~older', NEW c \in Callers
             PROVE  /\ pc'[c] \in {"outputs", "nullifiers"} => known'[c] \subseteq nulls'[seen'[gen']]
                    /\ pc'[c] \in {"cache", "load", "decrypt", "filter"}
                         => known'[c] \subseteq nulls'[seen'[map'[c]]]
                    /\ pc'[c] = "done" => offered'[c] \cap known'[c] = {}
  BY DEF KnownInv
<1> DEFINE Known ==
      /\ pc'[c] \in {"outputs", "nullifiers"} => known'[c] \subseteq nulls'[seen'[gen']]
      /\ pc'[c] \in {"cache", "load", "decrypt", "filter"} => known'[c] \subseteq nulls'[seen'[map'[c]]]
      /\ pc'[c] = "done" => offered'[c] \cap known'[c] = {}
<1>0. MaxHead \in Nat /\ head \in Heads /\ (\A h \in Heads : h \in Nat)
  BY WalletViewAssumption DEF TypeOK, Heads
<1>1. ~older
  BY DEF Next, Call, Emit, Spend, Listen, Reset, Begin, ReadOutputs, ReadNullifiers, ResetCache,
         ReadCache, Extend, CacheOnly, Filter, Return, vars, instanceVars
<1>2. /\ pc[c] \in {"outputs", "nullifiers"} => known[c] \subseteq nulls[seen[gen]]
      /\ pc[c] \in {"cache", "load", "decrypt", "filter"} => known[c] \subseteq nulls[seen[map[c]]]
      /\ pc[c] = "done" => offered[c] \cap known[c] = {}
  BY <1>1 DEF KnownInv
<1>3. ASSUME NEW N, nulls' = [nulls EXCEPT ![head + 1] = N], seen' = seen, gen' = gen,
             UNCHANGED callVars
      PROVE  Known
  <2>1. \A g \in Gens : seen[g] # head + 1 /\ nulls'[seen[g]] = nulls[seen[g]]
    BY <1>0, <1>3 DEF ChainInv, TypeOK
  <2> QED
    BY <1>2, <1>3, <2>1 DEF callVars, TypeOK
<1>4. CASE Emit
  BY <1>3, <1>4 DEF Emit, instanceVars
<1>5. ASSUME NEW i \in Outputs, Spend(i) PROVE Known
  BY <1>3, <1>5 DEF Spend, instanceVars
<1>6. ASSUME NEW g \in Gens, NEW h \in Heads, Listen(g, h) PROVE Known
  <2>1. \A k \in Gens : nulls[seen[k]] \subseteq nulls'[seen'[k]]
    BY <1>0, <1>6 DEF Listen, ChainInv, TypeOK, chainVars
  <2> QED
    BY <1>2, <1>6, <2>1 DEF Listen, TypeOK, chainVars, callVars
<1>7. ASSUME NEW h \in Heads, Reset(h) PROVE Known
  <2>1. gen \in Gens /\ gen + 1 \in Gens /\ gen' = gen + 1 /\ gen \in Nat
    BY <1>7, WalletViewAssumption DEF Reset, TypeOK, Gens
  <2>2. nulls[seen[gen]] \subseteq nulls[h] /\ seen'[gen'] = h
    <3>0. ~(h < seen[gen]) /\ h \in 0..head
      BY <1>7 DEF Reset
    <3>1. seen[gen] <= h
      <4>1. seen[gen] \in Nat /\ h \in Nat
        BY <1>0, <2>1 DEF TypeOK
      <4> QED
        BY <3>0, <4>1
    <3>2. h <= head
      BY <1>0, <3>0
    <3> QED
      BY <1>7, <2>1, <3>1, <3>2 DEF Reset, ChainInv, TypeOK
  <2>3. map[c] # gen + 1
    BY <2>1, WalletViewAssumption DEF ChainInv, TypeOK, Gens
  <2> QED
    BY <1>2, <1>7, <2>1, <2>2, <2>3 DEF Reset, TypeOK, chainVars, callVars
<1>8. ASSUME NEW d \in Callers, Begin(d) PROVE Known
  BY <1>2, <1>8 DEF Begin, TypeOK, chainVars, instanceVars
<1>9. ASSUME NEW d \in Callers, ReadOutputs(d) PROVE Known
  BY <1>2, <1>9 DEF ReadOutputs, TypeOK, chainVars, instanceVars
<1>10. ASSUME NEW d \in Callers, ReadNullifiers(d) PROVE Known
  BY <1>2, <1>10 DEF ReadNullifiers, TypeOK, chainVars, instanceVars
<1>11. ASSUME NEW d \in Callers, ResetCache(d) PROVE Known
  BY <1>2, <1>11 DEF ResetCache, TypeOK, chainVars, instanceVars
<1>12. ASSUME NEW d \in Callers, ReadCache(d) PROVE Known
  BY <1>2, <1>12 DEF ReadCache, TypeOK, chainVars, instanceVars
<1>13. ASSUME NEW d \in Callers, Extend(d) PROVE Known
  BY <1>2, <1>13 DEF Extend, TypeOK, chainVars, instanceVars
<1>14. ASSUME NEW d \in Callers, CacheOnly(d) PROVE Known
  BY <1>2, <1>14 DEF CacheOnly, TypeOK, chainVars, instanceVars
<1>15. ASSUME NEW d \in Callers, Filter(d) PROVE Known
  BY <1>2, <1>15 DEF Filter, TypeOK, chainVars, instanceVars
<1>16. ASSUME NEW d \in Callers, Return(d) PROVE Known
  BY <1>2, <1>16 DEF Return, TypeOK, chainVars, instanceVars
<1>17. CASE UNCHANGED vars
  BY <1>2, <1>17 DEF vars, chainVars, instanceVars, callVars
<1> QED
  BY <1>4, <1>5, <1>6, <1>7, <1>8, <1>9, <1>10, <1>11, <1>12, <1>13, <1>14, <1>15, <1>16, <1>17
     DEF Next, Call

-----------------------------------------------------------------------------
(* Theorems *)

\* Every step keeps the inductive invariant, each part by its own lemma.
LEMMA IInvStep == IInv /\ [Next]_vars => IInv'
  BY TypeStep, ChainInvStep, CacheInvStep, NoNoteHiddenStep, KnownInvStep DEF IInv

\* The inductive invariant holds of every state, for any number of concurrent calls and resets.
THEOREM Inductive == Spec => []IInv
  BY IInvInit, IInvStep, PTL DEF Spec

\* Every variable keeps its type: no call writes a cursor beyond the outputs that exist.
THEOREM TypeCorrect == Spec => []TypeOK
<1>1. IInv => TypeOK
  BY DEF IInv
<1> QED
  BY Inductive, <1>1, PTL

\* The cache of decrypted outputs has each of the user's outputs up to its cursor exactly once,
\* however many calls read, clear and write it at the same time.
THEOREM CacheExactHolds == Spec => []CacheExact
<1>1. IInv => CacheExact
  BY DEF IInv, CacheInv
<1> QED
  BY Inductive, <1>1, PTL

\* No call that returns hides a note of the list it has read, unless that note is spent.
THEOREM NoNoteHiddenHolds == Spec => []NoNoteHidden
<1>1. IInv => NoNoteHidden
  BY DEF IInv
<1> QED
  BY Inductive, <1>1, PTL

\* No call offers a note whose nullifier the instance had when the call began, as long as no
\* reset serves an older view than the one it replaces.
THEOREM NoSettledSpentOfferedHolds == Spec => []NoSettledSpentOffered
<1>1. IInv => NoSettledSpentOffered
  BY DEF IInv, KnownInv, NoSettledSpentOffered
<1> QED
  BY Inductive, <1>1, PTL
=============================================================================
