-------------------------- MODULE ChainSyncProofs --------------------------
(***************************************************************************)
(* Proofs about ChainSync, for any number of blocks, contents and resets   *)
(* and any reorganisation depth.                                           *)
(***************************************************************************)
EXTENDS ChainSync, TLAPS

-----------------------------------------------------------------------------
(* Facts about the helpers *)

\* The events of a range are events, and all that the range emits is among them.
LEMMA EventsInRangeFacts ==
  ASSUME TypeOK, NEW lo, NEW hi
  PROVE  /\ EventsInRange(lo, hi) \in SUBSET Event
         /\ \A b \in Blocks : (lo <= b /\ b <= hi /\ content[b] # Empty)
                               => <<b, content[b]>> \in EventsInRange(lo, hi)
  BY DEF EventsInRange, TypeOK, Event

\* The payload of a snapshot file is a set of events.
LEMMA PayloadType ==
  ASSUME TypeOK, NEW s, NEW f
  PROVE  Payload(s, f) \in SUBSET Event
  BY EventsInRangeFacts DEF Payload

-----------------------------------------------------------------------------
(* Type correctness *)

\* A new instance, before its first reset, is well typed.
LEMMA TypeInit == Init => TypeOK
  BY ChainSyncAssumption DEF Init, TypeOK, Blocks, Gens, Services, SnapFile, Event

\* While a reset runs, the generation it builds is one of Gens.
LEMMA GenInGens ==
  ASSUME TypeOK, ControlInv, rst # "idle"
  PROVE  gen \in Gens
  BY ChainSyncAssumption DEF TypeOK, ControlInv, Gens

\* No operation of a reset, an emitter or a listener leaves the types. That a reset is never
\* entered without a generation (ControlInv) keeps the indices inside Gens.
LEMMA TypeStep == TypeOK /\ ControlInv /\ [Next]_vars => TypeOK'
<1> SUFFICES ASSUME TypeOK, ControlInv, [Next]_vars PROVE TypeOK'
  OBVIOUS
<1> USE ChainSyncAssumption
<1>1. ASSUME NEW c \in Contents, Mine(c) PROVE TypeOK'
  BY <1>1 DEF TypeOK, Mine, serverVars, resetVars, mutexVars, emitterVars, Blocks
<1>2. ASSUME NEW b \in Blocks, NEW c \in Contents, Reorg(b, c) PROVE TypeOK'
  BY <1>2 DEF TypeOK, Reorg, serverVars, resetVars, mutexVars, emitterVars
<1>3. ASSUME NEW to \in Blocks, NEW pub \in SUBSET Services, ServerScan(to, pub) PROVE TypeOK'
  BY <1>3 DEF TypeOK, ServerScan, chainVars, resetVars, mutexVars, emitterVars, Blocks, SnapFile
<1>4. CASE ResetBegin
  <2>1. gen + 1 \in Gens /\ gen' \in 0..MaxGen
    BY <1>4 DEF TypeOK, ResetBegin, Gens
  <2> QED
    BY <1>4, <2>1 DEF TypeOK, ResetBegin, chainVars, serverVars, mutexVars, Put
<1>5. CASE ClearOldCommitments
  BY <1>5 DEF TypeOK, ClearOldCommitments, IntervalClear, chainVars, serverVars, mutexVars, Put
<1>6. CASE ClearOldNullifiers
  BY <1>6 DEF TypeOK, ClearOldNullifiers, IntervalClear, chainVars, serverVars, mutexVars, Put
<1>7. CASE LoadCommitments
  <2>1. Payload("commitments", file["commitments"]) \in SUBSET Event
    BY PayloadType
  <2> QED
    BY <1>7, <2>1, GenInGens DEF TypeOK, LoadCommitments, chainVars, serverVars, mutexVars, Put, SnapFile, Services
<1>8. CASE LoadNullifiers
  <2>1. PICK f \in {cached["nullifiers"], file["nullifiers"]} :
          /\ acc' = [acc EXCEPT ![gen]["nullifiers"] = Payload("nullifiers", f)]
          /\ wm' = Put(wm, gen, AtMost(wm[gen], f.latest))
    BY <1>8 DEF LoadNullifiers
  <2>2. Payload("nullifiers", f) \in SUBSET Event
    BY PayloadType
  <2> QED
    BY <1>8, <2>1, <2>2, GenInGens DEF TypeOK, LoadNullifiers, chainVars, serverVars, mutexVars, Put,
       SnapFile, Services, AtMost
<1>9. CASE LoadFails
  BY <1>9 DEF TypeOK, LoadFails, chainVars, serverVars, mutexVars, emitterVars
<1>10. CASE InitLock
  BY <1>10 DEF TypeOK, InitLock, chainVars, serverVars, Put
<1>11. ASSUME NEW last \in 0..head, InitHead(last) PROVE TypeOK'
  BY <1>11, GenInGens DEF TypeOK, InitHead, chainVars, serverVars, mutexVars, Put
<1>12. ASSUME NEW last \in 0..head, InitNothing(last) PROVE TypeOK'
  BY <1>12, GenInGens DEF TypeOK, InitNothing, chainVars, serverVars, Put
<1>13. CASE InitLogs
  <2>1. EventsInRange(wm[gen] + 1, upTo[gen]) \in SUBSET Event
    BY EventsInRangeFacts
  <2> QED
    BY <1>13, <2>1 DEF TypeOK, InitLogs, chainVars, serverVars, Put, Processors
<1>14. CASE InitFails
  BY <1>14 DEF TypeOK, InitFails, chainVars, serverVars, emitterVars
<1>15. CASE InitDone
  BY <1>15, GenInGens DEF TypeOK, InitDone, chainVars, serverVars, Put
<1>16. CASE StoreChainState
  BY <1>16 DEF TypeOK, StoreChainState, chainVars, serverVars, mutexVars, emitterVars
<1>17. ASSUME NEW s \in Services, ProcessPage(s) PROVE TypeOK'
  <2>1. acc' \in [Gens -> [Services -> SUBSET Event]]
    <3>1. CASE lock \in Gens
      <4>1. acc[lock][s] \cup page[lock] \in SUBSET Event
        BY <3>1 DEF TypeOK
      <4> QED
        BY <1>17, <3>1, <4>1 DEF TypeOK, ProcessPage
    <3>2. CASE lock \notin Gens
      BY <1>17, <3>2 DEF TypeOK, ProcessPage
    <3> QED
      BY <3>1, <3>2
  <2> QED
    BY <1>17, <2>1 DEF TypeOK, ProcessPage, chainVars, serverVars, resetVars, Services
<1>18. ASSUME NEW g \in Gens, ListenerStart(g) PROVE TypeOK'
  BY <1>18 DEF TypeOK, ListenerStart, chainVars, serverVars, resetVars, mutexVars, Put
<1>19. ASSUME NEW g \in Gens, TickFetch(g) PROVE TypeOK'
  <2>1. EventsInRange(fetchFrom[g], srv) \in SUBSET Event
    BY EventsInRangeFacts
  <2> QED
    BY <1>19, <2>1 DEF TypeOK, TickFetch, chainVars, serverVars, resetVars, mutexVars, Put
<1>20. ASSUME NEW g \in Gens, TickLock(g) PROVE TypeOK'
  BY <1>20, SMTT(30) DEF TypeOK, TickLock, chainVars, serverVars, resetVars, Put, Processors, Gens
<1>21. ASSUME NEW g \in Gens, TickApplied(g) PROVE TypeOK'
  BY <1>21 DEF TypeOK, TickApplied, chainVars, serverVars, resetVars, Put, Advance
<1>22. ASSUME NEW g \in Gens, TickMove(g) PROVE TypeOK'
  BY <1>22 DEF TypeOK, TickMove, chainVars, serverVars, resetVars, mutexVars, Put, Advance
<1>23. ASSUME NEW g \in Gens, ListenerStop(g) PROVE TypeOK'
  BY <1>23 DEF TypeOK, ListenerStop, chainVars, serverVars, resetVars, mutexVars, Put
<1>24. CASE UNCHANGED vars
  BY <1>24 DEF TypeOK, vars, chainVars, serverVars, resetVars, mutexVars, emitterVars
<1> QED
  BY <1>1, <1>2, <1>3, <1>4, <1>5, <1>6, <1>7, <1>8, <1>9, <1>10, <1>11, <1>12, <1>13, <1>14,
     <1>15, <1>16, <1>17, <1>18, <1>19, <1>20, <1>21, <1>22, <1>23, <1>24
     DEF Next, Environment, Reset, Scan, Process, Listener

-----------------------------------------------------------------------------
(* The parts of the inductive invariant, one by one *)

\* The control of the reset: the generation being built is newer than the served one, and has
\* no listener, no tip and no readiness before the step that gives them to it.
LEMMA ControlInvStep == TypeOK /\ ControlInv /\ [Next]_vars => ControlInv'
<1> SUFFICES ASSUME TypeOK, ControlInv, [Next]_vars PROVE ControlInv'
  OBVIOUS
<1> USE ChainSyncAssumption DEF chainVars, serverVars, resetVars, mutexVars, emitterVars, Put
<1>1. ASSUME NEW c \in Contents, Mine(c) PROVE ControlInv'
  BY <1>1, GenInGens DEF TypeOK, ControlInv, Gens, Mine
<1>2. ASSUME NEW b \in Blocks, NEW c \in Contents, Reorg(b, c) PROVE ControlInv'
  BY <1>2, GenInGens DEF TypeOK, ControlInv, Gens, Reorg
<1>3. ASSUME NEW to \in Blocks, NEW pub \in SUBSET Services, ServerScan(to, pub) PROVE ControlInv'
  BY <1>3, GenInGens DEF TypeOK, ControlInv, Gens, ServerScan
<1>4. CASE ResetBegin
  BY <1>4, GenInGens DEF TypeOK, ControlInv, Gens, ResetBegin
<1>5. CASE ClearOldCommitments
  BY <1>5, GenInGens, SMTT(30) DEF TypeOK, ControlInv, Gens, ClearOldCommitments, IntervalClear
<1>6. CASE ClearOldNullifiers
  BY <1>6, GenInGens, SMTT(30) DEF TypeOK, ControlInv, Gens, ClearOldNullifiers, IntervalClear
<1>7. CASE LoadCommitments
  BY <1>7, GenInGens DEF TypeOK, ControlInv, Gens, LoadCommitments
<1>8. CASE LoadNullifiers
  BY <1>8, GenInGens DEF TypeOK, ControlInv, Gens, LoadNullifiers
<1>9. CASE LoadFails
  BY <1>9, GenInGens DEF TypeOK, ControlInv, Gens, LoadFails
<1>10. CASE InitLock
  BY <1>10, GenInGens DEF TypeOK, ControlInv, Gens, InitLock
<1>11. ASSUME NEW last \in 0..head, InitHead(last) PROVE ControlInv'
  BY <1>11, GenInGens DEF TypeOK, ControlInv, Gens, InitHead
<1>12. ASSUME NEW last \in 0..head, InitNothing(last) PROVE ControlInv'
  BY <1>12, GenInGens DEF TypeOK, ControlInv, Gens, InitNothing
<1>13. CASE InitLogs
  BY <1>13, GenInGens DEF TypeOK, ControlInv, Gens, InitLogs
<1>14. CASE InitFails
  BY <1>14, GenInGens DEF TypeOK, ControlInv, Gens, InitFails
<1>15. CASE InitDone
  BY <1>15, GenInGens DEF TypeOK, ControlInv, Gens, InitDone
<1>16. CASE StoreChainState
  BY <1>16, GenInGens DEF TypeOK, ControlInv, Gens, StoreChainState
<1>17. ASSUME NEW s \in Services, ProcessPage(s) PROVE ControlInv'
  BY <1>17, GenInGens DEF TypeOK, ControlInv, Gens, ProcessPage
<1>18. ASSUME NEW g \in Gens, ListenerStart(g) PROVE ControlInv'
  BY <1>18, GenInGens DEF TypeOK, ControlInv, Gens, ListenerStart
<1>19. ASSUME NEW g \in Gens, TickFetch(g) PROVE ControlInv'
  BY <1>19, GenInGens DEF TypeOK, ControlInv, Gens, TickFetch
<1>20. ASSUME NEW g \in Gens, TickLock(g) PROVE ControlInv'
  BY <1>20, GenInGens DEF TypeOK, ControlInv, Gens, TickLock
<1>21. ASSUME NEW g \in Gens, TickApplied(g) PROVE ControlInv'
  BY <1>21, GenInGens DEF TypeOK, ControlInv, Gens, TickApplied
<1>22. ASSUME NEW g \in Gens, TickMove(g) PROVE ControlInv'
  BY <1>22, GenInGens DEF TypeOK, ControlInv, Gens, TickMove
<1>23. ASSUME NEW g \in Gens, ListenerStop(g) PROVE ControlInv'
  BY <1>23, GenInGens DEF TypeOK, ControlInv, Gens, ListenerStop
<1>24. CASE UNCHANGED vars
  BY <1>24, GenInGens DEF TypeOK, ControlInv, Gens, vars
<1> QED
  BY <1>1, <1>2, <1>3, <1>4, <1>5, <1>6, <1>7, <1>8, <1>9, <1>10, <1>11, <1>12, <1>13, <1>14,
     <1>15, <1>16, <1>17, <1>18, <1>19, <1>20, <1>21, <1>22, <1>23, <1>24
     DEF Next, Environment, Reset, Scan, Process, Listener

\* eventsFetchingMutex is held by whoever scans or processes, and processors only run then.
LEMMA MutexInvStep == TypeOK /\ ControlInv /\ MutexInv /\ [Next]_vars => MutexInv'
<1> SUFFICES ASSUME TypeOK, ControlInv, MutexInv, [Next]_vars PROVE MutexInv'
  OBVIOUS
<1> USE ChainSyncAssumption DEF chainVars, serverVars, resetVars, mutexVars, emitterVars, Put
<1>1. ASSUME NEW c \in Contents, Mine(c) PROVE MutexInv'
  BY <1>1, GenInGens DEF TypeOK, ControlInv, MutexInv, Processors, Gens, Mine
<1>2. ASSUME NEW b \in Blocks, NEW c \in Contents, Reorg(b, c) PROVE MutexInv'
  BY <1>2, GenInGens DEF TypeOK, ControlInv, MutexInv, Processors, Gens, Reorg
<1>3. ASSUME NEW to \in Blocks, NEW pub \in SUBSET Services, ServerScan(to, pub) PROVE MutexInv'
  BY <1>3, GenInGens DEF TypeOK, ControlInv, MutexInv, Processors, Gens, ServerScan
<1>4. CASE ResetBegin
  BY <1>4, GenInGens DEF TypeOK, ControlInv, MutexInv, Processors, Gens, ResetBegin
<1>5. CASE ClearOldCommitments
  BY <1>5, GenInGens DEF TypeOK, ControlInv, MutexInv, Processors, Gens, ClearOldCommitments, IntervalClear
<1>6. CASE ClearOldNullifiers
  BY <1>6, GenInGens DEF TypeOK, ControlInv, MutexInv, Processors, Gens, ClearOldNullifiers, IntervalClear
<1>7. CASE LoadCommitments
  BY <1>7, GenInGens DEF TypeOK, ControlInv, MutexInv, Processors, Gens, LoadCommitments
<1>8. CASE LoadNullifiers
  BY <1>8, GenInGens DEF TypeOK, ControlInv, MutexInv, Processors, Gens, LoadNullifiers
<1>9. CASE LoadFails
  BY <1>9, GenInGens DEF TypeOK, ControlInv, MutexInv, Processors, Gens, LoadFails
<1>10. CASE InitLock
  BY <1>10, GenInGens DEF TypeOK, ControlInv, MutexInv, Processors, Gens, InitLock
<1>11. ASSUME NEW last \in 0..head, InitHead(last) PROVE MutexInv'
  BY <1>11, GenInGens DEF TypeOK, ControlInv, MutexInv, Processors, Gens, InitHead
<1>12. ASSUME NEW last \in 0..head, InitNothing(last) PROVE MutexInv'
  BY <1>12, GenInGens DEF TypeOK, ControlInv, MutexInv, Processors, Gens, InitNothing
<1>13. CASE InitLogs
  BY <1>13, GenInGens DEF TypeOK, ControlInv, MutexInv, Processors, Gens, InitLogs
<1>14. CASE InitFails
  BY <1>14, GenInGens DEF TypeOK, ControlInv, MutexInv, Processors, Gens, InitFails
<1>15. CASE InitDone
  BY <1>15, GenInGens DEF TypeOK, ControlInv, MutexInv, Processors, Gens, InitDone
<1>16. CASE StoreChainState
  BY <1>16, GenInGens DEF TypeOK, ControlInv, MutexInv, Processors, Gens, StoreChainState
<1>17. ASSUME NEW s \in Services, ProcessPage(s) PROVE MutexInv'
  BY <1>17, GenInGens DEF TypeOK, ControlInv, MutexInv, Processors, Gens, ProcessPage
<1>18. ASSUME NEW g \in Gens, ListenerStart(g) PROVE MutexInv'
  BY <1>18, GenInGens, SMTT(30) DEF TypeOK, ControlInv, MutexInv, Processors, Gens, ListenerStart
<1>19. ASSUME NEW g \in Gens, TickFetch(g) PROVE MutexInv'
  BY <1>19, GenInGens DEF TypeOK, ControlInv, MutexInv, Processors, Gens, TickFetch
<1>20. ASSUME NEW g \in Gens, TickLock(g) PROVE MutexInv'
  <2>1. /\ lis[g] = "deliver" /\ lock = 0 /\ lock' = g /\ lis' = [lis EXCEPT ![g] = "apply"]
        /\ UNCHANGED <<rst, gen>>
    BY <1>20 DEF TickLock
  <2>2. rst \notin {"head", "logs", "apply"}
    BY <2>1, GenInGens DEF MutexInv, TypeOK, Gens
  <2>3. lis'[g] = "apply" /\ g # 0 /\ \A k \in Gens : k # g => lis'[k] = lis[k]
    BY <2>1 DEF TypeOK, Gens
  <2>4. \A k \in Gens : lis[k] # "apply"
    BY <2>1 DEF MutexInv, Gens
  <2> QED
    BY <2>1, <2>2, <2>3, <2>4 DEF MutexInv
<1>21. ASSUME NEW g \in Gens, TickApplied(g) PROVE MutexInv'
  BY <1>21, GenInGens DEF TypeOK, ControlInv, MutexInv, Processors, Gens, TickApplied
<1>22. ASSUME NEW g \in Gens, TickMove(g) PROVE MutexInv'
  BY <1>22, GenInGens DEF TypeOK, ControlInv, MutexInv, Processors, Gens, TickMove
<1>23. ASSUME NEW g \in Gens, ListenerStop(g) PROVE MutexInv'
  BY <1>23, GenInGens, SMTT(30) DEF TypeOK, ControlInv, MutexInv, Processors, Gens, ListenerStop
<1>24. CASE UNCHANGED vars
  BY <1>24, GenInGens DEF TypeOK, ControlInv, MutexInv, Processors, Gens, vars
<1> QED
  BY <1>1, <1>2, <1>3, <1>4, <1>5, <1>6, <1>7, <1>8, <1>9, <1>10, <1>11, <1>12, <1>13, <1>14,
     <1>15, <1>16, <1>17, <1>18, <1>19, <1>20, <1>21, <1>22, <1>23, <1>24
     DEF Next, Environment, Reset, Scan, Process, Listener

\* The server, its files and the fetcher's copies stay behind what is safe from replacement.
LEMMA ServerInvStep == TypeOK /\ ServerInv /\ [Next]_vars => ServerInv'
<1> SUFFICES ASSUME TypeOK, ServerInv, [Next]_vars PROVE ServerInv'
  OBVIOUS
<1> USE ChainSyncAssumption DEF chainVars, serverVars, resetVars, mutexVars, emitterVars, Put
<1>1. ASSUME NEW c \in Contents, Mine(c) PROVE ServerInv'
  BY <1>1 DEF TypeOK, ServerInv, Safe, SafeReorgBlock, SnapFile, Blocks, Mine
<1>2. ASSUME NEW b \in Blocks, NEW c \in Contents, Reorg(b, c) PROVE ServerInv'
  BY <1>2 DEF TypeOK, ServerInv, Safe, SafeReorgBlock, SnapFile, Blocks, Reorg
<1>3. ASSUME NEW to \in Blocks, NEW pub \in SUBSET Services, ServerScan(to, pub) PROVE ServerInv'
  BY <1>3 DEF TypeOK, ServerInv, Safe, SafeReorgBlock, SnapFile, Blocks, ServerScan
<1>4. CASE ResetBegin
  BY <1>4 DEF TypeOK, ServerInv, Safe, SafeReorgBlock, SnapFile, Blocks, ResetBegin
<1>5. CASE ClearOldCommitments
  BY <1>5 DEF TypeOK, ServerInv, Safe, SafeReorgBlock, SnapFile, Blocks, ClearOldCommitments, IntervalClear
<1>6. CASE ClearOldNullifiers
  BY <1>6 DEF TypeOK, ServerInv, Safe, SafeReorgBlock, SnapFile, Blocks, ClearOldNullifiers, IntervalClear
<1>7. CASE LoadCommitments
  BY <1>7 DEF TypeOK, ServerInv, Safe, SafeReorgBlock, SnapFile, Blocks, LoadCommitments
<1>8. CASE LoadNullifiers
  BY <1>8 DEF TypeOK, ServerInv, Safe, SafeReorgBlock, SnapFile, Blocks, LoadNullifiers
<1>9. CASE LoadFails
  BY <1>9 DEF TypeOK, ServerInv, Safe, SafeReorgBlock, SnapFile, Blocks, LoadFails
<1>10. CASE InitLock
  BY <1>10 DEF TypeOK, ServerInv, Safe, SafeReorgBlock, SnapFile, Blocks, InitLock
<1>11. ASSUME NEW last \in 0..head, InitHead(last) PROVE ServerInv'
  BY <1>11 DEF TypeOK, ServerInv, Safe, SafeReorgBlock, SnapFile, Blocks, InitHead
<1>12. ASSUME NEW last \in 0..head, InitNothing(last) PROVE ServerInv'
  BY <1>12 DEF TypeOK, ServerInv, Safe, SafeReorgBlock, SnapFile, Blocks, InitNothing
<1>13. CASE InitLogs
  BY <1>13 DEF TypeOK, ServerInv, Safe, SafeReorgBlock, SnapFile, Blocks, InitLogs
<1>14. CASE InitFails
  BY <1>14 DEF TypeOK, ServerInv, Safe, SafeReorgBlock, SnapFile, Blocks, InitFails
<1>15. CASE InitDone
  BY <1>15 DEF TypeOK, ServerInv, Safe, SafeReorgBlock, SnapFile, Blocks, InitDone
<1>16. CASE StoreChainState
  BY <1>16 DEF TypeOK, ServerInv, Safe, SafeReorgBlock, SnapFile, Blocks, StoreChainState
<1>17. ASSUME NEW s \in Services, ProcessPage(s) PROVE ServerInv'
  BY <1>17 DEF TypeOK, ServerInv, Safe, SafeReorgBlock, SnapFile, Blocks, ProcessPage
<1>18. ASSUME NEW g \in Gens, ListenerStart(g) PROVE ServerInv'
  BY <1>18 DEF TypeOK, ServerInv, Safe, SafeReorgBlock, SnapFile, Blocks, ListenerStart
<1>19. ASSUME NEW g \in Gens, TickFetch(g) PROVE ServerInv'
  BY <1>19 DEF TypeOK, ServerInv, Safe, SafeReorgBlock, SnapFile, Blocks, TickFetch
<1>20. ASSUME NEW g \in Gens, TickLock(g) PROVE ServerInv'
  BY <1>20 DEF TypeOK, ServerInv, Safe, SafeReorgBlock, SnapFile, Blocks, TickLock
<1>21. ASSUME NEW g \in Gens, TickApplied(g) PROVE ServerInv'
  BY <1>21 DEF TypeOK, ServerInv, Safe, SafeReorgBlock, SnapFile, Blocks, TickApplied
<1>22. ASSUME NEW g \in Gens, TickMove(g) PROVE ServerInv'
  BY <1>22 DEF TypeOK, ServerInv, Safe, SafeReorgBlock, SnapFile, Blocks, TickMove
<1>23. ASSUME NEW g \in Gens, ListenerStop(g) PROVE ServerInv'
  BY <1>23 DEF TypeOK, ServerInv, Safe, SafeReorgBlock, SnapFile, Blocks, ListenerStop
<1>24. CASE UNCHANGED vars
  BY <1>24 DEF TypeOK, ServerInv, Safe, SafeReorgBlock, SnapFile, Blocks, vars
<1> QED
  BY <1>1, <1>2, <1>3, <1>4, <1>5, <1>6, <1>7, <1>8, <1>9, <1>10, <1>11, <1>12, <1>13, <1>14,
     <1>15, <1>16, <1>17, <1>18, <1>19, <1>20, <1>21, <1>22, <1>23, <1>24
     DEF Next, Environment, Reset, Scan, Process, Listener

\* What is safe from reorganisations stays safe, and keeps its content.
LEMMA Settled ==
  ASSUME TypeOK, [Next]_vars
  PROVE  \A b \in Blocks : b <= Safe => (b <= Safe' /\ content'[b] = content[b])
<1> USE ChainSyncAssumption DEF chainVars, serverVars, resetVars, mutexVars, emitterVars
<1>1. ASSUME NEW c \in Contents, Mine(c)
      PROVE  \A b \in Blocks : b <= Safe => (b <= Safe' /\ content'[b] = content[b])
  BY <1>1 DEF TypeOK, Mine, Safe, SafeReorgBlock, Blocks
<1>2. ASSUME NEW d \in Blocks, NEW c \in Contents, Reorg(d, c)
      PROVE  \A b \in Blocks : b <= Safe => (b <= Safe' /\ content'[b] = content[b])
  BY <1>2 DEF TypeOK, Reorg, Safe, SafeReorgBlock, Blocks
<1>3. CASE UNCHANGED chainVars
  BY <1>3 DEF TypeOK, Safe, SafeReorgBlock, Blocks
<1> QED
  BY <1>1, <1>2, <1>3
     DEF Next, Environment, Reset, Scan, Process, Listener, ServerScan, ResetBegin,
         ClearOldCommitments, ClearOldNullifiers, LoadCommitments, LoadNullifiers, LoadFails,
         InitLock, InitHead, InitNothing, InitLogs, InitFails, InitDone, StoreChainState,
         ProcessPage, ListenerStart, TickFetch, TickLock, TickApplied, TickMove, ListenerStop, vars

\* What a file says it covers is in the payload that is populated from it.
LEMMA PayloadComplete ==
  ASSUME TypeOK, ServerInv, NEW s \in Services, NEW f \in SnapFile,
         f.latest <= f.upTo, f.upTo <= srv
  PROVE  \A b \in Blocks : b <= f.latest
           => b <= Safe /\ (content[b] # Empty => <<b, content[b]>> \in Payload(s, f))
<1> SUFFICES ASSUME NEW b \in Blocks, b <= f.latest
             PROVE  b <= Safe /\ (content[b] # Empty => <<b, content[b]>> \in Payload(s, f))
  OBVIOUS
<1>1. /\ f.latest \in Int /\ f.upTo \in Int /\ b \in Int /\ srv \in Int /\ Safe \in Int
      /\ 1 <= b /\ f.latest # 0
  BY ChainSyncAssumption DEF TypeOK, SnapFile, Blocks, Safe, SafeReorgBlock
<1>2. b <= Safe /\ b <= f.upTo
  BY <1>1 DEF ServerInv
<1>3. Payload(s, f) = EventsInRange(1, f.upTo)
  BY <1>1 DEF Payload
<1> QED
  BY <1>1, <1>2, <1>3, EventsInRangeFacts

\* A step that leaves the reset and the generation it builds alone keeps what is known of it.
LEMMA ResetInvKept ==
  ASSUME TypeOK, ControlInv, ResetInv, [Next]_vars, head' >= head, srv' >= srv,
         UNCHANGED <<rst, gen, wm, upTo, page, acc, tip, todo>>
  PROVE  ResetInv'
<1> SUFFICES ASSUME rst # "idle" PROVE ResetInv'
  BY DEF ResetInv
<1>1. /\ gen \in Gens /\ wm[gen] \in Int /\ upTo[gen] \in Int
      /\ srv \in Int /\ srv' \in Int /\ head \in Int /\ head' \in Int
  BY GenInGens, TypeStep DEF TypeOK
<1>2. rst = "apply" => PageCovers(gen, wm[gen] + 1)'
  BY Settled DEF ResetInv, PageCovers
<1>3. ASSUME NEW s \in Services, Complete(gen, s, wm[gen]) PROVE Complete(gen, s, wm[gen])'
  BY <1>3, Settled DEF Complete, Holds
<1>4. rst = "loadNullifiers" => wm[gen] <= srv' /\ Complete(gen, "commitments", wm[gen])'
  BY <1>1, <1>3 DEF ResetInv, Services
<1>5. rst = "lock" => wm[gen] <= srv' /\ \A s \in Services : Complete(gen, s, wm[gen])'
  BY <1>1, <1>3 DEF ResetInv
<1>6. rst = "apply" => Applied(gen)'
  BY DEF ResetInv, Applied
<1>7. rst = "logs" => wm[gen] < upTo[gen] /\ upTo[gen] <= head'
  BY <1>1 DEF ResetInv
<1> QED
  BY <1>2, <1>4, <1>5, <1>6, <1>7 DEF ResetInv

\* Along Init, what has been loaded and scanned is complete up to the watermark, whichever of
\* the files was older and whatever the listener of the old generation does meanwhile.
LEMMA ResetInvStep == TypeOK /\ ServerInv /\ ControlInv /\ MutexInv /\ ResetInv /\ [Next]_vars => ResetInv'
<1> SUFFICES ASSUME TypeOK, ServerInv, ControlInv, MutexInv, ResetInv, [Next]_vars PROVE ResetInv'
  OBVIOUS
<1> USE ChainSyncAssumption DEF chainVars, serverVars, resetVars, mutexVars, emitterVars, Put
<1>1. ASSUME NEW c \in Contents, Mine(c) PROVE ResetInv'
  BY <1>1, ResetInvKept DEF Mine, TypeOK
<1>2. ASSUME NEW b \in Blocks, NEW c \in Contents, Reorg(b, c) PROVE ResetInv'
  BY <1>2, GenInGens, Settled DEF TypeOK, ServerInv, ControlInv, MutexInv, ResetInv, Complete, Holds, PageCovers, Applied, Reorg
<1>3. ASSUME NEW to \in Blocks, NEW pub \in SUBSET Services, ServerScan(to, pub) PROVE ResetInv'
  BY <1>3, ResetInvKept DEF ServerScan, TypeOK, Blocks
<1>4. CASE ResetBegin
  BY <1>4, GenInGens, Settled DEF TypeOK, ServerInv, ControlInv, MutexInv, ResetInv, Complete, Holds, PageCovers, Applied, ResetBegin
<1>5. CASE ClearOldCommitments
  BY <1>5, GenInGens, Settled DEF TypeOK, ServerInv, ControlInv, MutexInv, ResetInv, Complete, Holds, PageCovers, Applied, ClearOldCommitments, IntervalClear
<1>6. CASE ClearOldNullifiers
  BY <1>6, GenInGens, Settled DEF TypeOK, ServerInv, ControlInv, MutexInv, ResetInv, Complete, Holds, PageCovers, Applied, ClearOldNullifiers, IntervalClear
<1>7. CASE LoadCommitments
  <2> DEFINE f == file["commitments"]
  <2>1. gen \in Gens /\ f \in SnapFile /\ f.latest <= f.upTo /\ f.upTo <= srv
    BY <1>7, GenInGens DEF LoadCommitments, TypeOK, ServerInv, Services
  <2>2. /\ rst' = "loadNullifiers" /\ gen' = gen /\ srv' = srv /\ wm'[gen] = f.latest
        /\ acc'[gen]["commitments"] = Payload("commitments", f)
        /\ UNCHANGED <<head, content>>
    BY <1>7, <2>1 DEF LoadCommitments, TypeOK, Services
  <2>3. Complete(gen, "commitments", wm[gen])'
    BY <2>1, <2>2, PayloadComplete DEF Complete, Holds, Safe, Services
  <2> QED
    BY <2>1, <2>2, <2>3 DEF ResetInv, SnapFile, TypeOK
<1>8. CASE LoadNullifiers
  <2>1. PICK f \in {cached["nullifiers"], file["nullifiers"]} :
          /\ acc' = [acc EXCEPT ![gen]["nullifiers"] = Payload("nullifiers", f)]
          /\ wm' = [wm EXCEPT ![gen] = AtMost(wm[gen], f.latest)]
    BY <1>8 DEF LoadNullifiers
  <2>2. gen \in Gens /\ f \in SnapFile /\ f.latest <= f.upTo /\ f.upTo <= srv
    BY <1>8, GenInGens DEF LoadNullifiers, TypeOK, ServerInv, Services
  <2>3. /\ rst' = "lock" /\ gen' = gen /\ srv' = srv /\ tip' = tip
        /\ wm'[gen] \in Int /\ wm[gen] \in Int
        /\ wm'[gen] <= f.latest /\ wm'[gen] <= wm[gen]
        /\ acc'[gen]["nullifiers"] = Payload("nullifiers", f)
        /\ acc'[gen]["commitments"] = acc[gen]["commitments"]
        /\ UNCHANGED <<head, content>>
    BY <1>8, <2>1, <2>2 DEF LoadNullifiers, TypeOK, Services, AtMost, SnapFile
  <2>4. Complete(gen, "commitments", wm[gen]) /\ wm[gen] <= srv
    BY <1>8 DEF ResetInv, LoadNullifiers
  <2>5. Complete(gen, "commitments", wm[gen])'
    BY <2>3, <2>4 DEF Complete, Holds, Safe, Blocks
  <2>6. Complete(gen, "nullifiers", wm[gen])'
    BY <2>2, <2>3, PayloadComplete DEF Complete, Holds, Safe, Services, Blocks, SnapFile
  <2> QED
    BY <2>2, <2>3, <2>4, <2>5, <2>6 DEF ResetInv, Services, TypeOK
<1>9. CASE LoadFails
  BY <1>9, GenInGens, Settled DEF TypeOK, ServerInv, ControlInv, MutexInv, ResetInv, Complete, Holds, PageCovers, Applied, LoadFails
<1>10. CASE InitLock
  BY <1>10, GenInGens, Settled DEF TypeOK, ServerInv, ControlInv, MutexInv, ResetInv, Complete, Holds, PageCovers, Applied, InitLock
<1>11. ASSUME NEW last \in 0..head, InitHead(last) PROVE ResetInv'
  BY <1>11, GenInGens, Settled DEF TypeOK, ServerInv, ControlInv, MutexInv, ResetInv, Complete, Holds, PageCovers, Applied, InitHead
<1>12. ASSUME NEW last \in 0..head, InitNothing(last) PROVE ResetInv'
  BY <1>12, GenInGens, Settled DEF TypeOK, ServerInv, ControlInv, MutexInv, ResetInv, Complete, Holds, PageCovers, Applied, InitNothing
<1>13. CASE InitLogs
  <2>1. gen \in Gens
    BY <1>13, GenInGens DEF InitLogs
  <2>2. /\ rst' = "apply" /\ gen' = gen /\ wm' = wm /\ upTo' = upTo
        /\ UNCHANGED <<head, content>>
        /\ page'[gen] = EventsInRange(wm[gen] + 1, upTo[gen])
        /\ tip'[gen] = {b \in Blocks : wm[gen] < b /\ b <= upTo[gen] /\ b > Safe}
        /\ wm[gen] < upTo[gen]
    BY <1>13, <2>1 DEF InitLogs, TypeOK, ResetInv
  <2>3. PageCovers(gen, wm[gen] + 1)'
    <3>1. wm[gen] \in Int /\ upTo[gen] \in Int /\ Safe \in Int /\ Safe' = Safe
      BY <2>1, <2>2 DEF TypeOK, Safe, SafeReorgBlock
    <3>2. \A b \in Blocks : (wm[gen] + 1 <= b /\ b <= upTo[gen] /\ content[b] # Empty)
                            => <<b, content[b]>> \in page'[gen]
      BY <2>2, EventsInRangeFacts
    <3>3. \A b \in Blocks : (wm[gen] + 1 <= b /\ b <= upTo[gen] /\ b \notin tip'[gen]) => b <= Safe
      BY <2>2, <3>1 DEF Blocks
    <3> QED
      BY <2>2, <3>1, <3>2, <3>3 DEF PageCovers
  <2>4. todo' = Services
    BY <1>13 DEF InitLogs, Processors, ControlInv
  <2>5. Applied(gen)'
    BY <2>4 DEF Applied
  <2> QED
    BY <2>1, <2>2, <2>3, <2>5 DEF ResetInv
<1>14. CASE InitFails
  BY <1>14, GenInGens, Settled DEF TypeOK, ServerInv, ControlInv, MutexInv, ResetInv, Complete, Holds, PageCovers, Applied, InitFails
<1>15. CASE InitDone
  BY <1>15, GenInGens, Settled DEF TypeOK, ServerInv, ControlInv, MutexInv, ResetInv, Complete, Holds, PageCovers, Applied, InitDone
<1>16. CASE StoreChainState
  BY <1>16, GenInGens, Settled DEF TypeOK, ServerInv, ControlInv, MutexInv, ResetInv, Complete, Holds, PageCovers, Applied, StoreChainState
<1>17. ASSUME NEW s \in Services, ProcessPage(s) PROVE ResetInv'
  BY <1>17, GenInGens, Settled DEF TypeOK, ServerInv, ControlInv, MutexInv, ResetInv, Complete, Holds, PageCovers, Applied, ProcessPage
<1>18. ASSUME NEW g \in Gens, ListenerStart(g) PROVE ResetInv'
  BY <1>18, GenInGens, Settled DEF TypeOK, ServerInv, ControlInv, MutexInv, ResetInv, Complete, Holds, PageCovers, Applied, ListenerStart
<1>19. ASSUME NEW g \in Gens, TickFetch(g) PROVE ResetInv'
  BY <1>19, GenInGens, Settled DEF TypeOK, ServerInv, ControlInv, MutexInv, ResetInv, Complete, Holds, PageCovers, Applied, TickFetch
<1>20. ASSUME NEW g \in Gens, TickLock(g) PROVE ResetInv'
  BY <1>20, GenInGens, Settled DEF TypeOK, ServerInv, ControlInv, MutexInv, ResetInv, Complete, Holds, PageCovers, Applied, TickLock
<1>21. ASSUME NEW g \in Gens, TickApplied(g) PROVE ResetInv'
  BY <1>21, GenInGens, Settled DEF TypeOK, ServerInv, ControlInv, MutexInv, ResetInv, Complete, Holds, PageCovers, Applied, TickApplied
<1>22. ASSUME NEW g \in Gens, TickMove(g) PROVE ResetInv'
  BY <1>22, GenInGens, Settled DEF TypeOK, ServerInv, ControlInv, MutexInv, ResetInv, Complete, Holds, PageCovers, Applied, TickMove
<1>23. ASSUME NEW g \in Gens, ListenerStop(g) PROVE ResetInv'
  BY <1>23, GenInGens, Settled DEF TypeOK, ServerInv, ControlInv, MutexInv, ResetInv, Complete, Holds, PageCovers, Applied, ListenerStop
<1>24. CASE UNCHANGED vars
  BY <1>24, GenInGens, Settled DEF TypeOK, ServerInv, ControlInv, MutexInv, ResetInv, Complete, Holds, PageCovers, Applied, vars
<1> QED
  BY <1>1, <1>2, <1>3, <1>4, <1>5, <1>6, <1>7, <1>8, <1>9, <1>10, <1>11, <1>12, <1>13, <1>14,
     <1>15, <1>16, <1>17, <1>18, <1>19, <1>20, <1>21, <1>22, <1>23, <1>24
     DEF Next, Environment, Reset, Scan, Process, Listener

\* A generation none of whose own variables change, except that its services may gain events,
\* stays accounted for.
LEMMA AccountedKept ==
  ASSUME TypeOK, [Next]_vars, NEW k \in Gens, Accounted(k),
         wm'[k] = wm[k], lis'[k] = lis[k], fetchFrom'[k] = fetchFrom[k],
         upTo'[k] = upTo[k], page'[k] = page[k], tip'[k] = tip[k],
         \A s \in Services : acc[k][s] \subseteq acc'[k][s],
         lis[k] = "apply" => \A s \in Services \ todo' : page[k] \subseteq acc'[k][s]
  PROVE  Accounted(k)'
<1>1. Frontier(k)' = Frontier(k)
  BY DEF Frontier
<1>2. ASSUME NEW s \in Services PROVE Complete(k, s, Frontier(k))'
  BY <1>1, <1>2, Settled DEF Accounted, Complete, Holds
<1>3. lis[k] \in {"deliver", "apply"} => PageCovers(k, fetchFrom[k])'
  BY Settled DEF Accounted, PageCovers
<1> QED
  BY <1>1, <1>2, <1>3 DEF Accounted, Applied

\* A generation that is complete up to its watermark is accounted for until its listener starts.
LEMMA AccountedFresh ==
  ASSUME TypeOK', NEW k \in Gens, lis'[k] \in {"none", "spawned"},
         \A s \in Services : Complete(k, s, wm[k])'
  PROVE  Accounted(k)'
<1>1. Frontier(k)' = wm'[k] /\ wm'[k] \in Int
  BY DEF Frontier, TypeOK
<1> QED
  BY <1>1 DEF Accounted

\* Every ready generation stays accounted for: the cursor of its listener, the page in flight
\* and the watermark fit together after every step of it and of the others.
LEMMA ListenerInvStep ==
  TypeOK /\ ServerInv /\ ControlInv /\ MutexInv /\ ResetInv /\ ListenerInv /\ [Next]_vars => ListenerInv'
<1> SUFFICES ASSUME TypeOK, ServerInv, ControlInv, MutexInv, ResetInv, ListenerInv,
                    [Next]_vars, NEW k \in Gens, ready'[k]
             PROVE  Accounted(k)'
  BY DEF ListenerInv
<1> USE ChainSyncAssumption DEF chainVars, serverVars, resetVars, mutexVars, emitterVars, Put
<1>1. ASSUME NEW c \in Contents, Mine(c) PROVE Accounted(k)'
  BY <1>1, GenInGens, AccountedKept DEF TypeOK, ControlInv, MutexInv, ListenerInv, Applied, Accounted, Mine
<1>2. ASSUME NEW b \in Blocks, NEW c \in Contents, Reorg(b, c) PROVE Accounted(k)'
  BY <1>2, GenInGens, AccountedKept DEF TypeOK, ControlInv, MutexInv, ListenerInv, Applied, Accounted, Reorg
<1>3. ASSUME NEW to \in Blocks, NEW pub \in SUBSET Services, ServerScan(to, pub) PROVE Accounted(k)'
  BY <1>3, GenInGens, AccountedKept DEF TypeOK, ControlInv, MutexInv, ListenerInv, Applied, Accounted, ServerScan
<1>4. CASE ResetBegin
  BY <1>4, GenInGens, AccountedKept DEF TypeOK, ControlInv, MutexInv, ListenerInv, Applied, Accounted, ResetBegin
<1>5. CASE ClearOldCommitments
  BY <1>5, GenInGens, AccountedKept DEF TypeOK, ControlInv, MutexInv, ListenerInv, Applied, Accounted, ClearOldCommitments, IntervalClear
<1>6. CASE ClearOldNullifiers
  BY <1>6, GenInGens, AccountedKept DEF TypeOK, ControlInv, MutexInv, ListenerInv, Applied, Accounted, ClearOldNullifiers, IntervalClear
<1>7. CASE LoadCommitments
  BY <1>7, GenInGens, AccountedKept DEF TypeOK, ControlInv, MutexInv, ListenerInv, Applied, Accounted, LoadCommitments
<1>8. CASE LoadNullifiers
  BY <1>8, GenInGens, AccountedKept, ZenonT(30) DEF TypeOK, ControlInv, MutexInv, ListenerInv, Applied, Accounted, LoadNullifiers
<1>9. CASE LoadFails
  BY <1>9, GenInGens, AccountedKept DEF TypeOK, ControlInv, MutexInv, ListenerInv, Applied, Accounted, LoadFails
<1>10. CASE InitLock
  <2>1. CASE k # gen
    BY <1>10, <2>1, AccountedKept, GenInGens
       DEF InitLock, TypeOK, ControlInv, MutexInv, ListenerInv, Accounted, Applied
  <2>2. CASE k = gen
    <3>1. /\ gen \in Gens /\ rst = "lock" /\ lis[gen] = "none"
          /\ UNCHANGED <<head, content, wm, lis, acc, tip>>
      BY <1>10, GenInGens DEF InitLock, ControlInv
    <3>2. \A s \in Services : Complete(k, s, wm[k])'
      BY <2>2, <3>1 DEF ResetInv, Complete, Holds, Safe
    <3> QED
      BY <2>2, <3>1, <3>2, AccountedFresh, TypeStep
  <2> QED
    BY <2>1, <2>2
<1>11. ASSUME NEW last \in 0..head, InitHead(last) PROVE Accounted(k)'
  <2>1. CASE k # gen
    BY <1>11, <2>1, AccountedKept, GenInGens
       DEF InitHead, TypeOK, ControlInv, MutexInv, ListenerInv, Accounted, Applied
  <2>2. CASE k = gen
    <3>1. /\ gen \in Gens /\ lis[gen] = "none" /\ ready[gen]
          /\ UNCHANGED <<head, content, wm, lis, acc, tip>>
      BY <1>11, <2>2, GenInGens DEF InitHead, ControlInv
    <3>2. \A s \in Services : Complete(k, s, wm[k])'
      BY <2>2, <3>1 DEF ListenerInv, Accounted, Frontier, Complete, Holds, Safe
    <3> QED
      BY <2>2, <3>1, <3>2, AccountedFresh, TypeStep
  <2> QED
    BY <2>1, <2>2
<1>12. ASSUME NEW last \in 0..head, InitNothing(last) PROVE Accounted(k)'
  <2>1. CASE k # gen
    BY <1>12, <2>1, AccountedKept, GenInGens
       DEF InitNothing, TypeOK, ControlInv, MutexInv, ListenerInv, Accounted, Applied
  <2>2. CASE k = gen
    <3>1. /\ gen \in Gens /\ lis[gen] = "none" /\ lis'[gen] = "spawned" /\ ready[gen]
          /\ UNCHANGED <<head, content, wm, acc, tip>>
      BY <1>12, <2>2, GenInGens DEF InitNothing, ControlInv, TypeOK
    <3>2. \A s \in Services : Complete(k, s, wm[k])'
      BY <2>2, <3>1 DEF ListenerInv, Accounted, Frontier, Complete, Holds, Safe
    <3> QED
      BY <2>2, <3>1, <3>2, AccountedFresh, TypeStep
  <2> QED
    BY <2>1, <2>2
<1>13. CASE InitLogs
  <2>1. CASE k # gen
    BY <1>13, <2>1, AccountedKept, GenInGens
       DEF InitLogs, TypeOK, ControlInv, MutexInv, ListenerInv, Accounted, Applied
  <2>2. CASE k = gen
    <3>1. /\ gen \in Gens /\ lis[gen] = "none" /\ ready[gen] /\ tip[gen] = {}
          /\ UNCHANGED <<head, content, wm, lis, acc>>
          /\ \A b \in tip'[gen] : wm[gen] < b
      BY <1>13, <2>2, GenInGens DEF InitLogs, ControlInv, TypeOK
    <3>2. \A s \in Services : Complete(k, s, wm[k])'
      BY <2>2, <3>1 DEF ListenerInv, Accounted, Frontier, Complete, Holds, Safe
    <3> QED
      BY <2>2, <3>1, <3>2, AccountedFresh, TypeStep
  <2> QED
    BY <2>1, <2>2
<1>14. CASE InitFails
  BY <1>14, GenInGens, AccountedKept DEF TypeOK, ControlInv, MutexInv, ListenerInv, Applied, Accounted, InitFails
<1>15. CASE InitDone
  <2>1. CASE k # gen
    <3>1. /\ gen \in Gens /\ todo = {} /\ todo' = {} /\ ready' = ready
          /\ UNCHANGED <<acc, tip, fetchFrom, upTo>>
          /\ wm'[k] = wm[k] /\ lis'[k] = lis[k] /\ page'[k] = page[k]
      BY <1>15, <2>1, GenInGens DEF InitDone, TypeOK, ControlInv
    <3>2. Accounted(k)
      BY <3>1 DEF ListenerInv
    <3>3. lis[k] = "apply" => \A s \in Services \ todo' : page[k] \subseteq acc'[k][s]
      BY <3>1, <3>2 DEF Accounted, Applied
    <3> QED
      BY <3>1, <3>2, <3>3, AccountedKept
  <2>2. CASE k = gen
    <3>1. /\ gen \in Gens /\ lis[gen] = "none" /\ lis'[gen] = "spawned" /\ ready[gen]
          /\ wm'[gen] = upTo[gen] /\ wm[gen] \in Int /\ upTo[gen] \in Int
          /\ todo = {} /\ UNCHANGED <<head, content, acc, tip>>
      BY <1>15, <2>2, GenInGens DEF InitDone, ControlInv, TypeOK
    <3>2. \A s \in Services : Complete(gen, s, wm[gen])
      BY <2>2, <3>1 DEF ListenerInv, Accounted, Frontier
    <3>3. /\ PageCovers(gen, wm[gen] + 1)
          /\ \A s \in Services : page[gen] \subseteq acc[gen][s]
      BY <1>15, <3>1 DEF InitDone, ResetInv, Applied
    <3>4. \A s \in Services : Complete(k, s, wm[k])'
      BY <2>2, <3>1, <3>2, <3>3 DEF PageCovers, Complete, Holds, Safe, Blocks
    <3> QED
      BY <2>2, <3>1, <3>4, AccountedFresh, TypeStep
  <2> QED
    BY <2>1, <2>2
<1>16. CASE StoreChainState
  BY <1>16, GenInGens, AccountedKept DEF TypeOK, ControlInv, MutexInv, ListenerInv, Applied, Accounted, StoreChainState
<1>17. ASSUME NEW s \in Services, ProcessPage(s) PROVE Accounted(k)'
  <2>1. /\ UNCHANGED <<head, content, wm, ready, lis, fetchFrom, upTo, page, tip, lock>>
        /\ todo' = todo \ {s}
        /\ \A t \in Services : acc[k][t] \subseteq acc'[k][t]
    BY <1>17 DEF ProcessPage, TypeOK
  <2>2. lis[k] = "apply" => page[k] \subseteq acc'[k][s]
    BY <1>17 DEF ProcessPage, TypeOK, MutexInv
  <2>3. lis[k] = "apply" => \A t \in Services \ todo' : page[k] \subseteq acc'[k][t]
    BY <2>1, <2>2 DEF ListenerInv, Accounted, Applied
  <2> QED
    BY <2>1, <2>3, AccountedKept DEF ListenerInv
<1>18. ASSUME NEW g \in Gens, ListenerStart(g) PROVE Accounted(k)'
  <2>1. CASE k # g
    BY <1>18, <2>1, AccountedKept, GenInGens
       DEF ListenerStart, TypeOK, ControlInv, MutexInv, ListenerInv, Accounted, Applied
  <2>2. CASE k = g
    <3>1. /\ lis[g] = "spawned" /\ lis'[g] = "wait" /\ ready[g]
          /\ fetchFrom'[g] = wm[g] + 1 /\ wm[g] \in Int
          /\ UNCHANGED <<head, content, wm, acc, tip>>
      BY <1>18, <2>2 DEF ListenerStart, TypeOK
    <3>2. Frontier(g) = wm[g] /\ Frontier(g)' = wm[g]
      BY <3>1 DEF Frontier
    <3>3. \A s \in Services : Complete(g, s, Frontier(g))'
      BY <2>2, <3>1, <3>2 DEF ListenerInv, Accounted, Complete, Holds, Safe
    <3> QED
      BY <2>2, <3>1, <3>2, <3>3 DEF Accounted
  <2> QED
    BY <2>1, <2>2
<1>19. ASSUME NEW g \in Gens, TickFetch(g) PROVE Accounted(k)'
  <2>1. CASE k # g
    <3>1. /\ ready' = ready /\ todo' = todo /\ UNCHANGED <<wm, acc, tip, fetchFrom>>
          /\ upTo'[k] = upTo[k] /\ lis'[k] = lis[k] /\ page'[k] = page[k]
      BY <1>19, <2>1 DEF TickFetch, TypeOK
    <3>2. Accounted(k)
      BY <3>1 DEF ListenerInv
    <3>3. lis[k] = "apply" => \A s \in Services \ todo' : page[k] \subseteq acc'[k][s]
      BY <3>1, <3>2 DEF Accounted, Applied
    <3> QED
      BY <3>1, <3>2, <3>3, AccountedKept
  <2>2. CASE k = g
    <3> DEFINE range == EventsInRange(fetchFrom[g], srv)
    <3>1. /\ lis[g] = "wait" /\ ready[g] /\ fetchFrom[g] \in Int /\ wm[g] \in Int /\ srv \in Int
          /\ upTo'[g] = srv /\ page'[g] = range /\ fetchFrom[g] <= srv
          /\ lis'[g] = IF range = {} THEN "move" ELSE "deliver"
          /\ UNCHANGED <<head, content, wm, fetchFrom, acc, tip>>
      BY <1>19, <2>2 DEF TickFetch, TypeOK
    <3>2. /\ Frontier(g) = fetchFrom[g] - 1
          /\ wm[g] <= fetchFrom[g]
          /\ \A s \in Services : Complete(g, s, fetchFrom[g] - 1)
      BY <2>2, <3>1 DEF Frontier, ListenerInv, Accounted
    <3>3. \A b \in Blocks : (fetchFrom[g] <= b /\ b <= srv)
             => b <= Safe /\ (content[b] # Empty => <<b, content[b]>> \in range)
      BY <3>1, EventsInRangeFacts, SMTT(30) DEF ServerInv, Blocks, Safe, SafeReorgBlock, TypeOK
    <3>4. CASE range = {}
      <4>1. Frontier(g)' = srv
        BY <3>1, <3>4 DEF Frontier
      <4>2. \A s \in Services : Complete(g, s, Frontier(g))'
        BY <3>1, <3>2, <3>3, <3>4, <4>1 DEF Complete, Holds, Safe, Blocks
      <4> QED
        BY <2>2, <3>1, <3>2, <3>4, <4>1, <4>2 DEF Accounted
    <3>5. CASE range # {}
      <4>1. Frontier(g)' = fetchFrom[g] - 1 /\ lis'[g] = "deliver"
        BY <3>1, <3>5 DEF Frontier
      <4>2. \A s \in Services : Complete(g, s, Frontier(g))'
        BY <3>1, <3>2, <4>1 DEF Complete, Holds, Safe
      <4>3. PageCovers(g, fetchFrom[g])'
        BY <3>1, <3>3 DEF PageCovers, Safe
      <4> QED
        BY <2>2, <3>1, <3>2, <4>1, <4>2, <4>3 DEF Accounted
    <3> QED
      BY <3>4, <3>5
  <2> QED
    BY <2>1, <2>2
<1>20. ASSUME NEW g \in Gens, TickLock(g) PROVE Accounted(k)'
  <2>1. CASE k # g
    BY <1>20, <2>1, AccountedKept, GenInGens
       DEF TickLock, TypeOK, ControlInv, MutexInv, ListenerInv, Accounted, Applied
  <2>2. CASE k = g
    <3>1. /\ lis[g] = "deliver" /\ lis'[g] = "apply" /\ ready[g] /\ hooked[g]
          /\ todo' = Services
          /\ UNCHANGED <<head, content, wm, fetchFrom, upTo, page, acc, tip>>
      BY <1>20, <2>2 DEF TickLock, TypeOK, Processors, ControlInv
    <3>2. Frontier(g) = fetchFrom[g] - 1 /\ Frontier(g)' = fetchFrom[g] - 1
      BY <3>1 DEF Frontier
    <3>3. \A s \in Services : Complete(g, s, Frontier(g))'
      BY <2>2, <3>1, <3>2 DEF ListenerInv, Accounted, Complete, Holds, Safe
    <3>4. PageCovers(g, fetchFrom[g])'
      BY <2>2, <3>1 DEF ListenerInv, Accounted, PageCovers, Safe
    <3> QED
      BY <2>2, <3>1, <3>2, <3>3, <3>4 DEF ListenerInv, Accounted, Applied
  <2> QED
    BY <2>1, <2>2
<1>21. ASSUME NEW g \in Gens, TickApplied(g) PROVE Accounted(k)'
  <2>1. CASE k # g
    <3>1. /\ lis[k] # "apply" /\ ready[k]
          /\ UNCHANGED <<acc, tip, fetchFrom, upTo>>
          /\ wm'[k] = wm[k] /\ lis'[k] = lis[k] /\ page'[k] = page[k]
      BY <1>21, <2>1 DEF TickApplied, TypeOK, MutexInv
    <3> QED
      BY <3>1, AccountedKept DEF ListenerInv
  <2>2. CASE k = g
    <3>1. /\ lis[g] = "apply" /\ lis'[g] = "move" /\ ready[g] /\ todo = {}
          /\ wm[g] \in Int /\ upTo[g] \in Int /\ fetchFrom[g] \in Int
          /\ wm'[g] = Advance(wm[g], upTo[g])
          /\ UNCHANGED <<head, content, fetchFrom, upTo, acc, tip>>
      BY <1>21, <2>2 DEF TickApplied, TypeOK
    <3>2. /\ wm[g] <= fetchFrom[g] /\ fetchFrom[g] <= upTo[g]
          /\ \A s \in Services : Complete(g, s, fetchFrom[g] - 1)
          /\ PageCovers(g, fetchFrom[g])
          /\ \A s \in Services : page[g] \subseteq acc[g][s]
      BY <2>2, <3>1 DEF ListenerInv, Accounted, Frontier, Applied
    <3>3. Frontier(g)' = upTo[g] /\ wm'[g] <= upTo[g] + 1
      BY <3>1, <3>2 DEF Frontier, Advance
    <3>4. \A s \in Services : Complete(g, s, Frontier(g))'
      BY <3>1, <3>2, <3>3 DEF Complete, PageCovers, Holds, Safe, Blocks
    <3> QED
      BY <2>2, <3>1, <3>3, <3>4 DEF Accounted
  <2> QED
    BY <2>1, <2>2
<1>22. ASSUME NEW g \in Gens, TickMove(g) PROVE Accounted(k)'
  <2>1. CASE k # g
    BY <1>22, <2>1, AccountedKept, GenInGens, ZenonT(30)
       DEF TickMove, TypeOK, ControlInv, MutexInv, ListenerInv, Accounted, Applied
  <2>2. CASE k = g
    <3>1. /\ lis[g] = "move" /\ lis'[g] = "wait" /\ ready[g]
          /\ wm[g] \in Int /\ upTo[g] \in Int
          /\ fetchFrom'[g] = upTo[g] + 1
          /\ wm'[g] = Advance(wm[g], upTo[g] + 1)
          /\ UNCHANGED <<head, content, acc, tip>>
      BY <1>22, <2>2 DEF TickMove, TypeOK
    <3>2. wm[g] <= upTo[g] + 1 /\ \A s \in Services : Complete(g, s, upTo[g])
      BY <2>2, <3>1 DEF ListenerInv, Accounted, Frontier
    <3>3. Frontier(g)' = upTo[g] /\ wm'[g] <= upTo[g] + 1
      BY <3>1, <3>2 DEF Frontier, Advance
    <3>4. \A s \in Services : Complete(g, s, Frontier(g))'
      BY <3>1, <3>2, <3>3 DEF Complete, Holds, Safe
    <3> QED
      BY <2>2, <3>1, <3>3, <3>4 DEF Accounted
  <2> QED
    BY <2>1, <2>2
<1>23. ASSUME NEW g \in Gens, ListenerStop(g) PROVE Accounted(k)'
  <2>1. CASE k # g
    BY <1>23, <2>1, AccountedKept, GenInGens
       DEF ListenerStop, TypeOK, ControlInv, MutexInv, ListenerInv, Accounted, Applied
  <2>2. CASE k = g
    <3>1. /\ lis[g] = "wait" /\ lis'[g] = "stopped" /\ ready[g]
          /\ UNCHANGED <<head, content, wm, fetchFrom, acc, tip>>
      BY <1>23, <2>2 DEF ListenerStop, TypeOK
    <3>2. Frontier(g)' = Frontier(g)
      BY <3>1 DEF Frontier
    <3>3. \A s \in Services : Complete(g, s, Frontier(g))'
      BY <2>2, <3>1, <3>2 DEF ListenerInv, Accounted, Complete, Holds, Safe
    <3> QED
      BY <2>2, <3>1, <3>2, <3>3 DEF ListenerInv, Accounted
  <2> QED
    BY <2>1, <2>2
<1>24. CASE UNCHANGED vars
  BY <1>24, GenInGens, AccountedKept DEF TypeOK, ControlInv, MutexInv, ListenerInv, Applied, Accounted, vars
<1> QED
  BY <1>1, <1>2, <1>3, <1>4, <1>5, <1>6, <1>7, <1>8, <1>9, <1>10, <1>11, <1>12, <1>13, <1>14,
     <1>15, <1>16, <1>17, <1>18, <1>19, <1>20, <1>21, <1>22, <1>23, <1>24
     DEF Next, Environment, Reset, Scan, Process, Listener

\* Only the served generation, or its successor about to be stored, has processors and a
\* listener, since the old one is cleared before the new one is loaded.
LEMMA FeederInvStep == TypeOK /\ ControlInv /\ FeederInv /\ [Next]_vars => FeederInv'
<1> SUFFICES ASSUME TypeOK, ControlInv, FeederInv, [Next]_vars PROVE FeederInv'
  OBVIOUS
<1> USE ChainSyncAssumption DEF chainVars, serverVars, resetVars, mutexVars, emitterVars, Put
<1>1. ASSUME NEW c \in Contents, Mine(c) PROVE FeederInv'
  BY <1>1, GenInGens DEF TypeOK, ControlInv, FeederInv, Gens, Mine
<1>2. ASSUME NEW b \in Blocks, NEW c \in Contents, Reorg(b, c) PROVE FeederInv'
  BY <1>2, GenInGens DEF TypeOK, ControlInv, FeederInv, Gens, Reorg
<1>3. ASSUME NEW to \in Blocks, NEW pub \in SUBSET Services, ServerScan(to, pub) PROVE FeederInv'
  BY <1>3, GenInGens DEF TypeOK, ControlInv, FeederInv, Gens, ServerScan
<1>4. CASE ResetBegin
  BY <1>4, GenInGens DEF TypeOK, ControlInv, FeederInv, Gens, ResetBegin
<1>5. CASE ClearOldCommitments
  BY <1>5, GenInGens DEF TypeOK, ControlInv, FeederInv, Gens, ClearOldCommitments, IntervalClear
<1>6. CASE ClearOldNullifiers
  BY <1>6, GenInGens DEF TypeOK, ControlInv, FeederInv, Gens, ClearOldNullifiers, IntervalClear
<1>7. CASE LoadCommitments
  BY <1>7, GenInGens DEF TypeOK, ControlInv, FeederInv, Gens, LoadCommitments
<1>8. CASE LoadNullifiers
  BY <1>8, GenInGens DEF TypeOK, ControlInv, FeederInv, Gens, LoadNullifiers
<1>9. CASE LoadFails
  BY <1>9, GenInGens DEF TypeOK, ControlInv, FeederInv, Gens, LoadFails
<1>10. CASE InitLock
  BY <1>10, GenInGens DEF TypeOK, ControlInv, FeederInv, Gens, InitLock
<1>11. ASSUME NEW last \in 0..head, InitHead(last) PROVE FeederInv'
  BY <1>11, GenInGens DEF TypeOK, ControlInv, FeederInv, Gens, InitHead
<1>12. ASSUME NEW last \in 0..head, InitNothing(last) PROVE FeederInv'
  BY <1>12, GenInGens DEF TypeOK, ControlInv, FeederInv, Gens, InitNothing
<1>13. CASE InitLogs
  BY <1>13, GenInGens DEF TypeOK, ControlInv, FeederInv, Gens, InitLogs
<1>14. CASE InitFails
  BY <1>14, GenInGens DEF TypeOK, ControlInv, FeederInv, Gens, InitFails
<1>15. CASE InitDone
  BY <1>15, GenInGens DEF TypeOK, ControlInv, FeederInv, Gens, InitDone
<1>16. CASE StoreChainState
  BY <1>16, GenInGens DEF TypeOK, ControlInv, FeederInv, Gens, StoreChainState
<1>17. ASSUME NEW s \in Services, ProcessPage(s) PROVE FeederInv'
  BY <1>17, GenInGens DEF TypeOK, ControlInv, FeederInv, Gens, ProcessPage
<1>18. ASSUME NEW g \in Gens, ListenerStart(g) PROVE FeederInv'
  BY <1>18, GenInGens DEF TypeOK, ControlInv, FeederInv, Gens, ListenerStart
<1>19. ASSUME NEW g \in Gens, TickFetch(g) PROVE FeederInv'
  BY <1>19, GenInGens DEF TypeOK, ControlInv, FeederInv, Gens, TickFetch
<1>20. ASSUME NEW g \in Gens, TickLock(g) PROVE FeederInv'
  BY <1>20, GenInGens DEF TypeOK, ControlInv, FeederInv, Gens, TickLock
<1>21. ASSUME NEW g \in Gens, TickApplied(g) PROVE FeederInv'
  BY <1>21, GenInGens DEF TypeOK, ControlInv, FeederInv, Gens, TickApplied
<1>22. ASSUME NEW g \in Gens, TickMove(g) PROVE FeederInv'
  BY <1>22, GenInGens DEF TypeOK, ControlInv, FeederInv, Gens, TickMove
<1>23. ASSUME NEW g \in Gens, ListenerStop(g) PROVE FeederInv'
  BY <1>23, GenInGens DEF TypeOK, ControlInv, FeederInv, Gens, ListenerStop
<1>24. CASE UNCHANGED vars
  BY <1>24, GenInGens DEF TypeOK, ControlInv, FeederInv, Gens, vars
<1> QED
  BY <1>1, <1>2, <1>3, <1>4, <1>5, <1>6, <1>7, <1>8, <1>9, <1>10, <1>11, <1>12, <1>13, <1>14,
     <1>15, <1>16, <1>17, <1>18, <1>19, <1>20, <1>21, <1>22, <1>23, <1>24
     DEF Next, Environment, Reset, Scan, Process, Listener

-----------------------------------------------------------------------------
(* Theorems *)

\* The inductive invariant holds of a new instance.
LEMMA IInvInit == Init => IInv
<1> SUFFICES ASSUME Init PROVE IInv
  OBVIOUS
<1>1. TypeOK
  BY TypeInit
<1>2. ServerInv
  BY ChainSyncAssumption DEF Init, ServerInv, Safe, SafeReorgBlock, Services
<1>3. ControlInv /\ MutexInv /\ ResetInv /\ FeederInv /\ ListenerInv
  BY DEF Init, FeederInv, ControlInv, MutexInv, ResetInv, ListenerInv, Gens
<1> QED
  BY <1>1, <1>2, <1>3 DEF IInv

\* Every step keeps the inductive invariant, each part by its own lemma.
LEMMA IInvStep == IInv /\ [Next]_vars => IInv'
  BY TypeStep, ServerInvStep, ControlInvStep, MutexInvStep, ResetInvStep, FeederInvStep,
     ListenerInvStep
     DEF IInv

\* The inductive invariant holds of every state: what each emitter's watermark, cursor and page
\* say of its services is true, for any bounds and any interleaving of resets and listeners.
THEOREM Inductive == Spec => []IInv
  BY IInvInit, IInvStep, PTL DEF Spec

\* Every variable keeps its type: in particular no watermark, cursor or page leaves the
\* blocks that exist.
THEOREM TypeCorrect == Spec => []TypeOK
  BY Inductive, PTL DEF IInv

\* The services of an emitter that is ready hold the event of every settled block below its
\* watermark, for any number of resets, blocks and contents and any reorganisation depth.
THEOREM CoverageHolds == Spec => []Coverage
<1>1. IInv => Coverage
  <2> SUFFICES ASSUME IInv, NEW g \in Gens, ready[g], NEW s \in Services, NEW b \in Blocks,
                      b < wm[g], b \notin tip[g]
               PROVE  Holds(g, s, b)
    BY DEF Coverage
  <2>1. wm[g] <= Frontier(g) + 1 /\ Complete(g, s, Frontier(g))
    BY DEF IInv, ListenerInv, Accounted
  <2>2. wm[g] \in Int /\ Frontier(g) \in Int /\ b \in Int
    BY DEF IInv, TypeOK, Frontier, Blocks
  <2> QED
    BY <2>1, <2>2 DEF Complete
<1> QED
  BY Inductive, <1>1, PTL

\* The emitter that is being replaced is disconnected from its services before the listener of
\* the next one is spawned, for any number of resets and wherever the old listener stands.
THEOREM SingleFeederHolds == Spec => []SingleFeeder
<1>1. IInv => SingleFeeder
  <2> SUFFICES ASSUME IInv, NEW g \in Gens, NEW k \in Gens,
                      hooked[g], lis[g] # "none", hooked[k], lis[k] # "none"
               PROVE  g = k
    BY DEF SingleFeeder
  <2>1. \A j \in {g, k} : j = served \/ (j = gen /\ rst = "store")
    BY DEF IInv, FeederInv
  <2>2. rst = "store" => \A j \in {g, k} : j # served
    BY DEF IInv, FeederInv, Gens
  <2> QED
    BY <2>1, <2>2
<1> QED
  BY Inductive, <1>1, PTL

\* The watermark of a ready emitter never goes back, whatever block the node reports.
THEOREM WatermarkMonotoneHolds == Spec => WatermarkMonotone
<1> DEFINE Kept == \A g \in Gens : (ready[g] /\ ready'[g]) => wm'[g] >= wm[g]
<1>1. ASSUME IInv, [Next]_vars PROVE Kept
  <2> SUFFICES ASSUME NEW k \in Gens, ready[k], ready'[k] PROVE wm'[k] >= wm[k]
    OBVIOUS
  <2> USE <1>1 DEF IInv, TypeOK, Put, chainVars, serverVars, resetVars, mutexVars, emitterVars
  <2>1. wm[k] \in Int
    OBVIOUS
  <2>2. CASE InitDone
    BY <2>2, GenInGens DEF InitDone, ResetInv
  <2>3. ASSUME NEW g \in Gens, TickApplied(g) \/ TickMove(g) PROVE wm'[k] >= wm[k]
    BY <2>1, <2>3 DEF TickApplied, TickMove, Advance
  <2>4. CASE LoadCommitments \/ LoadNullifiers
    <3>1. rst \in {"loadCommitments", "loadNullifiers"}
      BY <2>4 DEF LoadCommitments, LoadNullifiers
    <3>2. ~ready[gen]
      BY <3>1 DEF ControlInv
    <3>3. wm'[k] = wm[k]
      BY <2>4, <3>2 DEF LoadCommitments, LoadNullifiers
    <3> QED
      BY <2>1, <3>3
  <2>5. CASE wm' = wm
    BY <2>1, <2>5
  <2> QED
    BY <2>2, <2>3, <2>4, <2>5
       DEF Next, Environment, Reset, Scan, Process, Listener, Mine, Reorg, ServerScan,
           ResetBegin, ClearOldCommitments, ClearOldNullifiers, IntervalClear, LoadFails,
           InitLock, InitHead, InitNothing, InitLogs, InitFails, StoreChainState, ProcessPage,
           ListenerStart, TickFetch, TickLock, ListenerStop, vars
<1>2. IInv /\ [Next]_vars => [Kept]_wm
  BY <1>1
<1> QED
  BY Inductive, <1>2, PTL DEF Spec, WatermarkMonotone

-----------------------------------------------------------------------------
(* The served generation and its successor *)

\* A later block is a weaker bound.
LEMMA UpTillGrows ==
  ASSUME NEW m \in Int, NEW n \in Int, m <= n
  PROVE  UpTill(m) \subseteq UpTill(n)
  BY DEF UpTill, Event, Blocks

\* The events of a range end with it.
LEMMA RangeUpTill ==
  ASSUME TypeOK, NEW lo, NEW hi
  PROVE  EventsInRange(lo, hi) \subseteq UpTill(hi)
  BY DEF EventsInRange, UpTill, TypeOK, Event

\* A safe block is not beyond the head.
LEMMA SafeBelowHead ==
  ASSUME TypeOK
  PROVE  Safe \in Int /\ Safe <= head
  BY ChainSyncAssumption DEF TypeOK, Safe, SafeReorgBlock

\* So is a payload, since a file ends where the server has scanned, at a safe block.
LEMMA PayloadUpTill ==
  ASSUME TypeOK, ServerInv, NEW s, NEW t \in Services, NEW f \in {cached[t], file[t]}
  PROVE  Payload(s, f) \subseteq UpTill(head)
<1>1. f.upTo \in Int /\ f.upTo <= srv /\ srv <= Safe /\ srv \in Int
  BY DEF TypeOK, ServerInv, SnapFile
<1>2. f.upTo <= head /\ head \in Int
  BY <1>1, SafeBelowHead DEF TypeOK
<1>3. UpTill(f.upTo) \subseteq UpTill(head)
  BY <1>1, <1>2, UpTillGrows
<1>4. Payload(s, f) \subseteq UpTill(f.upTo)
  BY RangeUpTill DEF Payload
<1> QED
  BY <1>3, <1>4

\* No emitter and no service has an event of a block beyond the head.
LEMMA BelowHeadStep == IInv /\ BelowHead /\ [Next]_vars => BelowHead'
<1> SUFFICES ASSUME IInv, BelowHead, [Next]_vars PROVE BelowHead'
  OBVIOUS
<1> USE DEF chainVars, serverVars, resetVars, mutexVars, emitterVars, Put
<1>0. /\ TypeOK /\ ServerInv /\ ControlInv /\ MutexInv /\ ResetInv
      /\ head \in Int
  BY DEF IInv, TypeOK
<1>1. ASSUME NEW c \in Contents, Mine(c) PROVE BelowHead'
  <2>1. /\ UpTill(head) \subseteq UpTill(head + 1) /\ head' = head + 1
        /\ page' = page /\ acc' = acc
    BY <1>0, <1>1, UpTillGrows DEF Mine
  <2>2. UpTill(head)' = UpTill(head + 1)
    BY <2>1 DEF UpTill
  <2> QED
    BY <2>1, <2>2 DEF BelowHead
<1>2. ASSUME head' = head PROVE UpTill(head)' = UpTill(head)
  BY <1>2 DEF UpTill
<1>3. CASE LoadCommitments \/ LoadNullifiers
  <2>1. /\ head' = head /\ page' = page /\ gen \in Gens
    BY <1>0, <1>3, GenInGens DEF LoadCommitments, LoadNullifiers
  <2>2. \E s \in Services : \E P \in SUBSET UpTill(head) : acc' = [acc EXCEPT ![gen][s] = P]
    <3>1. CASE LoadCommitments
      BY <1>0, <3>1, PayloadUpTill DEF LoadCommitments, Services
    <3>2. CASE LoadNullifiers
      BY <1>0, <3>2, PayloadUpTill DEF LoadNullifiers, Services
    <3> QED
      BY <1>3, <3>1, <3>2
  <2>3. PICK s \in Services, P \in SUBSET UpTill(head) : acc' = [acc EXCEPT ![gen][s] = P]
    BY <2>2
  <2>4. ASSUME NEW g \in Gens, NEW r \in Services PROVE acc'[g][r] \subseteq UpTill(head)
    <3>1. acc'[g][r] = IF g = gen /\ r = s THEN P ELSE acc[g][r]
      BY <1>0, <2>1, <2>3 DEF TypeOK
    <3> QED
      BY <3>1 DEF BelowHead
  <2> QED
    BY <1>2, <2>1, <2>4 DEF BelowHead
<1>4. CASE InitLogs
  <2>1. /\ head' = head /\ acc' = acc /\ gen \in Gens
        /\ page' = Put(page, gen, EventsInRange(wm[gen] + 1, upTo[gen]))
        /\ upTo[gen] <= head /\ upTo[gen] \in Int
    BY <1>0, <1>4, GenInGens DEF InitLogs, ResetInv, TypeOK
  <2>2. EventsInRange(wm[gen] + 1, upTo[gen]) \subseteq UpTill(head)
    BY <1>0, <2>1, RangeUpTill, UpTillGrows
  <2> QED
    BY <1>0, <1>2, <2>1, <2>2 DEF BelowHead, TypeOK
<1>5. ASSUME NEW g \in Gens, TickFetch(g) PROVE BelowHead'
  <2>1. /\ head' = head /\ acc' = acc
        /\ page' = Put(page, g, EventsInRange(fetchFrom[g], srv))
        /\ srv <= Safe /\ srv \in Int
    BY <1>0, <1>5 DEF TickFetch, ServerInv, TypeOK
  <2>2. srv <= head
    BY <1>0, <2>1, SafeBelowHead
  <2>3. EventsInRange(fetchFrom[g], srv) \subseteq UpTill(head)
    BY <1>0, <2>1, <2>2, RangeUpTill, UpTillGrows
  <2> QED
    BY <1>0, <1>2, <2>1, <2>3 DEF BelowHead, TypeOK
<1>6. ASSUME NEW s \in Services, ProcessPage(s) PROVE BelowHead'
  <2>1. /\ head' = head /\ page' = page
        /\ acc' = [acc EXCEPT ![lock][s] = @ \cup page[lock]]
    BY <1>6 DEF ProcessPage
  <2>2. ASSUME NEW g \in Gens, NEW r \in Services PROVE acc'[g][r] \subseteq UpTill(head)
    <3>1. acc'[g][r] \subseteq acc[g][r] \cup page[g]
      BY <1>0, <2>1 DEF TypeOK
    <3> QED
      BY <3>1 DEF BelowHead
  <2> QED
    BY <1>2, <2>1, <2>2 DEF BelowHead
<1>7. CASE InitDone
  BY <1>0, <1>2, <1>7 DEF InitDone, BelowHead, TypeOK
<1>8. ASSUME NEW g \in Gens, TickApplied(g) PROVE BelowHead'
  BY <1>0, <1>2, <1>8 DEF TickApplied, BelowHead, TypeOK
<1>9. CASE UNCHANGED <<head, page, acc>>
  BY <1>2, <1>9 DEF BelowHead
<1> QED
  BY <1>1, <1>3, <1>4, <1>5, <1>6, <1>7, <1>8, <1>9
     DEF Next, Environment, Reset, Scan, Process, Listener, Reorg, ServerScan,
         ResetBegin, ClearOldCommitments, ClearOldNullifiers, IntervalClear, LoadFails,
         InitLock, InitHead, InitNothing, InitFails, StoreChainState,
         ListenerStart, TickLock, TickMove, ListenerStop, vars

\* The block up to which a ready generation is complete never goes back once it listens.
LEMMA FrontierGrows ==
  ASSUME IInv, NEW k \in Gens, ready[k], NEW g \in Gens, Listener(g)
  PROVE  /\ Frontier(k) \in Int /\ Frontier(k)' \in Int
         /\ Frontier(k) <= Frontier(k)'
<1> USE DEF chainVars, serverVars, resetVars, mutexVars, emitterVars, Put
<1>0. /\ TypeOK /\ wm[k] \in Int /\ upTo[k] \in Int /\ fetchFrom[k] \in Int /\ srv \in Int
      /\ lis[k] \in {"deliver", "apply"} => fetchFrom[k] <= upTo[k]
  BY DEF IInv, TypeOK, ListenerInv, Accounted
<1>1. CASE g # k
  <2>1. wm'[k] = wm[k] /\ upTo'[k] = upTo[k] /\ fetchFrom'[k] = fetchFrom[k] /\ lis'[k] = lis[k]
    BY <1>0, <1>1 DEF Listener, ListenerStart, TickFetch, TickLock, TickApplied, TickMove,
       ListenerStop, TypeOK
  <2> QED
    BY <1>0, <2>1 DEF Frontier
<1>2. CASE g = k /\ ListenerStart(g)
  BY <1>0, <1>2 DEF ListenerStart, Frontier, TypeOK
<1>3. CASE g = k /\ TickFetch(g)
  BY <1>0, <1>3 DEF TickFetch, Frontier, TypeOK
<1>4. CASE g = k /\ TickLock(g)
  BY <1>0, <1>4 DEF TickLock, Frontier, TypeOK
<1>5. CASE g = k /\ TickApplied(g)
  BY <1>0, <1>5 DEF TickApplied, Frontier, TypeOK
<1>6. CASE g = k /\ TickMove(g)
  BY <1>0, <1>6 DEF TickMove, Frontier, TypeOK
<1>7. CASE g = k /\ ListenerStop(g)
  BY <1>0, <1>7 DEF ListenerStop, Frontier, TypeOK
<1> QED
  BY <1>1, <1>2, <1>3, <1>4, <1>5, <1>6, <1>7 DEF Listener

\* From its scan on, the successor is not cleared.
LEMMA ReadyStep ==
  ASSUME IInv, Handover, [Next]_vars, rst' \in Building
  PROVE  ready'[gen']
<1> USE DEF chainVars, serverVars, resetVars, mutexVars, emitterVars, Put, Building, Reading
<1>0. /\ TypeOK /\ ControlInv
      /\ rst \in Building => ready[gen]
  BY DEF IInv, Handover
<1>1. CASE InitLock
  BY <1>0, <1>1, GenInGens DEF InitLock, TypeOK
<1>2. CASE UNCHANGED <<gen, ready>> /\ rst \in Building
  BY <1>0, <1>2
<1> QED
  BY <1>1, <1>2
     DEF Next, Environment, Reset, Scan, Process, Listener, Mine, Reorg, ServerScan,
         ResetBegin, ClearOldCommitments, ClearOldNullifiers, LoadCommitments, LoadNullifiers,
         LoadFails, InitHead, InitNothing, InitLogs, InitFails, InitDone, StoreChainState,
         ProcessPage, ListenerStart, TickFetch, TickLock, TickApplied, TickMove, ListenerStop, vars

\* While the successor reads, no page of another generation is being processed.
LEMMA NoOtherPage ==
  ASSUME IInv, Handover, rst \in Building, todo # {}
  PROVE  lock = gen /\ rst \in {"apply", "store"}
<1>1. CASE rst = "store"
  BY <1>1 DEF Handover
<1>2. CASE rst \in {"head", "logs", "apply"}
  BY <1>2 DEF IInv, MutexInv, ControlInv
<1> QED
  BY <1>1, <1>2 DEF Building

\* What is processed while the successor waits to be stored is a page of its own: the served
\* generation has no processors left.
LEMMA OwnPageStep ==
  ASSUME IInv, Handover, [Next]_vars, rst' = "store", todo' # {}
  PROVE  lock' = gen'
<1> USE DEF chainVars, serverVars, resetVars, mutexVars, emitterVars, Put
<1>0. /\ TypeOK /\ ControlInv /\ MutexInv /\ FeederInv
      /\ rst = "store" /\ todo # {} => lock = gen
  BY DEF IInv, Handover
<1>1. ASSUME NEW last, InitNothing(last) PROVE FALSE
  BY <1>1, NoOtherPage DEF InitNothing, Building, Reading
<1>2. CASE InitDone
  BY <1>2 DEF InitDone
<1>3. ASSUME NEW g \in Gens, TickLock(g) PROVE lock' = gen'
  <2>1. rst = "store" /\ hooked[g] /\ lis[g] # "none" /\ lock' = g /\ gen' = gen
    BY <1>3 DEF TickLock, Processors
  <2>2. g = served \/ g = gen
    BY <1>0, <2>1 DEF FeederInv
  <2>3. g # served
    BY <1>0, <2>1 DEF FeederInv, Gens
  <2> QED
    BY <2>1, <2>2, <2>3
<1>4. ASSUME NEW s \in Services, ProcessPage(s) PROVE lock' = gen'
  BY <1>0, <1>4 DEF ProcessPage
<1>5. ASSUME NEW g \in Gens, TickApplied(g) PROVE FALSE
  BY <1>5 DEF TickApplied
<1>6. CASE UNCHANGED <<gen, todo, lock>> /\ rst = "store"
  BY <1>0, <1>6
<1> QED
  BY <1>1, <1>2, <1>3, <1>4, <1>5, <1>6
     DEF Next, Environment, Reset, Scan, Process, Listener, Mine, Reorg, ServerScan,
         ResetBegin, ClearOldCommitments, ClearOldNullifiers, LoadCommitments, LoadNullifiers,
         LoadFails, InitLock, InitHead, InitLogs, InitFails, StoreChainState,
         ListenerStart, TickFetch, TickMove, ListenerStop, vars

\* Only a page that is processed, or a payload, changes what a service holds; the served
\* generation loses nothing, and gets nothing while its successor reads.
LEMMA ServedKept ==
  ASSUME IInv, Handover, [Next]_vars, served # 0, NEW s \in Services
  PROVE  /\ acc[served][s] \subseteq acc'[served][s]
         /\ rst \in Building => acc'[served][s] = acc[served][s]
<1> USE DEF chainVars, serverVars, resetVars, mutexVars, emitterVars, Put
<1>0. /\ TypeOK /\ ControlInv
      /\ served \in Gens
  BY DEF IInv, TypeOK, Gens
<1>1. CASE LoadCommitments \/ LoadNullifiers
  <2>1. /\ rst \in {"loadCommitments", "loadNullifiers"}
        /\ \E r \in Services : \E P : acc' = [acc EXCEPT ![gen][r] = P]
    BY <1>1 DEF LoadCommitments, LoadNullifiers, Services
  <2>2. served # gen /\ rst \notin Building
    BY <1>0, <2>1 DEF ControlInv, TypeOK, Gens, Building
  <2>3. acc'[served] = acc[served]
    BY <1>0, <2>1, <2>2 DEF TypeOK
  <2> QED
    BY <2>2, <2>3
<1>2. ASSUME NEW r \in Services, ProcessPage(r)
      PROVE  /\ acc[served][s] \subseteq acc'[served][s]
             /\ rst \in Building => acc'[served][s] = acc[served][s]
  <2>1. todo # {} /\ acc' = [acc EXCEPT ![lock][r] = @ \cup page[lock]]
    BY <1>2 DEF ProcessPage
  <2>2. acc[served][s] \subseteq acc'[served][s]
    BY <1>0, <2>1 DEF TypeOK
  <2>3. ASSUME rst \in Building PROVE acc'[served][s] = acc[served][s]
    <3>1. lock = gen
      BY <2>1, <2>3, NoOtherPage
    <3>2. served # gen
      BY <1>0, <2>3 DEF ControlInv, TypeOK, Gens, Building
    <3> QED
      BY <1>0, <2>1, <3>1, <3>2 DEF TypeOK
  <2> QED
    BY <2>2, <2>3
<1>3. CASE acc' = acc
  BY <1>3
<1> QED
  BY <1>1, <1>2, <1>3
     DEF Next, Environment, Reset, Scan, Process, Listener, Mine, Reorg, ServerScan,
         ResetBegin, ClearOldCommitments, ClearOldNullifiers, IntervalClear, LoadFails,
         InitLock, InitHead, InitNothing, InitLogs, InitFails, InitDone, StoreChainState,
         ListenerStart, TickFetch, TickLock, TickApplied, TickMove, ListenerStop, vars

\* The successor reads on, never back.
LEMMA ReadToGrows ==
  ASSUME IInv, Handover, [Next]_vars, rst \in Reading, rst' \in Reading
  PROVE  ReadTo \in Int /\ ReadTo' \in Int /\ ReadTo <= ReadTo'
<1> USE DEF chainVars, serverVars, resetVars, mutexVars, emitterVars, Put, Reading, Building
<1>0. /\ TypeOK /\ ControlInv
      /\ gen \in Gens /\ ready[gen]
      /\ upTo[gen] \in Int /\ Frontier(gen) \in Int
      /\ rst # "store" => lis[gen] = "none"
  BY GenInGens DEF IInv, TypeOK, Handover, Frontier, ControlInv
<1>1. ASSUME NEW g \in Gens, Listener(g)
      PROVE  ReadTo \in Int /\ ReadTo' \in Int /\ ReadTo <= ReadTo'
  <2>1. gen' = gen /\ rst' = rst
    BY <1>1 DEF Listener, ListenerStart, TickFetch, TickLock, TickApplied, TickMove, ListenerStop
  <2>2. CASE rst = "store"
    BY <1>0, <1>1, <2>1, <2>2, FrontierGrows DEF ReadTo, Frontier
  <2>3. CASE rst # "store"
    <3>1. g # gen
      BY <1>0, <1>1, <2>3 DEF Listener, ListenerStart, TickFetch, TickLock, TickApplied, TickMove,
         ListenerStop
    <3>2. upTo'[gen] = upTo[gen]
      BY <1>0, <1>1, <3>1 DEF Listener, ListenerStart, TickFetch, TickLock, TickApplied, TickMove,
         ListenerStop, TypeOK
    <3> QED
      BY <1>0, <2>1, <2>3, <3>2 DEF ReadTo
  <2> QED
    BY <2>2, <2>3
<1>2. CASE InitDone
  BY <1>0, <1>2 DEF InitDone, ReadTo, Frontier, TypeOK
<1>3. CASE InitLogs
  BY <1>0, <1>3 DEF InitLogs, ReadTo
<1>4. CASE UNCHANGED <<rst, gen, wm, lis, upTo, fetchFrom>>
  BY <1>0, <1>4 DEF ReadTo, Frontier
<1> QED
  BY <1>1, <1>2, <1>3, <1>4
     DEF Next, Environment, Reset, Scan, Process, Mine, Reorg, ServerScan,
         ResetBegin, ClearOldCommitments, ClearOldNullifiers, LoadCommitments, LoadNullifiers,
         LoadFails, InitLock, InitHead, InitNothing, InitFails, StoreChainState, ProcessPage, vars

\* A node that does not lag gives the successor its head, beyond which the served generation
\* has nothing.
LEMMA ReadToBegins ==
  ASSUME ~rpcLags, IInv, BelowHead, Handover, [Next]_vars, rst \notin Reading, rst' \in Reading
  PROVE  /\ rst = "head" /\ head \in Int /\ head <= ReadTo' /\ ReadTo' \in Int
         /\ served' = served
<1> USE DEF chainVars, serverVars, resetVars, mutexVars, emitterVars, Put, Reading, Building
<1>0. TypeOK /\ ControlInv /\ RpcHeads = {head} /\ head \in Int
  BY DEF IInv, TypeOK, RpcHeads
<1>1. ASSUME NEW last \in 0 .. head, InitHead(last) PROVE upTo'[gen'] = head /\ rst' = "logs" /\ served' = served
  BY <1>0, <1>1, GenInGens DEF InitHead, TypeOK
<1>2. ASSUME NEW last \in 0 .. head, InitNothing(last)
      PROVE  Frontier(gen)' = wm[gen] /\ head <= wm[gen] /\ wm[gen] \in Int /\ rst' = "store" /\ served' = served
  BY <1>0, <1>2, GenInGens DEF InitNothing, TypeOK, Frontier
<1>3. rst = "head" /\ \E last \in 0 .. head : InitHead(last) \/ InitNothing(last)
  BY DEF Next, Environment, Reset, Scan, Process, Listener, Mine, Reorg, ServerScan,
         ResetBegin, ClearOldCommitments, ClearOldNullifiers, LoadCommitments, LoadNullifiers,
         LoadFails, InitLock, InitHead, InitNothing, InitLogs, InitFails, InitDone, StoreChainState,
         ProcessPage, ListenerStart, TickFetch, TickLock, TickApplied, TickMove, ListenerStop, vars
<1> QED
  BY <1>0, <1>1, <1>2, <1>3 DEF ReadTo

\* The node stays as it is.
LEMMA NodeKept ==
  ASSUME [Next]_vars
  PROVE  rpcLags' = rpcLags
BY DEF Next, Environment, Reset, Scan, Process, Listener, Mine, Reorg, ServerScan,
       ResetBegin, ClearOldCommitments, ClearOldNullifiers, IntervalClear, LoadCommitments,
       LoadNullifiers, LoadFails, InitLock, InitHead, InitNothing, InitLogs, InitFails, InitDone,
       StoreChainState, ProcessPage, ListenerStart, TickFetch, TickLock, TickApplied, TickMove,
       ListenerStop, vars, chainVars

\* The successor reads at least what the served generation has.
LEMMA HandoverStep ==
  ASSUME IInv, BelowHead, Handover, [Next]_vars
  PROVE  Handover'
<1>1. rst' \in Building => ready'[gen']
  BY ReadyStep
<1>2. rst' = "store" /\ todo' # {} => lock' = gen'
  BY OwnPageStep
<1>0. rpcLags' = rpcLags
  BY NodeKept
<1>3. ASSUME ~rpcLags', served' # 0, rst' \in Reading, NEW s \in Services
      PROVE  acc'[served'][s] \subseteq UpTill(ReadTo')
  <2>1. CASE rst \in Reading
    <3>1. served' = served
      BY <1>3, <2>1 DEF Next, Environment, Reset, Scan, Process, Listener, Mine, Reorg, ServerScan,
         ResetBegin, ClearOldCommitments, ClearOldNullifiers, LoadCommitments, LoadNullifiers,
         LoadFails, InitLock, InitHead, InitNothing, InitLogs, InitFails, InitDone, StoreChainState,
         ProcessPage, ListenerStart, TickFetch, TickLock, TickApplied, TickMove, ListenerStop,
         vars, resetVars, Reading, Building
    <3>2. acc'[served][s] = acc[served][s]
      BY <1>3, <2>1, <3>1, ServedKept DEF Reading, Building
    <3>3. acc[served][s] \subseteq UpTill(ReadTo)
      BY <1>0, <1>3, <2>1, <3>1 DEF Handover
    <3>4. UpTill(ReadTo) \subseteq UpTill(ReadTo')
      BY <1>3, <2>1, ReadToGrows, UpTillGrows
    <3> QED
      BY <3>1, <3>2, <3>3, <3>4
  <2>2. CASE rst \notin Reading
    <3>1. /\ rst = "head" /\ head \in Int /\ head <= ReadTo' /\ ReadTo' \in Int
          /\ served' = served
      BY <1>0, <1>3, <2>2, ReadToBegins
    <3>2. acc'[served][s] = acc[served][s]
      BY <1>3, <3>1, ServedKept DEF Building
    <3>3. acc[served][s] \subseteq UpTill(head)
      BY <1>3, <3>1 DEF BelowHead, IInv, TypeOK, Gens
    <3>4. UpTill(head) \subseteq UpTill(ReadTo')
      BY <3>1, UpTillGrows
    <3> QED
      BY <3>1, <3>2, <3>3, <3>4
  <2> QED
    BY <2>1, <2>2
<1>4. (~rpcLags /\ served # 0 /\ rst \in Reading =>
         \A s \in Services : acc[served][s] \subseteq UpTill(ReadTo))'
  BY <1>3 DEF UpTill
<1> QED
  BY <1>1, <1>2, <1>4 DEF Handover, Building, Reading

\* SuccessorInv holds of every state.
LEMMA SuccessorAlways == Spec => []SuccessorInv
<1>1. Init => SuccessorInv
  <2> SUFFICES ASSUME Init PROVE SuccessorInv
    OBVIOUS
  <2>1. BelowHead
    BY DEF Init, BelowHead
  <2>2. Handover
    BY DEF Init, Handover, Building, Reading
  <2> QED
    BY <2>1, <2>2 DEF SuccessorInv
<1>2. IInv /\ SuccessorInv /\ [Next]_vars => SuccessorInv'
  BY BelowHeadStep, HandoverStep DEF SuccessorInv
<1> QED
  BY <1>1, <1>2, Inductive, PTL DEF Spec

\* With a node that answers with the chain's head, the instance never loses a settled event it
\* already had, for any number of blocks and resets: not when storeChainState replaces what it
\* serves, not when a reset fails half way, and not under a listener that outlives its emitter.
THEOREM ServedNeverRegressesHolds == Spec => ServedNeverRegresses
<1> DEFINE Kept == \A s \in Services, b \in Blocks :
       (/\ ~rpcLags /\ served # 0 /\ b <= Safe /\ b \notin tip[served']
        /\ content[b] # Empty /\ <<b, content[b]>> \in acc[served][s])
       => <<b, content[b]>> \in acc'[served'][s]
<1>1. ASSUME IInv, SuccessorInv, [Next]_vars PROVE Kept
  <2> SUFFICES ASSUME NEW s \in Services, NEW b \in Blocks, ~rpcLags, served # 0,
                      b \notin tip[served'], content[b] # Empty,
                      <<b, content[b]>> \in acc[served][s]
               PROVE  <<b, content[b]>> \in acc'[served'][s]
    OBVIOUS
  <2>1. CASE StoreChainState
    <3>1. rst = "store" /\ served' = gen /\ acc' = acc
      BY <2>1 DEF StoreChainState, emitterVars
    <3>2. ready[gen] /\ acc[served][s] \subseteq UpTill(Frontier(gen))
      BY <1>1, <3>1 DEF SuccessorInv, Handover, Building, Reading, ReadTo
    <3>3. gen \in Gens /\ b <= Frontier(gen)
      BY <1>1, <3>1, <3>2, GenInGens DEF IInv, UpTill
    <3>4. Complete(gen, s, Frontier(gen))
      BY <1>1, <3>2, <3>3 DEF IInv, ListenerInv, Accounted
    <3>5. Holds(gen, s, b)
      BY <3>1, <3>3, <3>4 DEF Complete
    <3> QED
      BY <3>1, <3>5 DEF Holds
  <2>2. CASE served' = served
    BY <1>1, <2>2, ServedKept DEF SuccessorInv
  <2> QED
    BY <1>1, <2>1, <2>2
       DEF Next, Environment, Reset, Scan, Process, Listener, Mine, Reorg, ServerScan,
         ResetBegin, ClearOldCommitments, ClearOldNullifiers, LoadCommitments, LoadNullifiers,
         LoadFails, InitLock, InitHead, InitNothing, InitLogs, InitFails, InitDone,
         ProcessPage, ListenerStart, TickFetch, TickLock, TickApplied, TickMove, ListenerStop,
         vars, resetVars
<1>2. IInv /\ SuccessorInv /\ [Next]_vars => [Kept]_<<served, acc>>
  BY <1>1
<1> QED
  BY Inductive, SuccessorAlways, <1>2, PTL DEF Spec, ServedNeverRegresses
=============================================================================
