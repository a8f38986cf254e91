----------------------- MODULE PrivateBridgeProofs -----------------------
(***************************************************************************)
(* Proofs about PrivateBridge and the receive vaults it pays, for any      *)
(* callers, sessions, records and nonces that earlier sessions may have    *)
(* left, any lifetimes and margins, any fees and any refunds.              *)
(***************************************************************************)
EXTENDS PrivateBridge, TLAPS

-----------------------------------------------------------------------------
(* Constants and records *)

\* The bounds and the lifetimes are numbers.
LEMMA Numbers ==
  /\ AddressTTL \in Nat /\ RecoveryTTL \in Nat /\ MinTTL \in Nat /\ MaxNow \in Nat
  /\ MinTTL <= AddressTTL /\ MaxVersions \in Nat \ {0}
  /\ Buffer \in Nat /\ InTransit \in Nat /\ FlatFee \in Nat /\ Rate \in Nat
  /\ Bps \in Nat \ {0} /\ Refunds \subseteq Nat
BY VaultAssumption, BridgeAssumption

\* Who is who.
LEMMA Parties ==
  /\ Callers \subseteq Payments /\ Sender \in Payments /\ Sender \notin Callers
  /\ Canonical \in Chains
BY VaultAssumption

\* A record fits when its address is that of the current or of the old scheme,
\* and then the scheme found is its own.
LEMMA FitsOwn ==
  ASSUME NEW r \in Records
  PROVE  /\ Fits(r) <=> r.vault \in {GetReceiveVaultParams(r), GetLegacyReceiveVaultParams(r)}
         /\ Fits(r) => /\ ResolveReceiveVaultParams(r) = r.vault
                       /\ r.vault.index = r.index
                       /\ r.vault.owner \in {"spend", "nk"}
<1> DEFINE both == {GetReceiveVaultParams(r), GetLegacyReceiveVaultParams(r)}
           fits == {p \in both : GetReceiveVaultAddress(p) = r.vault}
<1>1. \A p \in both : p.owner \in {"spend", "nk"} /\ p.index = r.index /\ p # NoVault
  BY DEF GetReceiveVaultParams, GetLegacyReceiveVaultParams, NoVault
<1>2. fits = {p \in both : p = r.vault}
  BY DEF GetReceiveVaultAddress
<1>3. ResolveReceiveVaultParams(r) = IF fits = {} THEN NoVault ELSE CHOOSE p \in fits : TRUE
  BY DEF ResolveReceiveVaultParams
<1> HIDE DEF both, fits
<1>4. CASE r.vault \in both
  <2>1. fits = {r.vault}
    BY <1>2, <1>4
  <2>2. (CHOOSE p \in fits : TRUE) = r.vault
    BY <2>1
  <2> QED
    BY <1>1, <1>3, <1>4, <2>1, <2>2 DEF Fits, both
<1>5. CASE r.vault \notin both
  <2>1. fits = {}
    BY <1>2, <1>5
  <2> QED
    BY <1>3, <1>5, <2>1 DEF Fits, both
<1> QED
  BY <1>4, <1>5

\* A record that is built fits, and is of the current scheme.
LEMMA BuiltFits ==
  ASSUME NEW t \in Records
  PROVE  LET r == BuildReceiveVaultRecord(t)
         IN  /\ r \in Records /\ Fits(r) /\ r.vault.owner = "spend"
             /\ r.index = t.index /\ r.vault.index = t.index /\ r.expiry = t.expiry
<1> DEFINE r == BuildReceiveVaultRecord(t)
<1>1. r = [index |-> t.index, expiry |-> t.expiry, version |-> t.version,
           vault |-> [owner |-> "spend", index |-> t.index, version |-> t.version]]
  BY DEF BuildReceiveVaultRecord, GetReceiveVaultAddress, GetReceiveVaultParams
<1>2. r \in Records /\ r.vault = GetReceiveVaultParams(r)
  BY <1>1 DEF Records, Vaults, Owners, GetReceiveVaultParams
<1>3. Fits(r)
  BY <1>2, FitsOwn
<1> QED
  BY <1>1, <1>2, <1>3

\* Its new life changes nothing of that.
LEMMA RenewedFits ==
  ASSUME NEW r \in Records, NEW t \in Nat
  PROVE  LET n == [r EXCEPT !.expiry = t]
         IN  /\ n \in Records /\ n.vault = r.vault /\ n.index = r.index /\ n.expiry = t
             /\ Fits(n) <=> Fits(r)
<1> DEFINE n == [r EXCEPT !.expiry = t]
<1>1. /\ n \in Records /\ n.vault = r.vault /\ n.index = r.index /\ n.expiry = t
      /\ n.version = r.version
  BY DEF Records
<1>2. /\ GetReceiveVaultParams(n) = GetReceiveVaultParams(r)
      /\ GetLegacyReceiveVaultParams(n) = GetLegacyReceiveVaultParams(r)
  BY <1>1 DEF GetReceiveVaultParams, GetLegacyReceiveVaultParams
<1> QED
  BY <1>1, <1>2, FitsOwn

-----------------------------------------------------------------------------
(* What every step leaves as it is *)

\* Addresses stay on record, under terms that fit if they did, and are watched
\* for no shorter.
RecordsKept ==
  \A r \in server : \E s \in server' :
    /\ s.vault = r.vault /\ r.expiry <= s.expiry
    /\ Fits(r) => Fits(s)

\* Money that left a wallet does not come back, and what a wallet holds is not
\* changed but taken.
PayKept(p) ==
  /\ Gone(p) => Gone(p)'
  /\ pay[p].at = "wallet" => \/ Gone(p)'
                             \/ pay'[p].at = "wallet" /\ pay'[p].amount = pay[p].amount

\* What a call has read stays true while others move.
Carries == /\ RecordsKept /\ nonces \subseteq nonces'
           /\ \A p \in Payments : PayKept(p)

\* A step that leaves the records alone keeps them.
LEMMA SameRecords ==
  ASSUME TypeOK, server' = server
  PROVE  RecordsKept
BY DEF RecordsKept, TypeOK, Records

\* What is on record stays there.
LEMMA StaysOnRecord ==
  ASSUME TypeOK, TypeOK', RecordsKept
  PROVE  /\ \A v : OnRecord(server, v) => OnRecord(server', v)
         /\ \A v : \A t \in Int : Watching(server, v, t) => Watching(server', v, t)
<1>1. \A r \in server : r.expiry \in Nat
  BY DEF TypeOK, Records
<1>2. \A r \in server' : r.expiry \in Nat
  BY DEF TypeOK, Records
<1> QED
  BY <1>1, <1>2 DEF RecordsKept, OnRecord, Watching

\* A wallet that holds an amount or was emptied.
LEMMA StaysHeld ==
  ASSUME \A p \in Payments : PayKept(p), NEW wallet, NEW amount, HoldsOrHeld(wallet, amount)
  PROVE  HoldsOrHeld(wallet, amount)'
BY DEF HoldsOrHeld, PayKept

\* What a payment of a bridge relies on.
LEMMA StaysOnTime ==
  ASSUME TypeOK, TypeOK', RecordsKept, NEW x \in PaymentStates, OnTime(x)
  PROVE  OnTime(x)'
<1>1. x.deadline \in Int
  BY DEF PaymentStates
<1> QED
  BY <1>1, StaysOnRecord DEF OnTime, Covers

\* A payment that does not move stays backed.
LEMMA StaysBacked ==
  ASSUME TypeOK, TypeOK', Carries, NEW p \in Payments, PayOK(p), pay'[p] = pay[p]
  PROVE  PayOK(p)'
<1>1. pay[p] \in PaymentStates
  BY DEF TypeOK
<1>2. p \in Callers => OnTime(pay[p])'
  <2>1. CASE p \in Callers
    <3>1. OnTime(pay[p])
      BY <2>1 DEF PayOK
    <3>2. pay[p].deadline \in Int
      BY <1>1 DEF PaymentStates
    <3> QED
      BY <3>1, <3>2, StaysOnRecord DEF OnTime, Covers, Carries
  <2> QED
    BY <2>1
<1>3. Backed(p, pay[p], server', nonces')
  <2>1. Backed(p, pay[p], server, nonces)
    BY DEF PayOK
  <2> QED
    BY <2>1, StaysOnRecord DEF Backed, Carries
<1> QED
  BY <1>2, <1>3 DEF PayOK

\* What a call that does not move has read stays true; only a claim that reads
\* the highest index needs the records left alone.
LEMMA StaysCall ==
  ASSUME TypeOK, TypeOK', Carries, NEW c \in Callers, CallOK(c),
         call'[c] = call[c],
         call[c].pc = "register" /\ ~call[c].overlapped => server' = server
  PROVE  CallOK(c)'
<1>0. call[c] \in CallStates /\ call[c].rec \in Records /\ call[c].since \in Nat
  BY DEF TypeOK, CallStates
<1>1. call[c].pc = "loaded" =>
        \A r \in call[c].seen : r \in Records /\ Fits(r) /\ Watching(server', r.vault, r.expiry)
  <2>1. call[c].pc = "loaded" =>
          \A r \in call[c].seen : r \in Records /\ Fits(r) /\ Watching(server, r.vault, r.expiry)
    BY DEF CallOK, Covers
  <2>2. \A r \in Records : r.expiry \in Int
    BY DEF Records
  <2> QED
    BY <2>1, <2>2, StaysOnRecord DEF Carries
<1>2. call[c].pc \in {"quote", "nonce", "send"} /\ call[c].goal # "public"
        => OnRecord(server', call[c].rec.vault)
  BY StaysOnRecord DEF CallOK, Known, Carries
<1>3. call[c].pc = "quote" /\ call[c].goal = "near" /\ ~call[c].overlapped
        => Watching(server', call[c].rec.vault, call[c].since + MinTTL)
  <2>1. call[c].since + MinTTL \in Int
    BY <1>0, Numbers
  <2> QED
    BY <2>1, StaysOnRecord DEF CallOK, Covers, Carries
<1>4. call[c].pc = "send" => \E e \in nonces' : Recalls(e, c, call[c].goal)
  BY DEF CallOK, Carries
<1>5. call[c].pc = "withdraw" => \A x \in call[c].job :
        /\ x \in PaymentStates /\ x.at = "route" /\ x.route \in {"near", "nearTo"}
        /\ OnRecord(server', x.vault) /\ OnTime(x)'
  <2>1. ASSUME call[c].pc = "withdraw", NEW x \in call[c].job
        PROVE  /\ x \in PaymentStates /\ x.at = "route" /\ x.route \in {"near", "nearTo"}
               /\ OnRecord(server', x.vault) /\ OnTime(x)'
    <3>1. /\ x \in PaymentStates /\ x.at = "route" /\ x.route \in {"near", "nearTo"}
          /\ OnRecord(server, x.vault) /\ OnTime(x)
      BY <2>1 DEF CallOK, Known
    <3>2. OnTime(x)'
      BY <3>1, StaysOnTime DEF Carries
    <3> QED
      BY <3>1, <3>2, StaysOnRecord DEF Carries
  <2> QED
    BY <2>1
<1>6. call[c].pc = "balances" => call[c].seen \subseteq nonces'
  BY DEF CallOK, Carries
<1>7. call[c].pc = "recover" => \A x \in call[c].job :
        /\ x \in Recoveries /\ x.amount > 0
        /\ HoldsOrHeld(DeriveTempWallet(x.entry), x.amount)'
  BY StaysHeld DEF CallOK, Carries
<1>8. call[c].pc = "register" /\ ~call[c].overlapped
        => \A r \in server' : r.index < call[c].rec.index
  BY DEF CallOK
<1>9. /\ call[c].pc = "idle" => call[c].goal = "none"
      /\ call[c].pc \in {"fetch", "wait", "loaded"} => ~call[c].fresh
      /\ call[c].pc \in {"quote", "withdraw", "nonce", "send"} => call[c].goal \in Paying
      /\ call[c].pc = "check" => call[c].goal = "nearTo"
      /\ call[c].pc \in {"nonce", "send"} => call[c].goal \in {"lifi", "public"}
      /\ call[c].pc = "sweep" => \A x \in call[c].job : x \in Balances /\ x.vault = call[c].rec.vault
  BY DEF CallOK
<1> QED
  BY ONLY call'[c] = call[c], <1>1, <1>2, <1>3, <1>4, <1>5, <1>6, <1>7, <1>8, <1>9
     DEF CallOK, Covers, Known, OnTime

\* A caller whose plan and goal are as before, or who gave up, and whose
\* payment has not been made meanwhile.
LEMMA StaysOnce ==
  ASSUME NEW c \in Callers, PaysOnce(c), plan'[c] = plan[c],
         call'[c].goal \in {call[c].goal, "none"},
         pay[c].at = "none" => pay'[c].at = "none"
  PROVE  PaysOnce(c)'
BY DEF PaysOnce, Paying, Bridging

\* What was handed out stays on record.
LEMMA StaysIssued ==
  ASSUME RecordsKept, IssuedInv, issued' = issued
  PROVE  IssuedInv'
BY DEF RecordsKept, IssuedInv

\* The records, while only time passes.
LEMMA StaysServed ==
  ASSUME TypeOK, TypeOK', ServerInv, server' = server, now <= now'
  PROVE  ServerInv'
<1>1. \A r \in server : r.expiry \in Nat
  BY DEF TypeOK, Records
<1>2. now \in Int /\ now' \in Int
  BY DEF TypeOK
<1> QED
  BY <1>1, <1>2, Numbers DEF ServerInv, Known

\* The load that callers share, while it and they stay as they are.
LEMMA StaysInFlight ==
  ASSUME TypeOK, TypeOK', RecordsKept, FlightInv, flight' = flight,
         \A c \in flight.members : call'[c].pc = "wait"
  PROVE  FlightInv'
<1>1. \A r \in flight.records : r.expiry \in Int
  BY DEF TypeOK, Records
<1> QED
  BY <1>1, StaysOnRecord DEF FlightInv, Covers

-----------------------------------------------------------------------------
(* Kinds of steps *)

\* A step of the calls alone: each keeps its goal or gives up.
LEMMA CallsMove ==
  ASSUME IInv, TypeOK', FlightInv',
         UNCHANGED <<clock, books, funds, plan, issued, bridgeVars>>,
         \A c \in Callers : /\ call'[c].goal \in {call[c].goal, "none"}
                            /\ call'[c] = call[c] \/ CallOK(c)'
  PROVE  IInv'
<1>1. /\ now' = now /\ server' = server /\ nonces' = nonces /\ pay' = pay /\ plan' = plan
      /\ issued' = issued /\ sweeps' = sweeps /\ recoveries' = recoveries /\ drawn' = drawn
  BY DEF clock, books, funds, bridgeVars
<1>2. Carries
  BY <1>1, SameRecords DEF IInv, Carries, PayKept, Gone
<1>3. ServerInv'
  BY <1>1, StaysServed DEF IInv, TypeOK
<1>4. IssuedInv'
  BY <1>1, <1>2, StaysIssued DEF IInv, Carries
<1>5. ASSUME NEW c \in Callers PROVE PaysOnce(c)' /\ CallOK(c)'
  <2>1. PaysOnce(c)'
    BY <1>1, StaysOnce DEF IInv
  <2>2. TypeOK /\ CallOK(c)
    BY DEF IInv
  <2>3. CASE call'[c] = call[c]
    BY <1>1, <1>2, <2>1, <2>2, <2>3, StaysCall
  <2> QED
    BY <2>1, <2>3
<1>6. ASSUME NEW p \in Payments PROVE PayOK(p)'
  BY <1>1, <1>2, StaysBacked DEF IInv
<1>7. \A r \in recoveries' : RecoveryOK(r)'
  BY <1>1 DEF IInv, RecoveryOK, Gone
<1> QED
  BY <1>1, <1>3, <1>4, <1>5, <1>6, <1>7 DEF IInv

\* A step of one call that moves nothing else.
LEMMA CallMoves ==
  ASSUME IInv, NEW c \in Callers, NEW new \in CallStates,
         call[c].pc # "wait", call' = [call EXCEPT ![c] = new],
         new.goal \in {call[c].goal, "none"}, flight' = flight,
         UNCHANGED <<clock, books, funds, plan, issued, bridgeVars>>,
         CallOK(c)'
  PROVE  IInv'
<1>1. /\ call' \in [Callers -> CallStates] /\ call'[c] = new
      /\ \A d \in Callers : d # c => call'[d] = call[d]
  BY DEF IInv, TypeOK
<1>2. TypeOK'
  BY <1>1 DEF IInv, TypeOK, clock, books, funds, bridgeVars
<1>3. FlightInv'
  <2>1. \A d \in flight.members : d \in Callers /\ d # c
    BY DEF IInv, TypeOK, FlightInv
  <2>2. server' = server
    BY DEF books
  <2> QED
    BY <1>1, <1>2, <2>1, <2>2, SameRecords, StaysInFlight DEF IInv, FlightInv
<1> QED
  BY <1>1, <1>2, <1>3, CallsMove

\* A step of one call that moves its own payment, or adds to what it leaves
\* behind.
LEMMA CallActs ==
  ASSUME IInv, TypeOK', NEW c \in Callers,
         call[c].pc # "wait",
         \A d \in Callers : d # c => call'[d] = call[d] /\ plan'[d] = plan[d],
         UNCHANGED <<clock, books, flight, drawn>>, nonces \subseteq nonces',
         \A p \in Payments : p # c => pay'[p] = pay[p],
         pay'[c] = pay[c] \/ (pay[c].at = "none" /\ PayOK(c)'),
         IssuedInv', PaysOnce(c)', CallOK(c)',
         \A s \in sweeps' : s.by = s.vault.owner,
         \A r \in recoveries' \ recoveries : RecoveryOK(r)'
  PROVE  IInv'
<1>1. now' = now /\ server' = server /\ flight' = flight /\ drawn' = drawn
  BY DEF clock, books
<1>2. \A p \in Payments : PayKept(p)
  BY DEF PayKept, Gone
<1>3. Carries
  BY <1>1, <1>2, SameRecords DEF IInv, Carries
<1>4. ServerInv'
  BY <1>1, StaysServed, SMTT(30) DEF IInv, TypeOK
<1>5. FlightInv'
  <2>1. \A d \in flight.members : d \in Callers /\ d # c /\ call'[d] = call[d]
    BY DEF IInv, TypeOK, FlightInv
  <2> QED
    BY <1>1, <1>3, <2>1, StaysInFlight DEF IInv, FlightInv, Carries
<1>6. ASSUME NEW d \in Callers PROVE PaysOnce(d)' /\ CallOK(d)'
  <2>1. CASE d # c
    <3>1. call'[d] = call[d] /\ plan'[d] = plan[d] /\ pay'[d] = pay[d]
      BY <2>1, Parties
    <3>2. PaysOnce(d)'
      BY <3>1, StaysOnce DEF IInv
    <3> QED
      BY <1>1, <1>3, <3>1, <3>2, StaysCall DEF IInv
  <2> QED
    BY <2>1
<1>7. ASSUME NEW p \in Payments PROVE PayOK(p)'
  <2>1. CASE pay'[p] = pay[p]
    BY <1>3, <2>1, StaysBacked DEF IInv
  <2> QED
    BY <2>1
<1>8. ASSUME NEW r \in recoveries' PROVE RecoveryOK(r)'
  <2>1. CASE r \in recoveries
    BY <1>2, <2>1 DEF IInv, RecoveryOK, PayKept
  <2> QED
    BY <2>1
<1> QED
  BY <1>1, <1>4, <1>5, <1>6, <1>7, <1>8 DEF IInv

\* A step of the chains, the senders or the clock.
LEMMA WorldMoves ==
  ASSUME IInv, TypeOK', UNCHANGED <<server, app, nonces, drawn>>, now <= now',
         sweeps' \subseteq sweeps, recoveries' \subseteq recoveries,
         \A p \in Payments : \/ pay'[p] = pay[p]
                             \/ /\ PayKept(p) /\ PayOK(p)'
                                /\ p \in Callers => pay[p].at # "none"
  PROVE  IInv'
<1>1. /\ server' = server /\ nonces' = nonces /\ drawn' = drawn
      /\ flight' = flight /\ plan' = plan /\ call' = call /\ issued' = issued
  BY DEF app
<1>2. \A p \in Payments : PayKept(p)
  BY DEF PayKept, Gone
<1>3. Carries
  BY <1>1, <1>2, SameRecords DEF IInv, Carries
<1>4. ServerInv'
  BY <1>1, StaysServed DEF IInv
<1>5. IssuedInv'
  BY <1>1, <1>3, StaysIssued DEF IInv, Carries
<1>6. FlightInv'
  BY <1>1, <1>3, StaysInFlight DEF IInv, FlightInv, Carries
<1>7. ASSUME NEW d \in Callers PROVE PaysOnce(d)' /\ CallOK(d)'
  <2>1. pay[d].at = "none" => pay'[d].at = "none"
    BY Parties
  <2>2. PaysOnce(d)'
    BY <1>1, <2>1, StaysOnce DEF IInv
  <2> QED
    BY <1>1, <1>3, <2>2, StaysCall DEF IInv
<1>8. ASSUME NEW p \in Payments PROVE PayOK(p)'
  <2>1. CASE pay'[p] = pay[p]
    BY <1>3, <2>1, StaysBacked DEF IInv
  <2> QED
    BY <2>1
<1>9. \A r \in recoveries' : RecoveryOK(r)'
  BY <1>2 DEF IInv, RecoveryOK, PayKept
<1>10. \A s \in sweeps' : s.by = s.vault.owner
  BY DEF IInv
<1> QED
  BY <1>1, <1>4, <1>5, <1>6, <1>7, <1>8, <1>9, <1>10 DEF IInv

-----------------------------------------------------------------------------
(* The calls, one step at a time *)

\* Giving up is always safe.
LEMMA IdleOK ==
  /\ Idle \in CallStates
  /\ \A c \in Callers : call'[c] = Idle => CallOK(c)'
<1>1. NoVault \in Vaults /\ NoRecord \in Records
  BY Numbers DEF NoVault, NoRecord, Vaults, Owners, Records
<1> QED
  BY <1>1 DEF Idle, CallStates, CallOK

\* A call that ends or fails.
LEMMA FailsKeeps ==
  ASSUME IInv, NEW c \in Callers, Fails(c), UNCHANGED bridgeVars
  PROVE  IInv'
<1>1. /\ call' = [call EXCEPT ![c] = Idle] /\ call[c].pc # "wait"
      /\ UNCHANGED <<clock, books, funds, plan, issued, bridgeVars>> /\ flight' = flight
  BY DEF Fails, Done, Step
<1>2. call'[c] = Idle /\ Idle.goal = "none"
  BY <1>1 DEF IInv, TypeOK, Idle
<1> QED
  BY <1>1, <1>2, IdleOK, CallMoves

\* No address of the account is still alive.
LEMMA NothingReusableKeeps ==
  ASSUME IInv, NEW c \in Callers, NothingReusable(c), UNCHANGED bridgeVars
  PROVE  IInv'
<1> DEFINE new == [call[c] EXCEPT !.pc = "version", !.seen = {}]
<1>1. /\ call' = [call EXCEPT ![c] = new] /\ call[c].pc # "wait"
      /\ UNCHANGED <<clock, books, funds, plan, issued, bridgeVars>> /\ flight' = flight
  BY DEF NothingReusable, Step, Active
<1>2. call[c] \in CallStates /\ DOMAIN call = Callers
  BY DEF IInv, TypeOK
<1>3. new \in CallStates /\ new.goal = call[c].goal /\ new.pc = "version"
  BY <1>2 DEF CallStates
<1>4. CallOK(c)'
  BY <1>1, <1>2, <1>3 DEF CallOK
<1> QED
  BY <1>1, <1>3, <1>4, CallMoves

\* The version and the end of life of an address to be.
LEMMA VersionKeeps ==
  ASSUME IInv, NEW c \in Callers, GetReceiveVaultCurrentVersion(c), UNCHANGED bridgeVars
  PROVE  IInv'
<1> DEFINE new == [call[c] EXCEPT !.pc = "index", !.rec.version = versions - 1,
                                  !.rec.expiry = now + AddressTTL]
<1>1. /\ call' = [call EXCEPT ![c] = new] /\ call[c].pc # "wait"
      /\ UNCHANGED <<clock, books, funds, plan, issued, bridgeVars>> /\ flight' = flight
  BY DEF GetReceiveVaultCurrentVersion, Step, Active
<1>2. call[c] \in CallStates /\ DOMAIN call = Callers
  BY DEF IInv, TypeOK
<1>3. versions - 1 \in 0..MaxVersions-1 /\ now + AddressTTL \in Nat
  BY Numbers DEF IInv, TypeOK
<1>4. [call[c].rec EXCEPT !.version = versions - 1, !.expiry = now + AddressTTL] \in Records
  BY <1>2, <1>3 DEF CallStates, Records
<1>5. new \in CallStates /\ new.goal = call[c].goal /\ new.pc = "index"
  BY <1>2, <1>4 DEF CallStates
<1>6. CallOK(c)'
  BY <1>1, <1>2, <1>5 DEF CallOK
<1> QED
  BY <1>1, <1>5, <1>6, CallMoves

\* The next index is above all that are on record.
LEMMA NextIndexAbove ==
  ASSUME IInv
  PROVE  /\ FetchReceiveVaultNextIndex \in Nat
         /\ \A r \in server : r.index < FetchReceiveVaultNextIndex
<1>0. \A r \in server : r.index \in Nat
  BY DEF IInv, TypeOK, Records
<1>1. CASE server = {}
  BY <1>1 DEF FetchReceiveVaultNextIndex
<1>2. CASE server # {}
  <2> DEFINE indices == {r.index : r \in server}
             highest == CHOOSE i \in indices : \A r \in server : i >= r.index
  <2>1. PICK r \in server : \A s \in server : s.index <= r.index
    BY <1>2 DEF IInv, ServerInv
  <2>2. r.index \in indices /\ \A s \in server : r.index >= s.index
    BY <1>0, <2>1
  <2>3. highest \in indices /\ \A s \in server : highest >= s.index
    BY <2>2
  <2>4. FetchReceiveVaultNextIndex = 1 + highest
    BY <1>2 DEF FetchReceiveVaultNextIndex
  <2>5. highest \in Nat
    BY <1>0, <2>3
  <2> HIDE DEF highest
  <2> QED
    BY <1>0, <2>3, <2>4, <2>5
<1> QED
  BY <1>1, <1>2

\* A claim reads the next index.
LEMMA NextIndexKeeps ==
  ASSUME IInv, NEW c \in Callers, getNextIndex(c), UNCHANGED bridgeVars
  PROVE  IInv'
<1> DEFINE i == FetchReceiveVaultNextIndex
           new == [call[c] EXCEPT !.pc = "register", !.overlapped = FALSE, !.rec.index = i]
<1>1. /\ call' = [call EXCEPT ![c] = new] /\ call[c].pc # "wait"
      /\ UNCHANGED <<clock, books, funds, plan, issued, bridgeVars>> /\ flight' = flight
  BY DEF getNextIndex, Step, Active
<1>2. call[c] \in CallStates /\ DOMAIN call = Callers
  BY DEF IInv, TypeOK
<1>3. i \in Nat /\ \A r \in server : r.index < i
  BY NextIndexAbove
<1> HIDE DEF i
<1>4. /\ [call[c].rec EXCEPT !.index = i] \in Records
      /\ [call[c].rec EXCEPT !.index = i].index = i
  BY <1>2, <1>3 DEF CallStates, Records
<1>5. /\ new \in CallStates /\ new.goal = call[c].goal /\ new.pc = "register"
      /\ new.rec.index = i
  BY <1>2, <1>4 DEF CallStates
<1>6. server' = server
  BY <1>1 DEF books
<1>7. CallOK(c)'
  BY <1>1, <1>2, <1>3, <1>5, <1>6 DEF CallOK
<1> QED
  BY <1>1, <1>5, <1>7, CallMoves

\* A balance found at a record that was seen.
LEMMA ScanKeeps ==
  ASSUME IInv, NEW c \in Callers, Scan(c), UNCHANGED bridgeVars
  PROVE  IInv'
<1>1. PICK x \in scanTargets(call[c].seen) :
        Step(c, [call[c] EXCEPT !.pc = "sweep", !.rec = x.record, !.job = {x.held}, !.seen = {}])
  BY DEF Scan
<1> DEFINE new == [call[c] EXCEPT !.pc = "sweep", !.rec = x.record, !.job = {x.held}, !.seen = {}]
<1>2. /\ call' = [call EXCEPT ![c] = new] /\ call[c].pc = "loaded"
      /\ UNCHANGED <<clock, books, funds, plan, issued, bridgeVars>> /\ flight' = flight
  BY <1>1 DEF Scan, Step, Active
<1>3. call[c] \in CallStates /\ DOMAIN call = Callers
  BY DEF IInv, TypeOK
<1>4. x.record \in call[c].seen /\ x.held \in Held /\ x.record.vault = x.held.vault
  BY DEF scanTargets
<1>5. x.record \in Records
  BY <1>2, <1>4 DEF IInv, CallOK
<1>6. x.held \in Balances
  BY <1>4 DEF Held, Balances, IInv, TypeOK, PaymentStates
<1>7. /\ new \in CallStates /\ new.goal = call[c].goal /\ new.pc = "sweep"
      /\ new.rec = x.record /\ new.job = {x.held}
  BY <1>3, <1>5, <1>6 DEF CallStates
<1>8. CallOK(c)'
  BY <1>2, <1>3, <1>4, <1>6, <1>7 DEF CallOK
<1> QED
  BY <1>2, <1>7, <1>8, CallMoves

\* An address of the application's that the enclave knows.
LEMMA CheckKeeps ==
  ASSUME IInv, NEW c \in Callers, CheckReceiveVaultAddress(c)
  PROVE  IInv'
<1>1. PICK r \in server :
        Step(c, [call[c] EXCEPT !.pc = "quote", !.rec = r, !.since = now])
  BY DEF CheckReceiveVaultAddress
<1> DEFINE new == [call[c] EXCEPT !.pc = "quote", !.rec = r, !.since = now]
<1>2. /\ call' = [call EXCEPT ![c] = new] /\ call[c].pc = "check"
      /\ UNCHANGED <<clock, books, funds, plan, issued, bridgeVars>> /\ flight' = flight
  BY <1>1 DEF CheckReceiveVaultAddress, Step, Active
<1>3. call[c] \in CallStates /\ DOMAIN call = Callers /\ r \in Records /\ now \in Nat
  BY DEF IInv, TypeOK
<1>4. /\ new \in CallStates /\ new.goal = call[c].goal /\ new.pc = "quote"
      /\ new.rec = r
  BY <1>3 DEF CallStates
<1>5. server' = server
  BY <1>2 DEF books
<1>6. call[c].goal = "nearTo"
  BY <1>2 DEF IInv, CallOK
<1>7. CallOK(c)'
  BY <1>2, <1>3, <1>4, <1>5, <1>6 DEF CallOK, Known, OnRecord, Paying
<1> QED
  BY <1>2, <1>4, <1>7, CallMoves

\* A NEAR quote, and the payment that it leads to.
LEMMA QuoteKeeps ==
  ASSUME IInv, NEW c \in Callers, GetNearIntentsQuote(c)
  PROVE  IInv'
<1> DEFINE x == Routed(c, nearBridgeDeadline)
           new == [call[c] EXCEPT !.pc = "withdraw", !.job = {x}]
<1>1. /\ call' = [call EXCEPT ![c] = new] /\ call[c].pc = "quote"
      /\ call[c].goal \in {"near", "nearTo"}
      /\ UNCHANGED <<clock, books, funds, plan, issued, bridgeVars>> /\ flight' = flight
  BY DEF GetNearIntentsQuote, Step, Active
<1>2. call[c] \in CallStates /\ DOMAIN call = Callers
  BY DEF IInv, TypeOK
<1>3. pay[c] \in PaymentStates /\ now \in Nat
  BY Parties DEF IInv, TypeOK
<1>4. now + Buffer \in Nat
  BY <1>3, Numbers
<1>5. /\ x \in PaymentStates /\ x.at = "route" /\ x.vault = call[c].rec.vault
      /\ x.route = call[c].goal /\ x.deadline = now + Buffer /\ x.since = call[c].since
      /\ x.overlapped = call[c].overlapped
  BY <1>1, <1>2, <1>3, <1>4
     DEF Routed, nearBridgeDeadline, PaymentStates, CallStates, Records, Places, Routes, Paying, Bridging
<1> HIDE DEF x
<1>6. Known(call[c].rec.vault)
  BY <1>1 DEF IInv, CallOK
<1>7. OnTime(x)
  <2>1. ASSUME x.route = "near", ~x.overlapped, x.deadline - x.since <= MinTTL
        PROVE  Covers(x.vault, x.deadline)
    <3>1. Covers(call[c].rec.vault, call[c].since + MinTTL)
      BY <1>1, <1>5, <2>1 DEF IInv, CallOK
    <3>2. x.deadline <= x.since + MinTTL /\ x.deadline \in Int /\ x.since + MinTTL \in Int
      BY <1>5, <2>1, Numbers DEF PaymentStates
    <3>3. \A r \in server : r.expiry \in Int
      BY DEF IInv, TypeOK, Records
    <3> QED
      BY <1>5, <3>1, <3>2, <3>3 DEF Covers, Watching
  <2> QED
    BY <2>1 DEF OnTime
<1>8. new \in CallStates /\ new.goal = call[c].goal /\ new.pc = "withdraw" /\ new.job = {x}
  BY <1>2, <1>5 DEF CallStates
<1>9. server' = server
  BY <1>1 DEF books
<1>10. ASSUME NEW y \in new.job
       PROVE  /\ y \in PaymentStates /\ y.at = "route" /\ y.route \in {"near", "nearTo"}
              /\ Known(y.vault)' /\ OnTime(y)'
  <2>1. y = x
    BY <1>8
  <2>2. /\ y \in PaymentStates /\ y.at = "route" /\ y.route \in {"near", "nearTo"}
        /\ Known(y.vault) /\ OnTime(y)
    BY <1>1, <1>5, <1>6, <1>7, <2>1
  <2> QED
    BY <1>9, <2>2 DEF Known, OnTime, Covers
<1>11. CallOK(c)'
  <2>1. call'[c] = new
    BY <1>1, <1>2
  <2> HIDE DEF new
  <2> QED
    BY <1>1, <1>8, <1>10, <2>1 DEF CallOK, Paying, Bridging
<1> QED
  BY <1>1, <1>8, <1>11, CallMoves

\* A LiFi price moves nothing but the call.
LEMMA PriceKeeps ==
  ASSUME IInv, NEW c \in Callers, GetLifiPrice(c)
  PROVE  IInv'
<1> DEFINE new == [call[c] EXCEPT !.pc = "nonce"]
<1>1. /\ call' = [call EXCEPT ![c] = new] /\ call[c].pc = "quote"
      /\ call[c].goal \in {"lifi", "public"}
      /\ UNCHANGED <<clock, books, funds, plan, issued, bridgeVars>> /\ flight' = flight
  BY DEF GetLifiPrice, Goto, Step, Active
<1>2. call[c] \in CallStates /\ DOMAIN call = Callers
  BY DEF IInv, TypeOK
<1>3. /\ new \in CallStates /\ new.goal = call[c].goal /\ new.pc = "nonce"
      /\ new.rec = call[c].rec
  BY <1>2 DEF CallStates
<1>4. call[c].goal # "public" => Known(call[c].rec.vault)
  BY <1>1 DEF IInv, CallOK
<1>5. server' = server
  BY <1>1 DEF books
<1>6. CallOK(c)'
  BY <1>1, <1>2, <1>3, <1>4, <1>5 DEF CallOK, Known, Paying, Bridging
<1> QED
  BY <1>1, <1>3, <1>6, CallMoves

\* The nonces of the wallets that may hold something.
LEMMA NoncesKeeps ==
  ASSUME IInv, NEW c \in Callers, fetchNonceResults(c)
  PROVE  IInv'
<1> DEFINE old == {e \in nonces : ~isTemporaryWalletInTransit(e)}
           new == [call[c] EXCEPT !.pc = "balances", !.seen = old]
<1>1. /\ call' = [call EXCEPT ![c] = new] /\ call[c].pc = "nonces"
      /\ UNCHANGED <<clock, books, funds, plan, issued, bridgeVars>> /\ flight' = flight
  BY DEF fetchNonceResults, Step, Active
<1>2. call[c] \in CallStates /\ DOMAIN call = Callers /\ nonces \subseteq TemporaryWallets
  BY DEF IInv, TypeOK
<1>3. old \subseteq nonces
  OBVIOUS
<1> HIDE DEF old
<1>4. /\ new \in CallStates /\ new.goal = call[c].goal /\ new.pc = "balances"
      /\ new.seen = old
  BY <1>2, <1>3 DEF CallStates
<1>5. nonces' = nonces
  BY <1>1 DEF bridgeVars
<1>6. CallOK(c)'
  BY <1>1, <1>2, <1>3, <1>4, <1>5 DEF CallOK
<1> QED
  BY <1>1, <1>4, <1>6, CallMoves

\* No two payments share a wallet.
LEMMA OwnWallet ==
  ASSUME NEW p \in Payments, NEW q \in Payments, WalletOf(p) = WalletOf(q)
  PROVE  p = q
<1>1. WalletOf(p).nonce = p /\ WalletOf(q).nonce = q
  BY DEF WalletOf
<1> QED
  BY <1>1

\* What a wallet is worth: what its payment left there.
LEMMA BalanceOf ==
  ASSUME TypeOK, NEW w
  PROVE  /\ PublicBalance(w) \in Nat
         /\ \A p \in Payments : pay[p].at = "wallet" /\ WalletOf(p) = w => PublicBalance(w) = pay[p].amount
         /\ (\A p \in Payments : WalletOf(p) = w => pay[p].at # "wallet") => PublicBalance(w) = 0
         /\ PublicBalance(w) > 0 => HoldsOrHeld(w, PublicBalance(w))
<1> DEFINE there == {p \in Payments : pay[p].at = "wallet" /\ WalletOf(p) = w}
<1>1. \A p \in Payments : pay[p].amount \in Nat
  BY DEF TypeOK, PaymentStates
<1>2. PublicBalance(w) = IF there = {} THEN 0 ELSE pay[CHOOSE p \in there : TRUE].amount
  BY DEF PublicBalance
<1>3. CASE there = {}
  BY <1>2, <1>3
<1>4. ASSUME NEW p \in there
      PROVE  PublicBalance(w) = pay[p].amount /\ \A q \in Payments : WalletOf(q) = w => q = p
  <2>1. \A q \in Payments : WalletOf(q) = w => q = p
    BY <1>4, OwnWallet
  <2>2. there = {p}
    BY <1>4, <2>1
  <2>3. (CHOOSE q \in there : TRUE) = p
    BY <2>2
  <2> QED
    BY <1>2, <2>1, <2>2, <2>3
<1>5. CASE there # {}
  <2>1. PICK p \in there : TRUE
    BY <1>5
  <2>2. PublicBalance(w) = pay[p].amount /\ \A q \in Payments : WalletOf(q) = w => q = p
    BY <1>4
  <2>3. HoldsOrHeld(w, PublicBalance(w))
    BY <2>1, <2>2 DEF HoldsOrHeld
  <2> QED
    BY <1>1, <1>4, <2>1, <2>2, <2>3
<1> QED
  BY <1>3, <1>5

\* A wallet that is worth something now.
LEMMA BalancesKeeps ==
  ASSUME IInv, NEW c \in Callers, GetStuckBridgeBalances(c)
  PROVE  IInv'
<1>1. PICK entry \in getTemporaryWalletAddressMapBalances(call[c].seen), entered \in BOOLEAN :
        Step(c, [call[c] EXCEPT !.pc = "recover", !.seen = {},
                   !.job = {[entry |-> entry, entered |-> entered,
                             amount |-> PublicBalance(DeriveTempWallet(entry))]}])
  BY DEF GetStuckBridgeBalances
<1> DEFINE x == [entry |-> entry, entered |-> entered,
                 amount |-> PublicBalance(DeriveTempWallet(entry))]
           new == [call[c] EXCEPT !.pc = "recover", !.seen = {}, !.job = {x}]
<1>2. /\ call' = [call EXCEPT ![c] = new] /\ call[c].pc = "balances"
      /\ UNCHANGED <<clock, books, funds, plan, issued, bridgeVars>> /\ flight' = flight
  BY <1>1 DEF GetStuckBridgeBalances, Step, Active
<1>3. call[c] \in CallStates /\ DOMAIN call = Callers /\ nonces \subseteq TemporaryWallets
  BY DEF IInv, TypeOK
<1>4. entry \in nonces /\ PublicBalance(DeriveTempWallet(entry)) > 0
  BY <1>2 DEF IInv, CallOK, getTemporaryWalletAddressMapBalances, isRecoverableBalance
<1>5. HoldsOrHeld(DeriveTempWallet(entry), PublicBalance(DeriveTempWallet(entry)))
      /\ PublicBalance(DeriveTempWallet(entry)) \in Nat
  BY <1>4, BalanceOf DEF IInv
<1>6. /\ x \in Recoveries /\ x.amount > 0 /\ x.entry = entry
      /\ HoldsOrHeld(DeriveTempWallet(x.entry), x.amount)
  BY <1>3, <1>4, <1>5 DEF Recoveries
<1> HIDE DEF x
<1>7. new \in CallStates /\ new.goal = call[c].goal /\ new.pc = "recover" /\ new.job = {x}
  BY <1>3, <1>6 DEF CallStates
<1>8. pay' = pay
  BY <1>2 DEF funds
<1>9. ASSUME NEW y \in new.job
      PROVE  /\ y \in Recoveries /\ y.amount > 0
             /\ HoldsOrHeld(DeriveTempWallet(y.entry), y.amount)'
  <2>1. y = x
    BY <1>7
  <2>2. y \in Recoveries /\ y.amount > 0 /\ HoldsOrHeld(DeriveTempWallet(y.entry), y.amount)
    BY <1>6, <2>1
  <2> QED
    BY <1>8, <2>2 DEF HoldsOrHeld, Gone
<1>10. CallOK(c)'
  <2>1. call'[c] = new
    BY <1>2, <1>3
  <2> HIDE DEF new
  <2> QED
    BY <1>7, <1>9, <2>1 DEF CallOK
<1> QED
  BY <1>2, <1>7, <1>10, CallMoves

\* The next call of a plan begins.
LEMMA BeginKeeps ==
  ASSUME IInv, NEW c \in Callers, Begin(c), UNCHANGED bridgeVars
  PROVE  IInv'
<1> DEFINE goal == Head(plan[c])
           new == [Idle EXCEPT !.goal = goal, !.pc = FirstStep(goal), !.fresh = goal = "fresh"]
<1>1. /\ call' = [call EXCEPT ![c] = new] /\ call[c].pc = "idle" /\ plan[c] # <<>>
      /\ plan' = [plan EXCEPT ![c] = Tail(@)]
      /\ UNCHANGED <<clock, books, funds, flight, issued, bridgeVars>>
  BY DEF Begin, Step, Active
<1>2. /\ plan[c] \in Seq(Goals) /\ DOMAIN plan = Callers /\ DOMAIN call = Callers
      /\ call \in [Callers -> CallStates] /\ plan \in [Callers -> Seq(Goals)]
  BY DEF IInv, TypeOK
<1>3. /\ goal = plan[c][1] /\ goal \in Goals /\ 1 \in DOMAIN plan[c]
      /\ Tail(plan[c]) \in Seq(Goals)
      /\ \A i \in DOMAIN Tail(plan[c]) :
           i \in Nat \ {0} /\ i + 1 \in DOMAIN plan[c] /\ Tail(plan[c])[i] = plan[c][i + 1]
  BY <1>1, <1>2
<1> HIDE DEF goal
<1>4. FirstStep(goal) = CASE goal = "fresh"   -> "version"
                          [] goal = "recover" -> "nonces"
                          [] goal = "public"  -> "quote"
                          [] goal = "nearTo"  -> "check"
                          [] OTHER            -> "fetch"
  BY DEF FirstStep
<1>5. FirstStep(goal) \in {"version", "nonces", "quote", "check", "fetch"}
  BY <1>4
<1>6. /\ new \in CallStates /\ new.goal = goal /\ new.pc = FirstStep(goal)
      /\ new.fresh = (goal = "fresh")
  BY <1>3, <1>5, IdleOK DEF Idle, CallStates
<1>7. /\ call'[c] = new /\ plan'[c] = Tail(plan[c])
      /\ \A d \in Callers : d # c => call'[d] = call[d] /\ plan'[d] = plan[d]
      /\ call' \in [Callers -> CallStates] /\ plan' \in [Callers -> Seq(Goals)]
  BY <1>1, <1>2, <1>3, <1>6
<1> HIDE DEF new
<1>8. TypeOK'
  BY <1>1, <1>7 DEF IInv, TypeOK, clock, books, funds, bridgeVars
<1>9. PaysOnce(c)'
  <2> DEFINE rest == {i \in DOMAIN plan[c] : plan[c][i] \in Paying}
             left == {i \in DOMAIN Tail(plan[c]) : Tail(plan[c])[i] \in Paying}
  <2>1. (\A i, j \in rest : i = j) /\ (rest # {} => pay[c].at = "none")
    BY DEF IInv, PaysOnce
  <2>2. \A i \in left : i + 1 \in rest /\ i \in Nat \ {0}
    BY <1>3
  <2>3. \A i, j \in left : i = j
    BY <2>1, <2>2
  <2>4. goal \in Paying => 1 \in rest
    BY <1>3
  <2>5. goal \in Paying => left = {}
    BY <2>1, <2>2, <2>4
  <2>6. goal \in Paying \/ left # {} => pay[c].at = "none"
    BY <2>1, <2>2, <2>4
  <2>7. pay' = pay
    BY <1>1 DEF funds
  <2> QED
    BY <1>6, <1>7, <2>3, <2>5, <2>6, <2>7 DEF PaysOnce
<1>10. CallOK(c)'
  <2>1. goal = "public" => goal \in Paying
    BY DEF Paying
  <2> QED
    BY <1>4, <1>6, <1>7, <2>1 DEF CallOK
<1>11. IssuedInv'
  BY <1>1, SameRecords, StaysIssued DEF IInv, books
<1> QED
  BY <1>1, <1>7, <1>8, <1>9, <1>10, <1>11, CallActs DEF IInv, funds, bridgeVars

\* One more address is handed out.
LEMMA HandsOut ==
  ASSUME IInv, RecordsKept, NEW v \in Vaults, NEW fresh \in BOOLEAN, NEW overlapped \in BOOLEAN,
         issued' = Append(issued, [vault |-> v, fresh |-> fresh, overlapped |-> overlapped]),
         \E r \in server' : Fits(r) /\ r.vault = v,
         fresh /\ ~overlapped => /\ \A i \in DOMAIN issued : issued[i].vault # v
                                 /\ \A r \in InitServer : r.vault # v
  PROVE  /\ issued' \in Seq([vault : Vaults, fresh : BOOLEAN, overlapped : BOOLEAN])
         /\ IssuedInv'
<1> DEFINE n == Len(issued)
           last == [vault |-> v, fresh |-> fresh, overlapped |-> overlapped]
<1>1. issued \in Seq([vault : Vaults, fresh : BOOLEAN, overlapped : BOOLEAN])
      /\ last \in [vault : Vaults, fresh : BOOLEAN, overlapped : BOOLEAN]
  BY DEF IInv, TypeOK
<1> HIDE DEF last
<1>2. /\ issued' \in Seq([vault : Vaults, fresh : BOOLEAN, overlapped : BOOLEAN])
      /\ DOMAIN issued = 1..n /\ n \in Nat /\ DOMAIN issued' = 1..(n + 1)
      /\ issued'[n + 1] = last /\ \A i \in 1..n : issued'[i] = issued[i]
  BY <1>1 DEF last
<1>3. ASSUME NEW j \in DOMAIN issued'
      PROVE  /\ \E r \in server' : Fits(r) /\ r.vault = issued'[j].vault
             /\ issued'[j].fresh /\ ~issued'[j].overlapped =>
                  /\ \A i \in 1..(j - 1) : issued'[i].vault # issued'[j].vault
                  /\ \A r \in InitServer : r.vault # issued'[j].vault
  <2>1. CASE j = n + 1
    <3>1. /\ issued'[j].vault = v /\ issued'[j].fresh = fresh
          /\ issued'[j].overlapped = overlapped
      BY <1>2, <2>1 DEF last
    <3>2. \A i \in 1..(j - 1) : i \in DOMAIN issued /\ issued'[i] = issued[i]
      BY <1>2, <2>1
    <3> QED
      BY <3>1, <3>2
  <2>2. CASE j # n + 1
    <3>1. j \in 1..n /\ \A i \in 1..(j - 1) : i \in 1..n
      BY <1>2, <2>2
    <3>2. issued'[j] = issued[j] /\ \A i \in 1..(j - 1) : issued'[i] = issued[i]
      BY <1>2, <3>1
    <3>3. /\ \E r \in server : Fits(r) /\ r.vault = issued[j].vault
          /\ issued[j].fresh /\ ~issued[j].overlapped =>
                  /\ \A i \in 1..(j - 1) : issued[i].vault # issued[j].vault
                  /\ \A r \in InitServer : r.vault # issued[j].vault
      BY <1>2, <3>1 DEF IInv, IssuedInv
    <3>4. \E r \in server' : Fits(r) /\ r.vault = issued[j].vault
      BY <3>3 DEF RecordsKept
    <3> QED
      BY <3>2, <3>3, <3>4
  <2> QED
    BY <2>1, <2>2
<1> QED
  BY <1>2, <1>3 DEF IssuedInv

\* Where a call goes on with an address.
LEMMA OnwardTo ==
  ASSUME IInv, NEW c \in Callers, NEW r \in Records
  PROVE  LET new == Onward(c, r)
         IN  /\ new \in CallStates /\ new.goal \in {call[c].goal, "none"}
             /\ \/ new = Idle
                \/ new.pc = "version"
                \/ /\ new.pc = "quote" /\ new.goal \in Bridging
                   /\ new.rec = r /\ new.since = now /\ new.overlapped = call[c].overlapped
                   /\ call[c].fresh \/ now + MinTTL <= r.expiry
<1> DEFINE aged == [call[c] EXCEPT !.pc = "version", !.fresh = TRUE, !.seen = {}]
           ready == [call[c] EXCEPT !.pc = "quote", !.rec = r, !.since = now, !.seen = {}]
<1>1. call[c] \in CallStates /\ now \in Nat
  BY DEF IInv, TypeOK
<1>2. aged \in CallStates /\ aged.goal = call[c].goal /\ aged.pc = "version"
  BY <1>1 DEF CallStates
<1>3. /\ ready \in CallStates /\ ready.goal = call[c].goal /\ ready.pc = "quote"
      /\ ready.rec = r /\ ready.since = now /\ ready.overlapped = call[c].overlapped
  BY <1>1 DEF CallStates
<1>4. ~TooOldForBridge(c, r) => call[c].fresh \/ now + MinTTL <= r.expiry
  BY <1>1, Numbers DEF TooOldForBridge, IsReceiveVaultExpired, Records, CallStates
<1>5. Onward(c, r) = IF call[c].goal \notin Bridging THEN Idle
                     ELSE IF TooOldForBridge(c, r) THEN aged ELSE ready
  BY DEF Onward
<1>6. Idle.goal = "none"
  BY DEF Idle
<1> HIDE DEF aged, ready
<1> QED
  BY <1>2, <1>3, <1>4, <1>5, <1>6, IdleOK

\* A live address is handed out again.
LEMMA ReuseKeeps ==
  ASSUME IInv, NEW c \in Callers, Reuse(c), UNCHANGED bridgeVars
  PROVE  IInv'
<1>1. PICK r \in newestReusableRecord(call[c].seen) : Step(c, Onward(c, r)) /\ HandOut(c, r)
  BY DEF Reuse
<1> DEFINE new == Onward(c, r)
<1>2. /\ call' = [call EXCEPT ![c] = new] /\ call[c].pc = "loaded"
      /\ issued' = Append(issued, [vault |-> r.vault, fresh |-> call[c].fresh,
                                   overlapped |-> call[c].overlapped])
      /\ UNCHANGED <<clock, books, funds, flight, plan, bridgeVars>>
  BY <1>1 DEF Reuse, Step, HandOut, Active
<1>3. call[c] \in CallStates /\ call \in [Callers -> CallStates]
  BY DEF IInv, TypeOK
<1>4. r \in call[c].seen
  BY DEF newestReusableRecord
<1>5. r \in Records /\ Fits(r) /\ Covers(r.vault, r.expiry) /\ ~call[c].fresh
  BY <1>2, <1>4 DEF IInv, CallOK
<1>6. /\ new \in CallStates /\ new.goal \in {call[c].goal, "none"}
      /\ \/ new = Idle
         \/ new.pc = "version"
         \/ /\ new.pc = "quote" /\ new.goal \in Bridging
            /\ new.rec = r /\ new.since = now /\ new.overlapped = call[c].overlapped
            /\ now + MinTTL <= r.expiry
  BY <1>5, OnwardTo
<1> HIDE DEF new
<1>7. /\ server' = server /\ now' = now /\ pay' = pay /\ plan' = plan /\ nonces' = nonces
      /\ sweeps' = sweeps /\ recoveries' = recoveries /\ drawn' = drawn
  BY <1>2 DEF clock, books, funds, bridgeVars
<1>8. PICK s \in server : s.vault = r.vault /\ r.expiry <= s.expiry
  BY <1>5 DEF Covers, Watching
<1>9. Fits(s)
  <2>1. r.vault.owner # "other"
    BY <1>5, FitsOwn
  <2> QED
    BY <1>8, <2>1 DEF IInv, ServerInv
<1>10. /\ issued' \in Seq([vault : Vaults, fresh : BOOLEAN, overlapped : BOOLEAN])
       /\ IssuedInv'
  <2>1. r.vault \in Vaults /\ call[c].fresh \in BOOLEAN /\ call[c].overlapped \in BOOLEAN
    BY <1>3, <1>5 DEF Records, CallStates
  <2>2. RecordsKept
    BY <1>7, SameRecords DEF IInv
  <2>3. \E q \in server' : Fits(q) /\ q.vault = r.vault
    BY <1>7, <1>8, <1>9
  <2> QED
    BY <1>2, <1>5, <2>1, <2>2, <2>3, HandsOut
<1>11. /\ call'[c] = new /\ call' \in [Callers -> CallStates]
       /\ \A d \in Callers : d # c => call'[d] = call[d]
  BY <1>2, <1>3, <1>6
<1>12. TypeOK'
  BY <1>2, <1>7, <1>10, <1>11 DEF IInv, TypeOK, clock, books, funds, bridgeVars
<1>13. PaysOnce(c)'
  BY <1>6, <1>7, <1>11, StaysOnce DEF IInv
<1>14. CallOK(c)'
  <2>1. CASE new = Idle
    BY <1>11, <2>1, IdleOK
  <2>2. CASE new.pc = "version"
    BY <1>11, <2>2 DEF CallOK
  <2>3. CASE /\ new.pc = "quote" /\ new.goal \in Bridging
             /\ new.rec = r /\ new.since = now /\ now + MinTTL <= r.expiry
    <3>1. Watching(server', r.vault, now + MinTTL) /\ OnRecord(server', r.vault)
      <4>1. s.expiry \in Int /\ r.expiry \in Int /\ now + MinTTL \in Int
        BY <1>5, Numbers DEF IInv, TypeOK, Records
      <4> QED
        BY <1>7, <1>8, <2>3, <4>1 DEF Watching, OnRecord
    <3> QED
      BY <1>7, <1>11, <2>3, <3>1 DEF CallOK, Covers, Known, Paying
  <2> QED
    BY <1>6, <2>1, <2>2, <2>3
<1> QED
  BY <1>2, <1>7, <1>10, <1>11, <1>12, <1>13, <1>14, CallActs DEF IInv

\* What the enclave makes of a registration: the address is on record, no other
\* is lost, and an index above all others makes it a new one that lives its
\* whole life.
LEMMA Registers ==
  ASSUME IInv, NEW record \in Records, Fits(record), record.vault.owner = "spend",
         server' \in RegisterReceiveVault(record), now' = now
  PROVE  /\ server' \subseteq Records /\ RecordsKept /\ ServerInv'
         /\ \E s \in server' : Fits(s) /\ s.vault = record.vault
         /\ (\A r \in server : r.index < record.index)
              => /\ \A r \in server : r.vault # record.vault
                 /\ Watching(server', record.vault, now + AddressTTL)
<1> DEFINE same == {r \in server : r.vault = record.vault}
           new  == [record EXCEPT !.expiry = now + AddressTTL]
<1>0. /\ server \subseteq Records /\ now \in Nat /\ now + AddressTTL \in Nat
      /\ \A r \in Records : r.index \in Nat /\ r.expiry \in Nat
  BY Numbers DEF IInv, TypeOK, Records
<1>1. /\ new \in Records /\ new.vault = record.vault /\ new.index = record.index
      /\ new.expiry = now + AddressTTL /\ Fits(new)
  BY <1>0, RenewedFits
<1>2. \/ server' = (server \ same) \union {new}
      \/ same # {} /\ server' = server
  BY DEF RegisterReceiveVault
<1>3. ASSUME NEW r \in same
      PROVE  Fits(r) /\ r.index = record.index /\ r.expiry <= now + AddressTTL
  <2>1. r \in server /\ r \in Records /\ r.vault = record.vault
    BY <1>0
  <2>2. Fits(r) /\ r.expiry <= now + AddressTTL
    BY <2>1 DEF IInv, ServerInv
  <2>3. r.vault.index = r.index /\ record.vault.index = record.index
    BY <2>1, <2>2, FitsOwn
  <2> QED
    BY <2>1, <2>2, <2>3
<1> HIDE DEF new
<1>4. server' \subseteq Records
  BY <1>0, <1>1, <1>2
<1>5. RecordsKept
  <2>1. ASSUME NEW r \in server
        PROVE  \E s \in server' : s.vault = r.vault /\ r.expiry <= s.expiry /\ (Fits(r) => Fits(s))
    <3>1. CASE r \in server'
      BY <1>0, <3>1
    <3>2. CASE r \notin server'
      <4>1. r \in same /\ new \in server'
        BY <1>2, <3>2
      <4> QED
        BY <1>1, <1>3, <4>1
    <3> QED
      BY <3>1, <3>2
  <2> QED
    BY <2>1 DEF RecordsKept
<1>6. ServerInv'
  <2>1. \A r \in server' : IF Fits(r) THEN r.expiry <= now' + AddressTTL
                           ELSE r.vault.owner = "other"
    <3>1. \A r \in server : IF Fits(r) THEN r.expiry <= now + AddressTTL
                            ELSE r.vault.owner = "other"
      BY DEF IInv, ServerInv
    <3> QED
      BY <1>0, <1>1, <1>2, <3>1
  <2>2. server' # {} => \E r \in server' : \A s \in server' : s.index <= r.index
    <3>1. CASE server' = server
      BY <3>1 DEF IInv, ServerInv
    <3>2. CASE server' = (server \ same) \union {new} /\ server = {}
      BY <1>0, <1>1, <3>2
    <3>3. CASE server' = (server \ same) \union {new} /\ server # {}
      <4>1. PICK top \in server : \A s \in server : s.index <= top.index
        BY <3>3 DEF IInv, ServerInv
      <4>2. CASE top \in same
        <5>1. top.index = new.index
          BY <1>1, <1>3, <4>2
        <5> QED
          BY <1>0, <1>1, <3>3, <4>1, <5>1
      <4>3. CASE top \notin same
        <5>1. top.index <= new.index \/ new.index <= top.index
          BY <1>0, <1>1
        <5>2. CASE top.index <= new.index
          <6>1. \A s \in server : s.index <= new.index
            BY <1>0, <1>1, <4>1, <5>2
          <6> QED
            BY <1>0, <1>1, <3>3, <6>1
        <5>3. CASE new.index <= top.index
          BY <1>0, <1>1, <3>3, <4>1, <4>3, <5>3
        <5> QED
          BY <5>1, <5>2, <5>3
      <4> QED
        BY <4>2, <4>3
    <3> QED
      BY <1>2, <3>1, <3>2, <3>3
  <2>3. ASSUME NEW r \in InitServer PROVE OnRecord(server', r.vault)
    <3>1. OnRecord(server, r.vault)
      BY DEF IInv, ServerInv, Known
    <3> QED
      BY <1>5, <3>1 DEF OnRecord, RecordsKept
  <2> QED
    BY <2>1, <2>2, <2>3 DEF ServerInv, Known
<1>7. \E s \in server' : Fits(s) /\ s.vault = record.vault
  BY <1>1, <1>2, <1>3
<1>8. ASSUME \A r \in server : r.index < record.index
      PROVE  /\ \A r \in server : r.vault # record.vault
             /\ Watching(server', record.vault, now + AddressTTL)
  <2>1. same = {}
    <3> SUFFICES ASSUME NEW r \in same PROVE FALSE
      OBVIOUS
    <3>1. r.index = record.index /\ r.index < record.index /\ r.index \in Nat
      BY <1>0, <1>3, <1>8
    <3> QED
      BY <3>1
  <2>2. new \in server'
    BY <1>2, <2>1
  <2> QED
    BY <1>0, <1>1, <2>1, <2>2 DEF Watching
<1> QED
  BY <1>4, <1>5, <1>6, <1>7, <1>8

\* A claim registers its record and hands the address out, or fails after all.
LEMMA RegisterKeeps ==
  ASSUME IInv, NEW c \in Callers, registerRecord(c), UNCHANGED bridgeVars
  PROVE  IInv'
<1> DEFINE record == BuildReceiveVaultRecord(call[c].rec)
           ready == Onward(c, record)
           after(new) == call' = [d \in Callers |->
                           IF d = c THEN new
                           ELSE IF Active(d, "register")
                                THEN [call[d] EXCEPT !.overlapped = TRUE] ELSE call[d]]
<1>1. /\ call[c].pc = "register" /\ server' \in RegisterReceiveVault(record)
      /\ \/ /\ after(ready)
            /\ issued' = Append(issued, [vault |-> record.vault, fresh |-> call[c].fresh,
                                         overlapped |-> call[c].overlapped])
         \/ after(Idle) /\ issued' = issued
      /\ UNCHANGED <<clock, blocks, funds, flight, plan, bridgeVars>>
  BY DEF registerRecord, HandOut, Active
<1>2. /\ call \in [Callers -> CallStates] /\ call[c] \in CallStates /\ call[c].rec \in Records
      /\ now \in Nat
  BY DEF IInv, TypeOK, CallStates
<1>3. /\ record \in Records /\ Fits(record) /\ record.vault.owner = "spend"
      /\ record.index = call[c].rec.index /\ record.vault \in Vaults
  BY <1>2, BuiltFits DEF Records
<1>4. /\ now' = now /\ pay' = pay /\ plan' = plan /\ nonces' = nonces /\ flight' = flight
      /\ sweeps' = sweeps /\ recoveries' = recoveries /\ drawn' = drawn
  BY <1>1 DEF clock, funds, bridgeVars
<1> HIDE DEF record
<1>5. /\ server' \subseteq Records /\ RecordsKept /\ ServerInv'
      /\ \E s \in server' : Fits(s) /\ s.vault = record.vault
      /\ ~call[c].overlapped => /\ \A r \in server : r.vault # record.vault
                                /\ Watching(server', record.vault, now + AddressTTL)
  <2>1. ~call[c].overlapped => \A r \in server : r.index < record.index
    BY <1>1, <1>3 DEF IInv, CallOK
  <2> QED
    BY <1>1, <1>3, <1>4, <2>1, Registers
<1>6. /\ ready \in CallStates /\ ready.goal \in {call[c].goal, "none"}
      /\ \/ ready = Idle
         \/ ready.pc = "version"
         \/ /\ ready.pc = "quote" /\ ready.goal \in Bridging
            /\ ready.rec = record /\ ready.since = now
            /\ ready.overlapped = call[c].overlapped
  BY <1>3, OnwardTo
<1> HIDE DEF ready
<1>7. PICK new \in {ready, Idle} : after(new)
  BY <1>1
<1>8. /\ new \in CallStates /\ new.goal \in {call[c].goal, "none"}
  <2>1. Idle.goal = "none"
    BY DEF Idle
  <2> QED
    BY <1>6, <1>7, <2>1, IdleOK
<1>9. /\ call'[c] = new
      /\ \A d \in Callers : d # c =>
           call'[d] = IF call[d].pc = "register" THEN [call[d] EXCEPT !.overlapped = TRUE]
                      ELSE call[d]
  BY <1>7 DEF Active
<1>10. ASSUME NEW d \in Callers, d # c, call[d].pc = "register"
       PROVE  /\ call'[d] \in CallStates /\ call'[d].goal = call[d].goal
              /\ call'[d].pc = "register" /\ call'[d].overlapped
  <2>1. call[d] \in CallStates /\ call'[d] = [call[d] EXCEPT !.overlapped = TRUE]
    BY <1>2, <1>9, <1>10
  <2> QED
    BY <1>10, <2>1 DEF CallStates
<1>11. call' \in [Callers -> CallStates]
  <2>1. \A d \in Callers : call'[d] \in CallStates
    BY <1>2, <1>8, <1>9, <1>10
  <2>2. DOMAIN call' = Callers /\ call' = [d \in Callers |-> call'[d]]
    BY <1>7
  <2> QED
    BY <2>1, <2>2
<1>12. /\ issued' \in Seq([vault : Vaults, fresh : BOOLEAN, overlapped : BOOLEAN])
       /\ IssuedInv'
  <2>1. CASE issued' = issued
    BY <1>5, <2>1, StaysIssued DEF IInv, TypeOK
  <2>2. CASE issued' = Append(issued, [vault |-> record.vault, fresh |-> call[c].fresh,
                                       overlapped |-> call[c].overlapped])
    <3>1. call[c].fresh \in BOOLEAN /\ call[c].overlapped \in BOOLEAN
      BY <1>2 DEF CallStates
    <3>2. ~call[c].overlapped => /\ \A i \in DOMAIN issued : issued[i].vault # record.vault
                                 /\ \A r \in InitServer : r.vault # record.vault
      <4>1. \A i \in DOMAIN issued : \E r \in server : r.vault = issued[i].vault
        BY DEF IInv, IssuedInv
      <4>2. \A r \in InitServer : \E s \in server : s.vault = r.vault
        BY DEF IInv, ServerInv, Known, OnRecord
      <4> QED
        BY <1>5, <4>1, <4>2
    <3> QED
      BY <1>3, <1>5, <2>2, <3>1, <3>2, HandsOut
  <2> QED
    BY <1>1, <2>1, <2>2
<1>13. TypeOK'
  BY <1>1, <1>4, <1>5, <1>11, <1>12 DEF IInv, TypeOK, clock, bridgeVars
<1>14. Carries
  BY <1>4, <1>5 DEF Carries, PayKept, Gone
<1>15. FlightInv'
  <2>1. \A d \in flight.members : d \in Callers /\ call[d].pc = "wait"
    BY DEF IInv, TypeOK, FlightInv
  <2>2. \A d \in flight.members : call'[d].pc = "wait"
    BY <1>1, <1>9, <2>1
  <2> QED
    BY <1>4, <1>13, <1>14, <2>2, StaysInFlight DEF IInv, Carries
<1>16. ASSUME NEW d \in Callers PROVE PaysOnce(d)' /\ CallOK(d)'
  <2>1. CASE d = c
    <3>1. PaysOnce(c)'
      BY <1>4, <1>8, <1>9, StaysOnce DEF IInv
    <3>2. CASE new = Idle
      BY <1>9, <2>1, <3>1, <3>2, IdleOK
    <3>3. CASE new.pc = "version"
      BY <1>9, <2>1, <3>1, <3>3 DEF CallOK
    <3>4. CASE /\ new.pc = "quote" /\ new.goal \in Bridging
               /\ new.rec = record /\ new.since = now /\ new.overlapped = call[c].overlapped
      <4>1. OnRecord(server', record.vault)
        BY <1>5 DEF OnRecord
      <4>2. ~call[c].overlapped => Watching(server', record.vault, now + MinTTL)
        <5>1. ~call[c].overlapped => Watching(server', record.vault, now + AddressTTL)
          BY <1>5
        <5>2. now + MinTTL <= now + AddressTTL /\ now + MinTTL \in Int /\ now + AddressTTL \in Int
          BY <1>2, Numbers
        <5>3. \A r \in server' : r.expiry \in Int
          BY <1>5 DEF Records
        <5> QED
          BY <5>1, <5>2, <5>3 DEF Watching
      <4>3. CallOK(c)'
        BY <1>9, <3>4, <4>1, <4>2 DEF CallOK, Covers, Known, Paying
      <4> QED
        BY <2>1, <3>1, <4>3
    <3> QED
      BY <1>6, <1>7, <3>2, <3>3, <3>4
  <2>2. CASE d # c /\ call[d].pc = "register"
    <3>1. /\ call'[d].goal = call[d].goal /\ call'[d].pc = "register" /\ call'[d].overlapped
      BY <1>10, <2>2
    <3>2. PaysOnce(d)'
      BY <1>4, <3>1, StaysOnce DEF IInv
    <3> QED
      BY <3>1, <3>2 DEF CallOK
  <2>3. CASE d # c /\ call[d].pc # "register"
    <3>1. call'[d] = call[d]
      BY <1>9, <2>3
    <3>2. PaysOnce(d)'
      BY <1>4, <3>1, StaysOnce DEF IInv
    <3> QED
      BY <1>13, <1>14, <2>3, <3>1, <3>2, StaysCall DEF IInv
  <2> QED
    BY <2>1, <2>2, <2>3
<1>17. ASSUME NEW p \in Payments PROVE PayOK(p)'
  BY <1>4, <1>13, <1>14, StaysBacked DEF IInv
<1>18. \A r \in recoveries' : RecoveryOK(r)'
  BY <1>4 DEF IInv, RecoveryOK, Gone
<1> QED
  BY <1>4, <1>5, <1>12, <1>13, <1>15, <1>16, <1>17, <1>18 DEF IInv

\* What is signed for is what the vault's own key signs.
LEMMA SweepKeeps ==
  ASSUME IInv, NEW c \in Callers, HinkalReceiveVaultRecover(c), UNCHANGED bridgeVars
  PROVE  IInv'
<1>1. PICK held \in call[c].job : \E chain \in {held.chain, Canonical} :
        sweeps' = sweeps \union {SignReceiveVaultRecovery(call[c].rec, held, chain)}
  BY DEF HinkalReceiveVaultRecover
<1>2. PICK chain \in {held.chain, Canonical} :
        sweeps' = sweeps \union {SignReceiveVaultRecovery(call[c].rec, held, chain)}
  BY <1>1
<1> DEFINE s == SignReceiveVaultRecovery(call[c].rec, held, chain)
<1>3. /\ call' = [call EXCEPT ![c] = Idle] /\ call[c].pc = "sweep" /\ Fits(call[c].rec)
      /\ UNCHANGED <<clock, books, flight, plan, issued, pay, bridgeVars>>
  BY DEF HinkalReceiveVaultRecover, Done, Step, Active, Fits
<1>4. call[c].rec \in Records /\ now \in Nat /\ call \in [Callers -> CallStates]
  BY DEF IInv, TypeOK, CallStates
<1>5. held \in Balances /\ held.vault = call[c].rec.vault
  BY <1>3 DEF IInv, CallOK
<1>6. /\ s.by = held.vault.owner /\ s.vault = held.vault
      /\ s \in [by : Owners, vault : Vaults, token : Tokens, chain : Chains, deadline : Nat]
  <2>1. receiveVaultOwnerKey(call[c].rec) = held.vault.owner
    BY <1>3, <1>4, <1>5, FitsOwn DEF receiveVaultOwnerKey
  <2>2. held.vault.owner \in Owners /\ now + RecoveryTTL \in Nat /\ chain \in Chains
    BY <1>4, <1>5, Numbers, Parties DEF Balances, Vaults
  <2> QED
    BY <1>5, <2>1, <2>2 DEF SignReceiveVaultRecovery, Balances
<1> HIDE DEF s
<1>7. /\ server' = server /\ pay' = pay /\ plan' = plan /\ nonces' = nonces
      /\ recoveries' = recoveries /\ drawn' = drawn /\ issued' = issued
  BY <1>3 DEF books, bridgeVars
<1>8. /\ call'[c] = Idle /\ call' \in [Callers -> CallStates]
      /\ \A d \in Callers : d # c => call'[d] = call[d]
  BY <1>3, <1>4, IdleOK
<1>9. sweeps' = sweeps \union {s}
  BY <1>2 DEF s
<1>10. TypeOK'
  BY <1>3, <1>6, <1>7, <1>8, <1>9 DEF IInv, TypeOK, clock, books, bridgeVars
<1>11. PaysOnce(c)'
  <2>1. Idle.goal = "none"
    BY DEF Idle
  <2> QED
    BY <1>7, <1>8, <2>1, StaysOnce DEF IInv
<1>12. IssuedInv'
  BY <1>7, SameRecords, StaysIssued DEF IInv
<1>13. \A t \in sweeps' : t.by = t.vault.owner
  BY <1>6, <1>9 DEF IInv
<1> QED
  BY <1>3, <1>7, <1>8, <1>10, <1>11, <1>12, <1>13, IdleOK, CallActs

\* A NEAR payment leaves.
LEMMA NearWithdrawKeeps ==
  ASSUME IInv, NEW c \in Callers, NearWithdraw(c)
  PROVE  IInv'
<1>1. PICK x \in call[c].job : pay' = [pay EXCEPT ![c] = x]
  BY DEF NearWithdraw
<1>2. /\ call' = [call EXCEPT ![c] = Idle] /\ call[c].pc = "withdraw"
      /\ UNCHANGED <<clock, books, sweeps, flight, plan, issued, bridgeVars>>
  BY DEF NearWithdraw, Done, Step, Active
<1>3. call \in [Callers -> CallStates] /\ pay \in [Payments -> PaymentStates] /\ c \in Payments
  BY Parties DEF IInv, TypeOK
<1>4. /\ x \in PaymentStates /\ x.at = "route" /\ x.route \in {"near", "nearTo"}
      /\ OnRecord(server, x.vault) /\ OnTime(x) /\ call[c].goal \in Paying
  BY <1>2 DEF IInv, CallOK, Known
<1>5. /\ server' = server /\ plan' = plan /\ nonces' = nonces /\ sweeps' = sweeps
      /\ recoveries' = recoveries /\ drawn' = drawn /\ issued' = issued
  BY <1>2 DEF books, bridgeVars
<1>6. /\ call'[c] = Idle /\ call' \in [Callers -> CallStates]
      /\ \A d \in Callers : d # c => call'[d] = call[d]
  BY <1>2, <1>3, IdleOK
<1>7. /\ pay'[c] = x /\ pay' \in [Payments -> PaymentStates]
      /\ \A p \in Payments : p # c => pay'[p] = pay[p]
  BY <1>1, <1>3, <1>4
<1>8. TypeOK'
  BY <1>2, <1>5, <1>6, <1>7 DEF IInv, TypeOK, clock, books, bridgeVars
<1>9. pay[c].at = "none" /\ PaysOnce(c)'
  <2>1. Idle.goal = "none"
    BY DEF Idle
  <2> QED
    BY <1>4, <1>5, <1>6, <2>1 DEF IInv, PaysOnce, Paying, Bridging
<1>10. PayOK(c)'
  <2>1. Backed(c, x, server, nonces)
    BY <1>4 DEF Backed
  <2>2. OnTime(pay[c])'
    BY <1>4, <1>5, <1>7 DEF OnTime, Covers
  <2> QED
    BY <1>5, <1>7, <2>1, <2>2 DEF PayOK
<1>11. IssuedInv'
  BY <1>5, SameRecords, StaysIssued DEF IInv
<1> QED
  BY <1>2, <1>5, <1>6, <1>7, <1>8, <1>9, <1>10, <1>11, IdleOK, CallActs DEF IInv

\* The backend keeps the nonce before any money moves.
LEMMA NonceKeeps ==
  ASSUME IInv, NEW c \in Callers, AddTemporaryWalletNonce(c)
  PROVE  IInv'
<1> DEFINE e == NewNonce(c)
           ready == [call[c] EXCEPT !.pc = "send"]
<1>1. PICK new \in {ready, Idle} : call' = [call EXCEPT ![c] = new]
  BY DEF AddTemporaryWalletNonce, Goto, Done, Step
<1>2. /\ call[c].pc = "nonce" /\ nonces' = nonces \union {e}
      /\ UNCHANGED <<clock, books, funds, flight, plan, issued, recoveries, drawn>>
  BY DEF AddTemporaryWalletNonce, Active
<1>3. /\ call \in [Callers -> CallStates] /\ call[c] \in CallStates /\ c \in Payments
      /\ now \in Int
  BY Parties DEF IInv, TypeOK
<1>4. call[c].goal \in {"lifi", "public"} /\ (call[c].goal # "public" => Known(call[c].rec.vault))
  BY <1>2 DEF IInv, CallOK
<1>5. e \in TemporaryWallets /\ Recalls(e, c, call[c].goal)
  BY <1>3, <1>4 DEF NewNonce, TemporaryWallets, Recalls, DeriveTempWallet, WalletOf
<1>6. /\ ready \in CallStates /\ ready.goal = call[c].goal /\ ready.pc = "send"
      /\ ready.rec = call[c].rec
  BY <1>3 DEF CallStates
<1> HIDE DEF e, ready
<1>7. new \in CallStates /\ new.goal \in {call[c].goal, "none"}
  <2>1. Idle.goal = "none"
    BY DEF Idle
  <2> QED
    BY <1>6, <2>1, IdleOK
<1>8. /\ server' = server /\ plan' = plan /\ pay' = pay /\ sweeps' = sweeps
      /\ recoveries' = recoveries /\ drawn' = drawn /\ issued' = issued
  BY <1>2 DEF books, funds
<1>9. /\ call'[c] = new /\ call' \in [Callers -> CallStates]
      /\ \A d \in Callers : d # c => call'[d] = call[d]
  BY <1>1, <1>3, <1>7
<1>10. TypeOK'
  BY <1>2, <1>5, <1>8, <1>9 DEF IInv, TypeOK, clock, books, funds
<1>11. PaysOnce(c)'
  BY <1>7, <1>8, <1>9, StaysOnce DEF IInv
<1>12. CallOK(c)'
  <2>1. CASE new = Idle
    BY <1>9, <2>1, IdleOK
  <2>2. CASE new = ready
    BY <1>2, <1>4, <1>5, <1>6, <1>8, <1>9, <2>2 DEF CallOK, Known, Paying, Bridging
  <2> QED
    BY <2>1, <2>2
<1>13. IssuedInv'
  BY <1>8, SameRecords, StaysIssued DEF IInv
<1> QED
  BY <1>2, <1>8, <1>9, <1>10, <1>11, <1>12, <1>13, CallActs DEF IInv

\* The relayed transaction of a LiFi bridge.
LEMMA LifiKeeps ==
  ASSUME IInv, NEW c \in Callers, hinkalLifiBridgePrivateOut(c)
  PROVE  IInv'
<1> DEFINE x == Routed(c, 0)
<1>1. /\ pay' = [pay EXCEPT ![c] = x]
      /\ call' = [call EXCEPT ![c] = Idle] /\ call[c].pc = "send"
      /\ UNCHANGED <<clock, books, sweeps, flight, plan, issued, bridgeVars>>
  BY DEF hinkalLifiBridgePrivateOut, Done, Step, Active
<1>2. /\ call \in [Callers -> CallStates] /\ call[c] \in CallStates
      /\ pay \in [Payments -> PaymentStates] /\ pay[c] \in PaymentStates /\ c \in Payments
  BY Parties DEF IInv, TypeOK
<1>3. /\ call[c].goal \in {"lifi", "public"} /\ call[c].goal \in Paying
      /\ call[c].goal # "public" => OnRecord(server, call[c].rec.vault)
      /\ \E e \in nonces : Recalls(e, c, call[c].goal)
  BY <1>1 DEF IInv, CallOK, Known
<1>4. /\ x \in PaymentStates /\ x.at = "route" /\ x.route = call[c].goal
      /\ x.vault = call[c].rec.vault
  BY <1>2, <1>3 DEF Routed, PaymentStates, CallStates, Records, Places, Routes
<1> HIDE DEF x
<1>5. /\ server' = server /\ plan' = plan /\ nonces' = nonces /\ sweeps' = sweeps
      /\ recoveries' = recoveries /\ drawn' = drawn /\ issued' = issued
  BY <1>1 DEF books, bridgeVars
<1>6. /\ call'[c] = Idle /\ call' \in [Callers -> CallStates]
      /\ \A d \in Callers : d # c => call'[d] = call[d]
  BY <1>1, <1>2, IdleOK
<1>7. /\ pay'[c] = x /\ pay' \in [Payments -> PaymentStates]
      /\ \A p \in Payments : p # c => pay'[p] = pay[p]
  BY <1>1, <1>2, <1>4
<1>8. TypeOK'
  BY <1>1, <1>5, <1>6, <1>7 DEF IInv, TypeOK, clock, books, bridgeVars
<1>9. pay[c].at = "none" /\ PaysOnce(c)'
  <2>1. Idle.goal = "none"
    BY DEF Idle
  <2> QED
    BY <1>3, <1>5, <1>6, <2>1 DEF IInv, PaysOnce, Paying, Bridging
<1>10. PayOK(c)'
  <2>1. Backed(c, x, server, nonces)
    BY <1>3, <1>4 DEF Backed
  <2>2. pay'[c].route # "near"
    BY <1>3, <1>4, <1>7
  <2> QED
    BY <1>5, <1>7, <2>1, <2>2 DEF PayOK, OnTime
<1>11. IssuedInv'
  BY <1>5, SameRecords, StaysIssued DEF IInv
<1> QED
  BY <1>1, <1>5, <1>6, <1>7, <1>8, <1>9, <1>10, <1>11, IdleOK, CallActs DEF IInv

-----------------------------------------------------------------------------
(* Recovering a temporary wallet *)

\* A fee in parts of Bps is a number, and no larger on less.
LEMMA FeeGrows ==
  ASSUME NEW x \in Nat, NEW y \in Nat, x <= y
  PROVE  /\ CalculateTotalFee(x, FlatFee, Rate) \in Nat
         /\ CalculateTotalFee(x, FlatFee, Rate) <= CalculateTotalFee(y, FlatFee, Rate)
         /\ FlatFee <= CalculateTotalFee(x, FlatFee, Rate)
<1> DEFINE a == x * Rate
           b == y * Rate
<1>1. a \in Nat /\ b \in Nat
  BY Numbers
<1>2. a <= b
  <2>1. y - x \in Nat
    OBVIOUS
  <2>2. (y - x) * Rate \in Nat
    BY <2>1, Numbers
  <2>3. (y - x) * Rate = b - a
    BY <2>1, Numbers
  <2> QED
    BY <1>1, <2>2, <2>3
<1> HIDE DEF a, b
<1>3. /\ a \div Bps \in Nat /\ b \div Bps \in Nat
      /\ a \div Bps <= b \div Bps
  BY <1>1, <1>2, Numbers
<1> QED
  BY <1>1, <1>3, Numbers DEF CalculateTotalFee, a, b

\* What is recovered and its fee are no more than the wallet has, and the fee
\* is a number.
LEMMA RecoveryPays ==
  ASSUME NEW job \in Recoveries, recoverAmount(job.amount) > 0
  PROVE  /\ recoverAmount(job.amount) \in Nat \ {0} /\ recoverAmount(job.amount) <= job.amount
         /\ RecoveryFee(job) \in Nat
         /\ recoverAmount(job.amount) + RecoveryFee(job) <= job.amount
<1> DEFINE net == recoverAmount(job.amount)
<1>1. job.amount \in Nat
  BY DEF Recoveries
<1>2. /\ CalculateTotalFee(job.amount, FlatFee, Rate) \in Nat
      /\ FlatFee <= CalculateTotalFee(job.amount, FlatFee, Rate)
  BY <1>1, FeeGrows
<1>3. net = job.amount - CalculateTotalFee(job.amount, FlatFee, Rate)
  BY DEF recoverAmount
<1> HIDE DEF net
<1>4. net \in Nat \ {0} /\ net <= job.amount
  BY <1>1, <1>2, <1>3 DEF net
<1>5. /\ CalculateTotalFee(net, FlatFee, Rate) \in Nat
      /\ CalculateTotalFee(net, FlatFee, Rate) <= CalculateTotalFee(job.amount, FlatFee, Rate)
  BY <1>1, <1>4, FeeGrows
<1>6. RecoveryFee(job) \in {FlatFee, CalculateTotalFee(net, FlatFee, Rate)}
  BY DEF RecoveryFee, net
<1> QED
  BY <1>1, <1>2, <1>3, <1>4, <1>5, <1>6, Numbers DEF net

\* What the private balance is asked for: nothing, unless the wallet no longer
\* has what the recovery spends.
LEMMA TopUpRange ==
  ASSUME NEW balance \in Nat, NEW spent \in Nat, NEW fee \in Nat
  PROVE  /\ FeeToTransfer(balance, spent, fee) \in Nat
         /\ FeeToTransfer(balance, spent, fee) <= fee
         /\ spent + fee <= balance => FeeToTransfer(balance, spent, fee) = 0
BY DEF FeeToTransfer, Largest

\* A recovery is submitted; only one whose wallet was emptied meanwhile asks
\* the private balance for anything.
LEMMA RecoverKeeps ==
  ASSUME IInv, NEW c \in Callers, recoverTemporaryWalletBalance(c)
  PROVE  IInv'
<1>1. PICK job \in call[c].job :
        /\ recoverAmount(job.amount) > 0
        /\ recoveries' = recoveries \union
             {actionPrivateWallet(DeriveTempWallet(job.entry), recoverAmount(job.amount),
                                  RecoveryFee(job), Destination(job))}
  BY DEF recoverTemporaryWalletBalance
<1> DEFINE wallet == DeriveTempWallet(job.entry)
           net == recoverAmount(job.amount)
           fee == RecoveryFee(job)
           r == actionPrivateWallet(wallet, net, fee, Destination(job))
<1>2. /\ call' = [call EXCEPT ![c] = Idle] /\ call[c].pc = "recover"
      /\ UNCHANGED <<clock, books, funds, flight, plan, issued, nonces, drawn>>
  BY DEF recoverTemporaryWalletBalance, Done, Step, Active
<1>3. call \in [Callers -> CallStates]
  BY DEF IInv, TypeOK
<1>4. job \in Recoveries /\ job.amount > 0 /\ HoldsOrHeld(wallet, job.amount)
  BY <1>2 DEF IInv, CallOK
<1>5. net \in Nat \ {0} /\ fee \in Nat /\ net + fee <= job.amount /\ job.amount \in Nat
  BY <1>1, <1>4, RecoveryPays DEF Recoveries
<1>6. wallet \in Wallets /\ Destination(job) \in Destinations
  BY <1>4 DEF DeriveTempWallet, Wallets, Recoveries, TemporaryWallets, Owners, Destination,
              Destinations
<1> HIDE DEF wallet, net, fee
<1>7. /\ r.wallet = wallet /\ r.amount = net /\ r.fee = fee
      /\ r.topUp = FeeToTransfer(PublicBalance(wallet), net, fee)
  BY DEF actionPrivateWallet
<1>8. PublicBalance(wallet) \in Nat
  BY BalanceOf DEF IInv
<1>9. /\ r.topUp \in Nat /\ r.topUp <= fee
      /\ net + fee <= PublicBalance(wallet) => r.topUp = 0
  BY <1>5, <1>7, <1>8, TopUpRange
<1>10. r \in [wallet : Wallets, amount : Nat \ {0}, fee : Nat, topUp : Nat, to : Destinations]
  BY <1>5, <1>6, <1>7, <1>9 DEF actionPrivateWallet
<1>11. r.topUp # 0 => \A p \in Payments : WalletOf(p) = wallet => Gone(p)
  <2>1. ASSUME NEW p \in Payments, WalletOf(p) = wallet, ~Gone(p)
        PROVE  r.topUp = 0
    <3>1. pay[p].at = "wallet" /\ pay[p].amount = job.amount
      BY <1>4, <2>1 DEF HoldsOrHeld
    <3>2. PublicBalance(wallet) = job.amount
      BY <2>1, <3>1, BalanceOf DEF IInv
    <3> QED
      BY <1>5, <1>9, <3>2
  <2> QED
    BY <2>1
<1>12. /\ server' = server /\ plan' = plan /\ pay' = pay /\ sweeps' = sweeps
       /\ nonces' = nonces /\ drawn' = drawn /\ issued' = issued
  BY <1>2 DEF books, funds
<1>13. recoveries' = recoveries \union {r}
  BY <1>1 DEF wallet, net, fee
<1> HIDE DEF r
<1>14. /\ call'[c] = Idle /\ call' \in [Callers -> CallStates]
       /\ \A d \in Callers : d # c => call'[d] = call[d]
  BY <1>2, <1>3, IdleOK
<1>15. TypeOK'
  BY <1>2, <1>10, <1>12, <1>13, <1>14 DEF IInv, TypeOK, clock, books, funds
<1>16. PaysOnce(c)'
  <2>1. Idle.goal = "none"
    BY DEF Idle
  <2> QED
    BY <1>12, <1>14, <2>1, StaysOnce DEF IInv
<1>17. IssuedInv'
  BY <1>12, SameRecords, StaysIssued DEF IInv
<1>18. \A s \in recoveries' \ recoveries : RecoveryOK(s)'
  <2>1. ASSUME NEW s \in recoveries' \ recoveries PROVE RecoveryOK(s)'
    <3>1. s = r
      BY <1>13
    <3>2. RecoveryOK(s)
      BY <1>7, <1>9, <1>11, <3>1 DEF RecoveryOK
    <3> QED
      BY <1>12, <3>2 DEF RecoveryOK, Gone
  <2> QED
    BY <2>1
<1> QED
  BY <1>2, <1>12, <1>14, <1>15, <1>16, <1>17, <1>18, IdleOK, CallActs DEF IInv

\* A recovery that goes through is paid by the wallet.
LEMMA MinedKeeps ==
  ASSUME IInv, RecoveryMined
  PROVE  IInv'
<1>1. PICK r \in recoveries :
        /\ recoveries' = recoveries \ {r}
        /\ IF PublicBalance(r.wallet) + r.topUp >= r.amount + r.fee
           THEN /\ pay' = [p \in Payments |->
                             IF pay[p].at = "wallet" /\ WalletOf(p) = r.wallet
                             THEN [pay[p] EXCEPT !.at = r.to] ELSE pay[p]]
                /\ drawn' = drawn + r.topUp
           ELSE UNCHANGED <<pay, drawn>>
        /\ UNCHANGED <<clock, books, app, sweeps, nonces>>
  BY DEF RecoveryMined
<1>2. /\ r \in [wallet : Wallets, amount : Nat \ {0}, fee : Nat, topUp : Nat, to : Destinations]
      /\ RecoveryOK(r) /\ drawn = 0 /\ pay \in [Payments -> PaymentStates]
  BY DEF IInv, TypeOK
<1>3. /\ UNCHANGED <<server, app, nonces>> /\ now' = now /\ versions' = versions
      /\ blocks' = blocks /\ sweeps' = sweeps /\ recoveries' \subseteq recoveries
  BY <1>1 DEF clock, books
<1>4. drawn' = drawn
  <2>1. CASE r.topUp = 0
    BY <1>1, <1>2, <2>1
  <2>2. CASE r.topUp # 0
    <3>1. \A p \in Payments : WalletOf(p) = r.wallet => pay[p].at # "wallet"
      BY <1>2, <2>2 DEF RecoveryOK, Gone
    <3>2. PublicBalance(r.wallet) = 0
      BY <3>1, BalanceOf DEF IInv
    <3>3. ~(PublicBalance(r.wallet) + r.topUp >= r.amount + r.fee)
      BY <1>2, <3>2 DEF RecoveryOK
    <3> QED
      BY <1>1, <3>3
  <2> QED
    BY <2>1, <2>2
<1>5. ASSUME NEW p \in Payments
      PROVE  /\ pay'[p] \in PaymentStates
             /\ \/ pay'[p] = pay[p]
                \/ PayKept(p) /\ PayOK(p)' /\ pay[p].at # "none"
  <2>1. CASE pay'[p] = pay[p]
    BY <1>2, <2>1
  <2>2. CASE pay'[p] # pay[p]
    <3>1. pay'[p] = [pay[p] EXCEPT !.at = r.to] /\ pay[p].at = "wallet"
      BY <1>1, <2>2
    <3>2. pay[p] \in PaymentStates /\ r.to \in Destinations
      BY <1>2
    <3>3. /\ pay'[p] \in PaymentStates /\ pay'[p].at = r.to
          /\ pay'[p].route = pay[p].route /\ pay'[p].overlapped = pay[p].overlapped
          /\ pay'[p].deadline = pay[p].deadline /\ pay'[p].since = pay[p].since
          /\ pay'[p].vault = pay[p].vault
      BY <3>1, <3>2 DEF PaymentStates, Places
    <3>4. PayKept(p)
      BY <3>1, <3>2, <3>3 DEF PayKept, Gone, Destinations
    <3>5. PayOK(p)'
      BY <1>3, <3>2, <3>3 DEF IInv, PayOK, Backed, OnTime, Covers, Destinations
    <3> QED
      BY <3>1, <3>3, <3>4, <3>5
  <2> QED
    BY <2>1, <2>2
<1>6. pay' \in [Payments -> PaymentStates]
  <2>1. CASE pay' = pay
    BY <1>2, <2>1
  <2>2. CASE pay' # pay
    <3>1. pay' = [p \in Payments |-> pay'[p]]
      BY <1>1, <2>2
    <3> QED
      BY <1>5, <3>1
  <2> QED
    BY <2>1, <2>2
<1>7. TypeOK'
  BY <1>1, <1>3, <1>4, <1>6 DEF IInv, TypeOK, app
<1> QED
  BY <1>2, <1>3, <1>4, <1>5, <1>7, WorldMoves, SMTT(30) DEF IInv, TypeOK

-----------------------------------------------------------------------------
(* Loading the account, and the application's end *)

\* A caller joins the load.
LEMMA FetchKeeps ==
  ASSUME IInv, NEW c \in Callers, fetchAccount(c), UNCHANGED bridgeVars
  PROVE  IInv'
<1> DEFINE new == [call[c] EXCEPT !.pc = "wait"]
<1>1. /\ call' = [call EXCEPT ![c] = new] /\ call[c].pc = "fetch"
      /\ flight' = [flight EXCEPT !.members = @ \union {c},
                                  !.phase = IF @ = "none" THEN "asked" ELSE @]
      /\ UNCHANGED <<clock, books, funds, plan, issued, bridgeVars>>
  BY DEF fetchAccount, Goto, Step, Active
<1>2. /\ call \in [Callers -> CallStates] /\ call[c] \in CallStates
      /\ flight \in [phase : {"none", "asked", "served"}, members : SUBSET Callers,
                     records : SUBSET Records]
  BY DEF IInv, TypeOK
<1>3. new \in CallStates /\ new.goal = call[c].goal /\ new.pc = "wait" /\ new.fresh = call[c].fresh
  BY <1>2 DEF CallStates
<1> HIDE DEF new
<1>4. /\ call'[c] = new /\ call' \in [Callers -> CallStates]
      /\ \A d \in Callers : d # c => call'[d] = call[d]
  BY <1>1, <1>2, <1>3
<1>5. /\ flight'.members = flight.members \union {c} /\ flight'.records = flight.records
      /\ flight'.phase = "served" => flight.phase = "served"
      /\ flight' \in [phase : {"none", "asked", "served"}, members : SUBSET Callers,
                      records : SUBSET Records]
  BY <1>1, <1>2
<1>6. TypeOK'
  BY <1>1, <1>4, <1>5 DEF IInv, TypeOK, clock, books, funds, bridgeVars
<1>7. FlightInv'
  <2>1. \A d \in flight.members : d \in Callers /\ call[d].pc = "wait"
    BY <1>2 DEF IInv, FlightInv
  <2>2. \A d \in flight'.members : call'[d].pc = "wait"
    BY <1>3, <1>4, <1>5, <2>1
  <2>3. server' = server
    BY <1>1 DEF books
  <2> QED
    BY <1>5, <2>2, <2>3 DEF IInv, FlightInv, Covers
<1>8. CallOK(c)'
  <2>1. ~call[c].fresh
    BY <1>1 DEF IInv, CallOK
  <2> QED
    BY <1>3, <1>4, <2>1 DEF CallOK
<1> QED
  BY <1>1, <1>3, <1>4, <1>6, <1>7, <1>8, CallsMove

\* The enclave answers.
LEMMA ServesKeeps ==
  ASSUME IInv, FetchReceiveVaultAccount, UNCHANGED bridgeVars
  PROVE  IInv'
<1>1. /\ flight' = [flight EXCEPT !.phase = "served", !.records = server]
      /\ UNCHANGED <<clock, books, funds, plan, issued, call, bridgeVars>>
  BY DEF FetchReceiveVaultAccount
<1>2. /\ server \subseteq Records
      /\ flight \in [phase : {"none", "asked", "served"}, members : SUBSET Callers,
                     records : SUBSET Records]
  BY DEF IInv, TypeOK
<1>3. /\ flight'.members = flight.members /\ flight'.records = server
      /\ flight' \in [phase : {"none", "asked", "served"}, members : SUBSET Callers,
                      records : SUBSET Records]
  BY <1>1, <1>2
<1>4. TypeOK'
  BY <1>1, <1>3 DEF IInv, TypeOK, clock, books, funds, bridgeVars
<1>5. FlightInv'
  <2>1. \A r \in server : Watching(server, r.vault, r.expiry)
    BY <1>2 DEF Watching, Records
  <2>2. server' = server
    BY <1>1 DEF books
  <2> QED
    BY <1>1, <1>3, <2>1, <2>2 DEF IInv, FlightInv, Covers
<1> QED
  BY <1>1, <1>4, <1>5, CallsMove

\* Every caller that joined gets the records that fit, less one that could not
\* be checked.
LEMMA LoadKeeps ==
  ASSUME IInv, loadAccount, UNCHANGED bridgeVars
  PROVE  IInv'
<1>1. PICK lost \in {{}} \union {{r} : r \in Resolved(flight.records)} :
        call' = [c \in Callers |->
                   IF c \in flight.members
                   THEN [call[c] EXCEPT !.pc = "loaded",
                                        !.seen = Resolved(flight.records) \ lost]
                   ELSE call[c]]
  BY DEF loadAccount
<1>2. /\ flight.phase = "served" /\ flight' = NoFlight
      /\ UNCHANGED <<clock, books, funds, plan, issued, bridgeVars>>
  BY DEF loadAccount
<1>3. /\ call \in [Callers -> CallStates] /\ flight.members \subseteq Callers
      /\ flight.records \subseteq Records
  BY DEF IInv, TypeOK
<1> DEFINE seen == Resolved(flight.records) \ lost
<1>4. \A r \in seen : r \in Records /\ Fits(r) /\ Covers(r.vault, r.expiry)
  BY <1>2, <1>3 DEF Resolved, IInv, FlightInv
<1> HIDE DEF seen
<1>5. ASSUME NEW c \in Callers
      PROVE  /\ call'[c] \in CallStates /\ call'[c].goal \in {call[c].goal, "none"}
             /\ call'[c] = call[c] \/ CallOK(c)'
  <2>1. CASE c \notin flight.members
    <3>1. call'[c] = call[c]
      BY <1>1, <2>1
    <3> QED
      BY <1>3, <3>1
  <2>2. CASE c \in flight.members
    <3>1. call'[c] = [call[c] EXCEPT !.pc = "loaded", !.seen = seen]
      BY <1>1, <2>2 DEF seen
    <3>2. call[c] \in CallStates /\ seen \subseteq Records
      BY <1>3, <1>4
    <3>3. /\ call'[c] \in CallStates /\ call'[c].goal = call[c].goal
          /\ call'[c].pc = "loaded" /\ call'[c].seen = seen
          /\ call'[c].fresh = call[c].fresh
      BY <3>1, <3>2 DEF CallStates
    <3>4. ~call[c].fresh
      BY <2>2 DEF IInv, FlightInv, CallOK
    <3>5. server' = server
      BY <1>2 DEF books
    <3>6. CallOK(c)'
      BY <1>4, <3>3, <3>4, <3>5 DEF CallOK, Covers
    <3> QED
      BY <3>3, <3>6
  <2> QED
    BY <2>1, <2>2
<1>6. call' \in [Callers -> CallStates]
  <2>1. call' = [c \in Callers |-> call'[c]]
    BY <1>1
  <2> QED
    BY <1>5, <2>1
<1>7. TypeOK'
  BY <1>2, <1>6 DEF IInv, TypeOK, clock, books, funds, bridgeVars, NoFlight
<1>8. FlightInv'
  BY <1>2 DEF FlightInv, NoFlight
<1> QED
  BY <1>2, <1>5, <1>7, <1>8, CallsMove

\* Callers give up, some or all.
LEMMA GiveUp ==
  ASSUME IInv, NEW S \in SUBSET Callers, flight' = NoFlight,
         call' = [c \in Callers |-> IF c \in S THEN Idle ELSE call[c]],
         UNCHANGED <<clock, books, funds, plan, issued, bridgeVars>>
  PROVE  IInv'
<1>1. call \in [Callers -> CallStates]
  BY DEF IInv, TypeOK
<1>2. Idle.goal = "none"
  BY DEF Idle
<1>3. call' \in [Callers -> CallStates]
  BY <1>1, IdleOK
<1>4. TypeOK'
  BY <1>3 DEF IInv, TypeOK, clock, books, funds, bridgeVars, NoFlight
<1>5. FlightInv'
  BY DEF FlightInv, NoFlight
<1>6. ASSUME NEW c \in Callers
      PROVE  /\ call'[c].goal \in {call[c].goal, "none"}
             /\ call'[c] = call[c] \/ CallOK(c)'
  BY <1>2, IdleOK
<1> QED
  BY <1>4, <1>5, <1>6, CallsMove

\* A load that fails is the failure of every caller that joined.
LEMMA LoadFailsKeeps ==
  ASSUME IInv, loadFails, UNCHANGED bridgeVars
  PROVE  IInv'
<1>1. flight.members \in SUBSET Callers
  BY DEF IInv, TypeOK
<1> QED
  BY <1>1, GiveUp DEF loadFails

\* The application stops.
LEMMA CrashKeeps ==
  ASSUME IInv, Crash, UNCHANGED bridgeVars
  PROVE  IInv'
<1>1. call' = [c \in Callers |-> IF c \in Callers THEN Idle ELSE call[c]]
  BY DEF Crash
<1> QED
  BY <1>1, GiveUp DEF Crash

-----------------------------------------------------------------------------
(* Senders, the relayer, the bridges, the factory and the clock *)

\* One payment moves.
LEMMA PaymentMoves ==
  ASSUME IInv, NEW p \in Payments, NEW x \in PaymentStates,
         pay' = [pay EXCEPT ![p] = x], UNCHANGED <<clock, books, app, sweeps, bridgeVars>>,
         p \in Callers => pay[p].at # "none",
         pay[p].at # "wallet", Gone(p) => x.at \notin {"none", "route", "wallet"},
         Backed(p, x, server, nonces), p \in Callers => OnTime(x)
  PROVE  IInv'
<1>1. pay \in [Payments -> PaymentStates] /\ now \in Nat
  BY DEF IInv, TypeOK
<1>2. /\ pay'[p] = x /\ pay' \in [Payments -> PaymentStates]
      /\ \A q \in Payments : q # p => pay'[q] = pay[q]
  BY <1>1
<1>3. /\ UNCHANGED <<server, app, nonces, drawn>> /\ now' = now /\ versions' = versions
      /\ blocks' = blocks /\ sweeps' = sweeps /\ recoveries' = recoveries
  BY DEF clock, books, bridgeVars
<1>4. TypeOK'
  BY <1>2, <1>3 DEF IInv, TypeOK, app
<1>5. PayKept(p) /\ PayOK(p)'
  BY <1>2, <1>3 DEF PayKept, Gone, PayOK, Backed, OnTime, Covers
<1> QED
  BY <1>1, <1>2, <1>3, <1>4, <1>5, WorldMoves

\* A sender pays to an address that was handed out.
LEMMA SenderKeeps ==
  ASSUME IInv, SenderPays, UNCHANGED bridgeVars
  PROVE  IInv'
<1>1. PICK vault \in GivenOut, h \in Habits :
        pay' = [pay EXCEPT ![Sender] = [@ EXCEPT !.at = "vault", !.vault = vault,
                         !.chain = h.chain, !.token = h.token, !.risky = h.risky]]
  BY DEF SenderPays
<1> DEFINE x == [pay[Sender] EXCEPT !.at = "vault", !.vault = vault,
                   !.chain = h.chain, !.token = h.token, !.risky = h.risky]
<1>2. /\ pay[Sender].at = "none" /\ pay' = [pay EXCEPT ![Sender] = x]
      /\ UNCHANGED <<clock, books, app, sweeps, bridgeVars>>
  BY <1>1 DEF SenderPays
<1>3. pay[Sender] \in PaymentStates /\ server \subseteq Records
  BY Parties DEF IInv, TypeOK
<1>4. PICK r \in server : r.vault = vault
  <2>1. CASE \E i \in DOMAIN issued : vault = issued[i].vault
    BY <2>1 DEF IInv, IssuedInv
  <2>2. CASE \E q \in InitServer : vault = q.vault
    BY <2>2 DEF IInv, ServerInv, Known, OnRecord
  <2> QED
    BY <2>1, <2>2 DEF GivenOut, Resolved
<1>5. vault \in Vaults /\ h.chain \in Chains /\ h.token \in Tokens /\ h.risky \in BOOLEAN
  BY <1>3, <1>4, HabitAssumption DEF Records
<1>6. x \in PaymentStates /\ x.at = "vault" /\ x.vault = vault
  BY <1>3, <1>5 DEF PaymentStates, Places
<1> HIDE DEF x
<1>7. Backed(Sender, x, server, nonces)
  BY <1>4, <1>6 DEF Backed, OnRecord
<1> QED
  BY <1>2, <1>6, <1>7, Parties, PaymentMoves DEF Gone

\* The relayer shields what lies at a watched address.
LEMMA SettleKeeps ==
  ASSUME IInv, NEW p \in Payments, Settle(p), UNCHANGED bridgeVars
  PROVE  IInv'
<1> DEFINE x == [pay[p] EXCEPT !.at = "note"]
<1>1. /\ pay[p].at = "vault" /\ pay' = [pay EXCEPT ![p] = x]
      /\ UNCHANGED <<clock, books, app, sweeps, bridgeVars>>
  BY DEF Settle, Watched
<1>2. pay[p] \in PaymentStates /\ (p \in Callers => OnTime(pay[p]))
  BY DEF IInv, TypeOK, PayOK
<1>3. /\ x \in PaymentStates /\ x.at = "note" /\ x.vault = pay[p].vault
      /\ x.route = pay[p].route /\ x.deadline = pay[p].deadline /\ x.since = pay[p].since
      /\ x.overlapped = pay[p].overlapped
  BY <1>2 DEF PaymentStates, Places
<1> HIDE DEF x
<1>4. Backed(p, x, server, nonces) /\ (p \in Callers => OnTime(x))
  BY <1>2, <1>3 DEF Backed, OnTime
<1> QED
  BY <1>1, <1>3, <1>4, PaymentMoves

\* LiFi delivers, or hands back to the wallet.
LEMMA LifiEndsKeeps ==
  ASSUME IInv, NEW p \in Payments, LifiEnds(p)
  PROVE  IInv'
<1>1. /\ pay[p].at = "route" /\ pay[p].route \in {"lifi", "public"}
      /\ UNCHANGED <<clock, books, app, sweeps, bridgeVars>>
  BY DEF LifiEnds, bridgeFrame
<1>2. /\ pay[p] \in PaymentStates /\ (p \in Callers => OnTime(pay[p]))
      /\ Backed(p, pay[p], server, nonces)
  BY DEF IInv, TypeOK, PayOK
<1>3. PICK x \in PaymentStates :
        /\ pay' = [pay EXCEPT ![p] = x] /\ x.at \in {"vault", "paid", "wallet"}
        /\ x.at = "vault" => pay[p].route = "lifi"
        /\ x.vault = pay[p].vault /\ x.route = pay[p].route
  <2>1. CASE \E risky \in BOOLEAN : /\ pay[p].route = "lifi"
                                    /\ pay' = [pay EXCEPT ![p].at = "vault", ![p].risky = risky]
    <3>1. PICK risky \in BOOLEAN : pay' = [pay EXCEPT ![p].at = "vault", ![p].risky = risky]
      BY <2>1
    <3> DEFINE y == [pay[p] EXCEPT !.at = "vault", !.risky = risky]
    <3>2. /\ y \in PaymentStates /\ y.at = "vault" /\ y.vault = pay[p].vault
          /\ y.route = pay[p].route
      BY <1>2 DEF PaymentStates, Places
    <3>3. pay' = [pay EXCEPT ![p] = y]
      BY <3>1 DEF IInv, TypeOK
    <3> QED
      BY <2>1, <3>2, <3>3
  <2>2. CASE pay' = [pay EXCEPT ![p].at = "paid"]
    <3> DEFINE y == [pay[p] EXCEPT !.at = "paid"]
    <3>1. /\ y \in PaymentStates /\ y.at = "paid" /\ y.vault = pay[p].vault
          /\ y.route = pay[p].route
      BY <1>2 DEF PaymentStates, Places
    <3> QED
      BY <2>2, <3>1
  <2>3. CASE \E amount \in Refunds, token \in Tokens :
               pay' = [pay EXCEPT ![p].at = "wallet", ![p].amount = amount,
                                  ![p].token = token]
    <3>1. PICK amount \in Refunds, token \in Tokens :
            pay' = [pay EXCEPT ![p].at = "wallet", ![p].amount = amount,
                               ![p].token = token]
      BY <2>3
    <3> DEFINE y == [pay[p] EXCEPT !.at = "wallet", !.amount = amount, !.token = token]
    <3>2. /\ y \in PaymentStates /\ y.at = "wallet" /\ y.vault = pay[p].vault
          /\ y.route = pay[p].route
      BY <1>2, Numbers DEF PaymentStates, Places
    <3>3. pay' = [pay EXCEPT ![p] = y]
      BY <3>1 DEF IInv, TypeOK
    <3> QED
      BY <3>2, <3>3
  <2> QED
    BY <2>1, <2>2, <2>3 DEF LifiEnds
<1>4. Backed(p, x, server, nonces)
  BY <1>1, <1>2, <1>3 DEF Backed
<1>5. OnTime(x)
  BY <1>1, <1>3 DEF OnTime
<1> QED
  BY <1>1, <1>3, <1>4, <1>5, PaymentMoves DEF Gone

\* NEAR delivers by the deadline, or hands back to the intents account.
LEMMA NearEndsKeeps ==
  ASSUME IInv, NEW p \in Payments, NearEnds(p)
  PROVE  IInv'
<1>1. /\ pay[p].at = "route" /\ pay[p].route \in {"near", "nearTo"}
      /\ UNCHANGED <<clock, books, app, sweeps, bridgeVars>>
  BY DEF NearEnds, bridgeFrame
<1>2. PICK at \in {"vault", "intents"} : pay' = [pay EXCEPT ![p] = [pay[p] EXCEPT !.at = at]]
  BY DEF NearEnds
<1> DEFINE x == [pay[p] EXCEPT !.at = at]
<1>3. /\ pay[p] \in PaymentStates /\ (p \in Callers => OnTime(pay[p]))
      /\ Backed(p, pay[p], server, nonces)
  BY DEF IInv, TypeOK, PayOK
<1>4. /\ x \in PaymentStates /\ x.at = at /\ x.vault = pay[p].vault
      /\ x.route = pay[p].route /\ x.deadline = pay[p].deadline /\ x.since = pay[p].since
      /\ x.overlapped = pay[p].overlapped
  BY <1>3 DEF PaymentStates, Places
<1>5. pay' = [pay EXCEPT ![p] = x]
  BY <1>2
<1> HIDE DEF x
<1>6. Backed(p, x, server, nonces) /\ (p \in Callers => OnTime(x))
  BY <1>1, <1>3, <1>4 DEF Backed, OnTime
<1> QED
  BY <1>1, <1>4, <1>5, <1>6, PaymentMoves DEF Gone

\* The factory takes what lies at the vault the sweep was signed for.
LEMMA SweepMinedKeeps ==
  ASSUME IInv, SweepMined, UNCHANGED bridgeVars
  PROVE  IInv'
<1>1. PICK s \in sweeps :
        /\ sweeps' = sweeps \ {s}
        /\ pay' = [p \in Payments |-> IF Sweeps(s, p) THEN [pay[p] EXCEPT !.at = "swept"]
                                      ELSE pay[p]]
        /\ UNCHANGED <<clock, books, app>>
  BY DEF SweepMined
<1>2. pay \in [Payments -> PaymentStates] /\ now \in Nat
  BY DEF IInv, TypeOK
<1>3. /\ UNCHANGED <<server, app, nonces, drawn>> /\ now' = now /\ versions' = versions
      /\ blocks' = blocks /\ sweeps' \subseteq sweeps /\ recoveries' = recoveries
  BY <1>1 DEF clock, books, bridgeVars
<1>4. ASSUME NEW p \in Payments
      PROVE  /\ pay'[p] \in PaymentStates
             /\ \/ pay'[p] = pay[p]
                \/ PayKept(p) /\ PayOK(p)' /\ pay[p].at # "none"
  <2>1. CASE ~Sweeps(s, p)
    BY <1>1, <1>2, <2>1
  <2>2. CASE Sweeps(s, p)
    <3>1. pay'[p] = [pay[p] EXCEPT !.at = "swept"] /\ pay[p].at = "vault"
      BY <1>1, <2>2 DEF Sweeps
    <3>2. pay[p] \in PaymentStates
      BY <1>2
    <3>3. /\ pay'[p] \in PaymentStates /\ pay'[p].at = "swept"
          /\ pay'[p].route = pay[p].route /\ pay'[p].overlapped = pay[p].overlapped
          /\ pay'[p].deadline = pay[p].deadline /\ pay'[p].since = pay[p].since
          /\ pay'[p].vault = pay[p].vault
      BY <3>1, <3>2 DEF PaymentStates, Places
    <3>4. PayKept(p)
      BY <3>1, <3>3 DEF PayKept, Gone
    <3>5. PayOK(p)'
      BY <1>3, <3>2, <3>3 DEF IInv, PayOK, Backed, OnTime, Covers
    <3> QED
      BY <3>1, <3>3, <3>4, <3>5
  <2> QED
    BY <2>1, <2>2
<1>5. pay' \in [Payments -> PaymentStates]
  <2>1. pay' = [p \in Payments |-> pay'[p]]
    BY <1>1
  <2> QED
    BY <1>4, <2>1
<1>6. TypeOK'
  BY <1>3, <1>5 DEF IInv, TypeOK, app
<1> QED
  BY <1>2, <1>3, <1>4, <1>6, WorldMoves

\* The relayer refuses, the factory is upgraded, time passes.
LEMMA RestKeeps ==
  ASSUME IInv, (\E p \in Payments : Refuse(p)) \/ Upgrade \/ Tick, UNCHANGED bridgeVars
  PROVE  IInv'
<1>1. /\ UNCHANGED <<server, app, nonces, drawn>> /\ pay' = pay /\ sweeps' = sweeps
      /\ recoveries' = recoveries
  BY DEF Refuse, Upgrade, Tick, funds, books, bridgeVars
<1>2. now' \in 0..MaxNow /\ now <= now' /\ versions' \in 1..MaxVersions
  BY Numbers DEF Refuse, Upgrade, Tick, clock, IInv, TypeOK
<1>3. blocks' \subseteq Balances
  <2>1. ASSUME NEW p \in Payments, Refuse(p) PROVE blocks' \subseteq Balances
    <3>1. pay[p] \in PaymentStates /\ blocks \subseteq Balances
      BY DEF IInv, TypeOK
    <3>2. [vault |-> pay[p].vault, chain |-> pay[p].chain, token |-> pay[p].token] \in Balances
      BY <3>1 DEF PaymentStates, Balances
    <3> QED
      BY <2>1, <3>1, <3>2 DEF Refuse
  <2>2. CASE Upgrade \/ Tick
    BY <2>2 DEF Upgrade, Tick, books, IInv, TypeOK
  <2> QED
    BY <2>1, <2>2
<1>4. TypeOK'
  BY <1>1, <1>2, <1>3 DEF IInv, TypeOK, app
<1> QED
  BY <1>1, <1>2, <1>4, WorldMoves

-----------------------------------------------------------------------------
(* The invariant *)

\* What earlier sessions left behind is in order.
LEMMA Starts ==
  ASSUME Init
  PROVE  IInv
<1>1. /\ now = 0 /\ versions = 1 /\ server = InitServer /\ blocks = {} /\ flight = NoFlight
      /\ call = [c \in Callers |-> Idle] /\ issued = <<>> /\ sweeps = {}
      /\ nonces = InitNonces /\ recoveries = {} /\ drawn = 0
  BY DEF Init, VaultInit
<1>2. PICK s \in Sessions : plan = s.plan /\ pay = s.pay
  BY DEF Init, VaultInit
<1>3. /\ InitNonces \subseteq TemporaryWallets
      /\ plan \in [Callers -> Seq(Goals)] /\ pay \in [Payments -> PaymentStates]
      /\ \A p \in Payments : Backed(p, pay[p], InitServer, InitNonces)
      /\ \A c \in Callers :
           /\ pay[c].at = "none" /\ pay[c].route = "none"
           /\ \A i, j \in DOMAIN plan[c] :
                plan[c][i] \in Paying /\ plan[c][j] \in Paying => i = j
  BY <1>2, SessionAssumption
<1>4. \A c \in Callers : call[c] = Idle
  BY <1>1
<1>5. TypeOK
  BY <1>1, <1>3, <1>4, IdleOK, Numbers, ServerAssumption DEF TypeOK, NoFlight
<1>6. ServerInv
  <2>1. ASSUME NEW r \in server
        PROVE  IF Fits(r) THEN r.expiry <= now + AddressTTL ELSE r.vault.owner = "other"
    <3>1. IF Fits(r) THEN r.expiry <= AddressTTL ELSE r.vault.owner = "other"
      BY <1>1, ServerAssumption, FitsOwn
    <3>2. now + AddressTTL = AddressTTL
      BY <1>1, Numbers
    <3> QED
      BY <3>1, <3>2
  <2>2. server # {} => \E r \in server : \A t \in server : t.index <= r.index
    BY <1>1, ServerAssumption
  <2>3. \A r \in InitServer : Known(r.vault)
    BY <1>1 DEF Known, OnRecord
  <2> QED
    BY <2>1, <2>2, <2>3 DEF ServerInv
<1>7. IssuedInv /\ FlightInv
  BY <1>1 DEF IssuedInv, FlightInv, NoFlight
<1>8. ASSUME NEW c \in Callers PROVE PaysOnce(c) /\ CallOK(c)
  BY <1>3, <1>4 DEF PaysOnce, CallOK, Idle, Paying, Bridging
<1>9. ASSUME NEW p \in Payments PROVE PayOK(p)
  BY <1>1, <1>3 DEF PayOK, OnTime
<1> QED
  BY <1>1, <1>5, <1>6, <1>7, <1>8, <1>9 DEF IInv

\* Every step of a caller keeps the invariant.
LEMMA CallersKeep ==
  ASSUME IInv, NEW c \in Callers,
         \/ /\ \/ Begin(c) \/ Fails(c)
               \/ fetchAccount(c) \/ Reuse(c) \/ NothingReusable(c)
               \/ GetReceiveVaultCurrentVersion(c) \/ getNextIndex(c) \/ registerRecord(c)
               \/ Scan(c) \/ HinkalReceiveVaultRecover(c)
            /\ UNCHANGED bridgeVars
         \/ CheckReceiveVaultAddress(c) \/ GetNearIntentsQuote(c) \/ NearWithdraw(c)
         \/ GetLifiPrice(c) \/ AddTemporaryWalletNonce(c) \/ hinkalLifiBridgePrivateOut(c)
         \/ fetchNonceResults(c) \/ GetStuckBridgeBalances(c)
         \/ recoverTemporaryWalletBalance(c)
  PROVE  IInv'
BY BeginKeeps, FailsKeeps, FetchKeeps, ReuseKeeps, NothingReusableKeeps, VersionKeeps,
   NextIndexKeeps, RegisterKeeps, ScanKeeps, SweepKeeps, CheckKeeps, QuoteKeeps,
   NearWithdrawKeeps, PriceKeeps, NonceKeeps, LifiKeeps, NoncesKeeps, BalancesKeeps,
   RecoverKeeps

\* Every step keeps the invariant.
LEMMA Keeps ==
  ASSUME IInv, [Next]_vars
  PROVE  IInv'
<1>1. CASE VaultNext /\ UNCHANGED bridgeVars
  <2>1. ASSUME NEW c \in Callers,
               \/ Begin(c) \/ Fails(c)
               \/ fetchAccount(c) \/ Reuse(c) \/ NothingReusable(c)
               \/ GetReceiveVaultCurrentVersion(c) \/ getNextIndex(c) \/ registerRecord(c)
               \/ Scan(c) \/ HinkalReceiveVaultRecover(c)
        PROVE  IInv'
    BY <1>1, <2>1, CallersKeep
  <2>2. CASE Crash
    BY <1>1, <2>2, CrashKeeps
  <2>3. CASE FetchReceiveVaultAccount
    BY <1>1, <2>3, ServesKeeps
  <2>4. CASE loadAccount
    BY <1>1, <2>4, LoadKeeps
  <2>5. CASE loadFails
    BY <1>1, <2>5, LoadFailsKeeps
  <2>6. CASE SweepMined
    BY <1>1, <2>6, SweepMinedKeeps
  <2>7. CASE SenderPays
    BY <1>1, <2>7, SenderKeeps
  <2>8. ASSUME NEW p \in Payments, Settle(p) PROVE IInv'
    BY <1>1, <2>8, SettleKeeps
  <2>9. CASE (\E p \in Payments : Refuse(p)) \/ Upgrade \/ Tick
    BY <1>1, <2>9, RestKeeps
  <2> QED
    BY <1>1, <2>1, <2>2, <2>3, <2>4, <2>5, <2>6, <2>7, <2>8, <2>9 DEF VaultNext
<1>2. ASSUME NEW c \in Callers,
             \/ CheckReceiveVaultAddress(c) \/ GetNearIntentsQuote(c) \/ NearWithdraw(c)
             \/ GetLifiPrice(c) \/ AddTemporaryWalletNonce(c) \/ hinkalLifiBridgePrivateOut(c)
             \/ fetchNonceResults(c) \/ GetStuckBridgeBalances(c)
             \/ recoverTemporaryWalletBalance(c)
      PROVE  IInv'
  BY <1>2, CallersKeep
<1>3. ASSUME NEW p \in Payments, LifiEnds(p) \/ NearEnds(p) PROVE IInv'
  BY <1>3, LifiEndsKeeps, NearEndsKeeps
<1>4. CASE RecoveryMined
  BY <1>4, MinedKeeps
<1>5. CASE UNCHANGED vars
  <2>1. /\ UNCHANGED <<clock, books, funds, plan, issued, bridgeVars>>
        /\ call' = call /\ flight' = flight /\ server' = server
    BY <1>5 DEF vars, vaultVars, app, books
  <2>2. TypeOK'
    BY <2>1 DEF IInv, TypeOK, clock, books, funds, bridgeVars
  <2>3. FlightInv'
    BY <2>1 DEF IInv, FlightInv, Covers
  <2> QED
    BY <2>1, <2>2, <2>3, CallsMove
<1> QED
  BY <1>1, <1>2, <1>3, <1>4, <1>5 DEF Next

\* Whatever the callers, the bridges, the senders, the relayer and the chains
\* do in whatever order, and wherever the application stops: the records, the
\* calls and the money are as described.
THEOREM Inductive == Spec => []IInv
<1>1. Init => IInv
  BY Starts
<1>2. IInv /\ [Next]_vars => IInv'
  BY Keeps
<1> QED
  BY <1>1, <1>2, PTL DEF Spec

\* Every variable keeps its shape; no fee that a recovery takes out of the
\* private balance is negative, and no recovery moves nothing.
THEOREM TypeCorrect == Spec => []TypeOK
<1>1. IInv => TypeOK
  BY DEF IInv
<1> QED
  BY <1>1, Inductive, PTL

\* No money is stranded: what lies at a vault of the account is watched or
\* listed, and its sweep carries the signature that the factory asks for; what
\* lies in a temporary wallet is found from a nonce with the right destination;
\* and no recovery is paid by the private balance.
THEOREM MoneyFindable == Spec => []NothingStranded
<1>1. ASSUME IInv, NEW p \in Payments, pay[p].at = "vault", pay[p].vault.owner # "other"
      PROVE  Findable(p)
  <2>1. PICK r \in server : r.vault = pay[p].vault
    BY <1>1 DEF IInv, PayOK, Backed, OnRecord
  <2>2. Fits(r) /\ r \in Records
    BY <1>1, <2>1 DEF IInv, ServerInv, TypeOK
  <2> DEFINE held == [vault |-> pay[p].vault, chain |-> pay[p].chain, token |-> pay[p].token]
             x == [record |-> r, held |-> held]
  <2>3. held \in Held
    BY <1>1 DEF Held
  <2>4. CASE ~IsReceiveVaultExpired(r, 0)
    BY <1>1, <2>1, <2>4 DEF Findable, Watched
  <2>5. CASE IsReceiveVaultExpired(r, 0)
    <3>1. x \in scanTargets(Resolved(server))
      BY <2>1, <2>2, <2>3, <2>5 DEF scanTargets, Resolved
    <3> QED
      BY <3>1 DEF Findable
  <2> QED
    BY <2>4, <2>5
<1>2. ASSUME IInv, NEW p \in Payments, pay[p].at = "wallet"
      PROVE  \E e \in nonces :
               /\ Recalls(e, p, pay[p].route)
               /\ pay[p].amount > 0 /\ pay[p].token = "known" => isRecoverableBalance(e)
  <2>1. PICK e \in nonces : Recalls(e, p, pay[p].route)
    BY <1>2 DEF IInv, PayOK, Backed
  <2>2. DeriveTempWallet(e) = WalletOf(p)
    BY <2>1 DEF Recalls
  <2>3. PublicBalance(DeriveTempWallet(e)) = pay[p].amount
    BY <1>2, <2>2, BalanceOf DEF IInv
  <2>4. ASSUME NEW q \in Payments, WalletOf(q) = DeriveTempWallet(e) PROVE q = p
    BY <2>2, <2>4 DEF WalletOf
  <2> QED
    BY <2>1, <2>3, <2>4 DEF isRecoverableBalance
<1>3. ASSUME IInv PROVE NothingStranded
  BY <1>1, <1>2, <1>3 DEF NothingStranded, IInv
<1> QED
  BY <1>3, Inductive, PTL

\* An address that is fresh because the caller asked for it was not handed out
\* before, unless claims met; and a NEAR bridge within its margins delivers to
\* an address that is still watched.
THEOREM AddressFits == Spec => []AddressSuits
<1>1. ASSUME IInv PROVE AddressSuits
  <2>1. ASSUME NEW j \in DOMAIN issued, issued[j].fresh, ~issued[j].overlapped
        PROVE  /\ \A i \in 1..(j - 1) : issued[i].vault # issued[j].vault
               /\ \A r \in InitServer : r.vault # issued[j].vault
    BY <1>1, <2>1 DEF IInv, IssuedInv
  <2>2. ASSUME NEW p \in Callers, pay[p].route = "near", ~pay[p].overlapped,
               pay[p].deadline - pay[p].since <= MinTTL
        PROVE  \E r \in server : r.vault = pay[p].vault /\ pay[p].deadline <= r.expiry
    BY <1>1, <2>2, Parties DEF IInv, PayOK, OnTime, Covers, Watching
  <2> QED
    BY <2>1, <2>2 DEF AddressSuits
<1> QED
  BY <1>1, Inductive, PTL
=============================================================================
