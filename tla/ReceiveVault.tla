---------------------------- MODULE ReceiveVault ----------------------------
(* Receive vaults: deposit addresses that the wallet derives from an index,   *)
(* registers with the enclave and hands out.  The relayer watches an address  *)
(* until it expires and shields what arrives there; what it leaves the owner  *)
(* finds by scanning, and sweeps with a signature of the key that the address *)
(* was derived with.  One network of several chains, one account.             *)
(*                                                                            *)
(* A vault is what its address is computed from: the scheme of its owner key, *)
(* the index of its stealth address and the factory version.                  *)
EXTENDS Integers, FiniteSets, Sequences

CONSTANTS Callers,      \* goroutines of the application
          Sessions,     \* what each of them calls, one after the other, and
                        \* the payments of earlier sessions
          Payments,     \* payments on their way to the account
          Sender,       \* the one of them that a third party makes
          Chains,       \* the chains of the network
          Canonical,    \* the one that stands for the network
          InitServer,   \* the records of earlier sessions
          Habits,       \* a sender's choice of chain and token, and his repute
          AddressTTL,   \* life of an address (14 days)
          RecoveryTTL,  \* life of a recovery signature (15 minutes)
          MinTTL,       \* what a bridge wants left of an address (30 minutes)
          MaxNow,       \* bound: the clock
          MaxVersions   \* bound: vault versions of the factory

ASSUME VaultAssumption ==
    /\ {AddressTTL, RecoveryTTL, MinTTL, MaxNow} \subseteq Nat
    /\ MinTTL <= AddressTTL /\ MaxVersions \in Nat \ {0}
    /\ Canonical \in Chains /\ Callers \subseteq Payments /\ Sender \in Payments \ Callers

Owners  == {"none", "spend", "nk", "other"}
Vaults  == [owner : Owners, index : Nat, version : 0..MaxVersions-1]
Records == [index : Nat, expiry : Nat, version : 0..MaxVersions-1, vault : Vaults]
Tokens  == {"known", "odd"}

ASSUME HabitAssumption == Habits \subseteq [chain : Chains, token : Tokens, risky : BOOLEAN]

VARIABLES now,       \* the clock
          versions,  \* vault versions registered with the factory
          server,    \* the enclave's records of the account
          blocks,    \* what the relayer refused to shield
          flight,    \* the load of the account that callers share
          plan,      \* what the callers have yet to call
          call,      \* what each is doing
          issued,    \* the addresses handed out, in order
          pay,       \* where each payment is
          sweeps     \* sweeping transactions on their way

clock     == <<now, versions>>
books     == <<server, blocks>>
app       == <<flight, plan, call, issued>>
funds     == <<pay, sweeps>>
vaultVars == <<clock, books, app, funds>>

NoVault  == [owner |-> "none", index |-> 0, version |-> 0]
NoRecord == [index |-> 0, expiry |-> 0, version |-> 0, vault |-> NoVault]
NoFlight == [phase |-> "none", members |-> {}, records |-> {}]
Idle     == [goal |-> "none", pc |-> "idle", fresh |-> FALSE, seen |-> {},
             rec |-> NoRecord, since |-> 0, overlapped |-> FALSE, job |-> {}]

VaultInit ==
    /\ now = 0 /\ versions = 1
    /\ server = InitServer /\ blocks = {}
    /\ flight = NoFlight
    /\ call = [c \in Callers |-> Idle] /\ issued = <<>>
    /\ \E s \in Sessions : plan = s.plan /\ pay = s.pay
    /\ sweeps = {}

-----------------------------------------------------------------------------
(* Deriving an address.                                                       *)

(* The owner is seeded by the aux spend key; the note's keys by the index.    *)
GetReceiveVaultParams(terms) ==
    [owner |-> "spend", index |-> terms.index, version |-> terms.version]

GetLegacyReceiveVaultParams(terms) ==
    [GetReceiveVaultParams(terms) EXCEPT !.owner = "nk"]

(* CREATE2 over the parameters: no two have the same address, and every chain *)
(* of the network computes the same one.                                      *)
GetReceiveVaultAddress(params) == params

BuildReceiveVaultRecord(terms) ==
    [index |-> terms.index, expiry |-> terms.expiry, version |-> terms.version,
     vault |-> GetReceiveVaultAddress(GetReceiveVaultParams(terms))]

\* mutant: a vault of the old scheme is not recognised.
CurrentParamsOnly(record) ==
    LET current == GetReceiveVaultParams(record)
    IN  IF GetReceiveVaultAddress(current) = record.vault THEN current ELSE NoVault

(* The scheme, the current or the old one, that gives the record's address.   *)
ResolveReceiveVaultParams(record) ==
    LET fits == {p \in {GetReceiveVaultParams(record), GetLegacyReceiveVaultParams(record)} :
                   GetReceiveVaultAddress(p) = record.vault}
    IN  IF fits = {} THEN NoVault ELSE CHOOSE p \in fits : TRUE

Fits(record)      == ResolveReceiveVaultParams(record) # NoVault
Resolved(records) == {r \in records : Fits(r)}

(* Earlier sessions left records of the account, which live no longer than    *)
(* any, and perhaps some that are not the account's; one is the newest.       *)
ASSUME ServerAssumption ==
    /\ InitServer \subseteq Records
    /\ \A r \in InitServer :
         IF r.vault \in {GetReceiveVaultParams(r), GetLegacyReceiveVaultParams(r)}
         THEN r.expiry <= AddressTTL ELSE r.vault.owner = "other"
    /\ InitServer # {} => \E r \in InitServer : \A s \in InitServer : s.index <= r.index

receiveVaultOwnerKey(record) == ResolveReceiveVaultParams(record).owner

IsReceiveVaultExpired(record, within) == record.expiry < now + within

-----------------------------------------------------------------------------
(* Calls.                                                                     *)

Bridging == {"lifi", "near"}
Paying   == Bridging \union {"nearTo", "public"}
Goals    == {"address", "fresh", "rescue", "recover"} \union Paying

Active(c, pc) == call[c].pc = pc

Step(c, new) == call' = [call EXCEPT ![c] = new]
Goto(c, pc)  == Step(c, [call[c] EXCEPT !.pc = pc])
Done(c)      == Step(c, Idle)

(* Where a call starts: a forced fresh address loads no account.              *)
FirstStep(goal) ==
    CASE goal = "fresh"   -> "version"
      [] goal = "recover" -> "nonces"
      [] goal = "public"  -> "quote"
      [] goal = "nearTo"  -> "check"
      [] OTHER            -> "fetch"

Begin(c) ==
    /\ Active(c, "idle") /\ plan[c] # <<>>
    /\ plan' = [plan EXCEPT ![c] = Tail(@)]
    /\ LET goal == Head(plan[c])
       IN  Step(c, [Idle EXCEPT !.goal = goal, !.pc = FirstStep(goal),
                                !.fresh = goal = "fresh"])
    /\ UNCHANGED <<clock, books, funds, flight, issued>>

(* Any request of a call may fail; the call returns the error.                *)
Fails(c) ==
    /\ call[c].pc \notin {"idle", "wait"}
    /\ Done(c)
    /\ UNCHANGED <<clock, books, funds, flight, plan, issued>>

(* The application stops: what the enclave, the backend and the chains hold   *)
(* is all that is left.                                                       *)
Crash ==
    /\ \E c \in Callers : ~Active(c, "idle")
    /\ call' = [c \in Callers |-> Idle]
    /\ flight' = NoFlight
    /\ UNCHANGED <<clock, books, funds, plan, issued>>

-----------------------------------------------------------------------------
(* Loading the account.                                                       *)

(* restoreGroup.Do: a caller joins the load that is under way.                *)
fetchAccount(c) ==
    /\ Active(c, "fetch")
    /\ Goto(c, "wait")
    /\ flight' = [flight EXCEPT !.members = @ \union {c},
                                !.phase = IF @ = "none" THEN "asked" ELSE @]
    /\ UNCHANGED <<clock, books, funds, plan, issued>>

FetchReceiveVaultAccount ==
    /\ flight.phase = "asked"
    /\ flight' = [flight EXCEPT !.phase = "served", !.records = server]
    /\ UNCHANGED <<clock, books, funds, plan, issued, call>>

(* A record is dropped when its address does not follow from its terms, or    *)
(* when the factory cannot be asked for its init code.                        *)
loadAccount ==
    /\ flight.phase = "served"
    /\ \E lost \in {{}} \union {{r} : r \in Resolved(flight.records)} :
         call' = [c \in Callers |->
                    IF c \in flight.members
                    THEN [call[c] EXCEPT !.pc = "loaded",
                                         !.seen = Resolved(flight.records) \ lost]
                    ELSE call[c]]
    /\ flight' = NoFlight
    /\ UNCHANGED <<clock, books, funds, plan, issued>>

(* One failure is the failure of every caller that joined.                    *)
loadFails ==
    /\ flight.phase # "none"
    /\ call' = [c \in Callers |-> IF c \in flight.members THEN Idle ELSE call[c]]
    /\ flight' = NoFlight
    /\ UNCHANGED <<clock, books, funds, plan, issued>>

-----------------------------------------------------------------------------
(* Handing out an address.                                                    *)

\* mutant: a bridge takes any address that has not expired yet.
TakesAnyLive(c, record) == FALSE

(* ResolveBridgeVaultAddress asks for a fresh address when the one it got is  *)
(* about to expire.                                                           *)
TooOldForBridge(c, record) ==
    ~call[c].fresh /\ IsReceiveVaultExpired(record, MinTTL)

(* The record is returned, or the bridge goes on with it.                     *)
Onward(c, record) ==
    IF call[c].goal \notin Bridging THEN Idle
    ELSE IF TooOldForBridge(c, record)
         THEN [call[c] EXCEPT !.pc = "version", !.fresh = TRUE, !.seen = {}]
         ELSE [call[c] EXCEPT !.pc = "quote", !.rec = record, !.since = now, !.seen = {}]

HandOut(c, record) ==
    issued' = Append(issued, [vault |-> record.vault, fresh |-> call[c].fresh,
                              overlapped |-> call[c].overlapped])

newestReusableRecord(records) ==
    LET reusable == {r \in records : ~IsReceiveVaultExpired(r, 0)}
    IN  {r \in reusable : \A s \in reusable : r.index >= s.index}

Reuse(c) ==
    /\ Active(c, "loaded") /\ call[c].goal # "rescue"
    /\ \E record \in newestReusableRecord(call[c].seen) :
         Step(c, Onward(c, record)) /\ HandOut(c, record)
    /\ UNCHANGED <<clock, books, funds, flight, plan>>

NothingReusable(c) ==
    /\ Active(c, "loaded") /\ call[c].goal # "rescue"
    /\ newestReusableRecord(call[c].seen) = {}
    /\ Step(c, [call[c] EXCEPT !.pc = "version", !.seen = {}])
    /\ UNCHANGED <<clock, books, funds, flight, plan, issued>>

(* The newest version of the factory; the address lives from now.             *)
GetReceiveVaultCurrentVersion(c) ==
    /\ Active(c, "version")
    /\ Step(c, [call[c] EXCEPT !.pc = "index", !.rec.version = versions - 1,
                               !.rec.expiry = now + AddressTTL])
    /\ UNCHANGED <<clock, books, funds, flight, plan, issued>>

(* The enclave names the index after the highest it has a record of.          *)
FetchReceiveVaultNextIndex ==
    IF server = {} THEN 0
    ELSE 1 + (CHOOSE i \in {r.index : r \in server} : \A r \in server : i >= r.index)

getNextIndex(c) ==
    /\ Active(c, "index")
    /\ Step(c, [call[c] EXCEPT !.pc = "register", !.overlapped = FALSE,
                               !.rec.index = FetchReceiveVaultNextIndex])
    /\ UNCHANGED <<clock, books, funds, flight, plan, issued>>

(* The request carries no expiry: the enclave counts its own.  What it makes  *)
(* of an address it has already is its own affair: it keeps the record or     *)
(* counts anew.                                                               *)
RegisterReceiveVault(record) ==
    LET same == {r \in server : r.vault = record.vault}
        new  == [record EXCEPT !.expiry = now + AddressTTL]
    IN  {(server \ same) \union {new}} \union (IF same = {} THEN {} ELSE {server})

(* claimFreshAddress registers the record and returns it, whatever the answer *)
(* says about the address.  Claims that read the same index meet here.        *)
registerRecord(c) ==
    LET record == BuildReceiveVaultRecord(call[c].rec)
        after(new) == call' = [d \in Callers |->
                        IF d = c THEN new
                        ELSE IF Active(d, "register")
                             THEN [call[d] EXCEPT !.overlapped = TRUE] ELSE call[d]]
    IN  /\ Active(c, "register")
        /\ server' \in RegisterReceiveVault(record)
        /\ \/ after(Onward(c, record)) /\ HandOut(c, record)
           \/ after(Idle) /\ UNCHANGED issued
        /\ UNCHANGED <<clock, blocks, funds, flight, plan>>

-----------------------------------------------------------------------------
(* Finding what the relayer left, and sweeping it.                            *)

(* What token discovery finds at the vaults, on every chain of the network.   *)
Held == {[vault |-> pay[p].vault, chain |-> pay[p].chain, token |-> pay[p].token] :
           p \in {q \in Payments : pay[q].at = "vault"}}

(* A balance is listed when the relayer refused it, the address has expired,  *)
(* or the token is none the protocol can shield.                              *)
scanTargets(records) ==
    {x \in [record : records, held : Held] :
       /\ x.record.vault = x.held.vault
       /\ \/ x.held \in blocks
          \/ IsReceiveVaultExpired(x.record, 0)
          \/ x.held.token # "known"}

(* HinkalGetReceiveVaultAccount; a lookup that fails leaves its balance out.  *)
Scan(c) ==
    /\ Active(c, "loaded") /\ call[c].goal = "rescue"
    /\ \E x \in scanTargets(call[c].seen) :
         Step(c, [call[c] EXCEPT !.pc = "sweep", !.rec = x.record, !.job = {x.held},
                                 !.seen = {}])
    /\ UNCHANGED <<clock, books, funds, flight, plan, issued>>

(* The signature of the key the vault was derived with, over the vault, the   *)
(* token, the chain and a deadline: all that the factory goes by.             *)
SignReceiveVaultRecovery(record, held, chain) ==
    [by |-> receiveVaultOwnerKey(record), vault |-> held.vault, token |-> held.token,
     chain |-> chain, deadline |-> now + RecoveryTTL]

(* The caller names the chain the funds sit on, or none: the canonical one.   *)
(* The transaction is handed to the application's own wallet, which may yet   *)
(* lose it.                                                                   *)
HinkalReceiveVaultRecover(c) ==
    /\ Active(c, "sweep")
    /\ ResolveReceiveVaultParams(call[c].rec) # NoVault
    /\ \E held \in call[c].job : \E chain \in {held.chain, Canonical} :
         sweeps' = sweeps \union {SignReceiveVaultRecovery(call[c].rec, held, chain)}
    /\ Done(c)
    /\ UNCHANGED <<clock, books, flight, plan, issued, pay>>

(* What the factory checks.                                                   *)
Sweeps(s, p) ==
    /\ s.by = s.vault.owner /\ now <= s.deadline
    /\ pay[p].at = "vault" /\ pay[p].vault = s.vault
    /\ pay[p].chain = s.chain /\ pay[p].token = s.token

SweepMined ==
    \E s \in sweeps :
      /\ sweeps' = sweeps \ {s}
      /\ pay' = [p \in Payments |-> IF Sweeps(s, p) THEN [pay[p] EXCEPT !.at = "swept"]
                                    ELSE pay[p]]
      /\ UNCHANGED <<clock, books, app>>

-----------------------------------------------------------------------------
(* Senders, the relayer, the factory and the clock.                           *)

GivenOut == {issued[i].vault : i \in DOMAIN issued}
              \union {r.vault : r \in Resolved(InitServer)}

(* A sender uses an address when he likes, on a chain of his choice.          *)
SenderPays ==
    /\ pay[Sender].at = "none"
    /\ \E vault \in GivenOut, h \in Habits :
         pay' = [pay EXCEPT ![Sender] = [@ EXCEPT !.at = "vault", !.vault = vault,
                           !.chain = h.chain, !.token = h.token, !.risky = h.risky]]
    /\ UNCHANGED <<clock, books, app, sweeps>>

(* The relayer watches the addresses the enclave has a record of.             *)
Watched(p) ==
    /\ pay[p].at = "vault"
    /\ \E r \in server : r.vault = pay[p].vault /\ ~IsReceiveVaultExpired(r, 0)

Settle(p) ==
    /\ Watched(p) /\ pay[p].token = "known" /\ ~pay[p].risky
    /\ pay' = [pay EXCEPT ![p].at = "note"]
    /\ UNCHANGED <<clock, books, app, sweeps>>

Refuse(p) ==
    /\ Watched(p) /\ pay[p].risky
    /\ blocks' = blocks \union
         {[vault |-> pay[p].vault, chain |-> pay[p].chain, token |-> pay[p].token]}
    /\ blocks' # blocks
    /\ UNCHANGED <<clock, server, app, funds>>

Upgrade ==
    /\ versions < MaxVersions
    /\ versions' = versions + 1
    /\ UNCHANGED <<now, books, app, funds>>

Tick ==
    /\ now < MaxNow
    /\ now' = now + 1
    /\ UNCHANGED <<versions, books, app, funds>>

VaultNext ==
    \/ \E c \in Callers :
         \/ Begin(c) \/ Fails(c)
         \/ fetchAccount(c) \/ Reuse(c) \/ NothingReusable(c)
         \/ GetReceiveVaultCurrentVersion(c) \/ getNextIndex(c) \/ registerRecord(c)
         \/ Scan(c) \/ HinkalReceiveVaultRecover(c)
    \/ Crash
    \/ FetchReceiveVaultAccount \/ loadAccount \/ loadFails
    \/ SweepMined \/ SenderPays
    \/ \E p \in Payments : Settle(p) \/ Refuse(p)
    \/ Upgrade \/ Tick
=============================================================================
