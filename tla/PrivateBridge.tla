--------------------------- MODULE PrivateBridge ---------------------------
(* Private bridging, on top of the receive vaults it pays: the vault is       *)
(* chosen, then either a temporary wallet, whose nonce the backend keeps, is  *)
(* funded and calls the LiFi router, or a NEAR quote is paid.  What LiFi      *)
(* hands back stays in the temporary wallet until it is recovered through the *)
(* relayer, which takes its fee; what NEAR hands back is NearIntents' matter. *)
(* Bridging in public leaves its nonces here too (ScheduledSend has the rest).*)
(*                                                                            *)
(* A temporary wallet is what its key is derived from: the secret of the      *)
(* account and a nonce, here the payment it serves.                           *)
EXTENDS ReceiveVault

CONSTANTS Buffer,      \* a NEAR quote's deadline from now (20 minutes)
          InTransit,   \* age at which a wallet is no more in transit (3 minutes)
          InitNonces,  \* the nonces of earlier sessions
          Amount,      \* what is bridged
          Refunds,     \* what LiFi may hand back
          FlatFee,     \* the relayer's flat fee
          Rate,        \* its variable rate
          Bps          \* what the rate is a fraction of

ASSUME BridgeAssumption ==
    /\ {Buffer, InTransit, Amount, FlatFee, Rate} \subseteq Nat
    /\ Bps \in Nat \ {0} /\ Refunds \subseteq Nat
    /\ Buffer <= MinTTL

Routes       == {"none"} \union Paying
Destinations == {"address", "givenNote", "ownNote"}
Places       == {"none", "route", "vault", "note", "swept", "paid", "wallet", "intents"}
                  \union Destinations

Balances         == [vault : Vaults, chain : Chains, token : Tokens]
PaymentStates    == [at : Places, vault : Vaults, chain : Chains, token : Tokens,
                     risky : BOOLEAN, route : Routes, deadline : Nat, since : Nat,
                     overlapped : BOOLEAN, amount : Nat]
TemporaryWallets == [nonce : Payments, created : Int, legacy : BOOLEAN,
                     dest : {"public", "confidential"}]
Wallets          == [owner : Owners, nonce : Payments]
Recoveries       == [entry : TemporaryWallets, entered : BOOLEAN, amount : Nat]
CallStates       == [goal : {"none"} \union Goals,
                     pc : {"idle", "fetch", "wait", "loaded", "version", "index", "register",
                           "quote", "check", "withdraw", "nonce", "send", "sweep", "nonces",
                           "balances", "recover"},
                     fresh : BOOLEAN, seen : SUBSET (Records \union TemporaryWallets),
                     rec : Records, since : Nat, overlapped : BOOLEAN,
                     job : SUBSET (Balances \union PaymentStates \union Recoveries)]

VARIABLES nonces,      \* the backend's temporary wallets of the account
          recoveries,  \* recovery transactions on their way
          drawn        \* what recoveries took out of the private balance

bridgeVars == <<nonces, recoveries, drawn>>
vars       == <<vaultVars, bridgeVars>>

Largest(a, b) == IF a >= b THEN a ELSE b

-----------------------------------------------------------------------------
(* Bridging out.                                                              *)

(* An address that the application supplies: the enclave must know it.        *)
CheckReceiveVaultAddress(c) ==
    /\ Active(c, "check")
    /\ \E r \in server : Step(c, [call[c] EXCEPT !.pc = "quote", !.rec = r, !.since = now])
    /\ UNCHANGED <<clock, books, funds, flight, plan, issued, bridgeVars>>

(* The payment that a call is about to make.                                  *)
Routed(c, deadline) ==
    [pay[c] EXCEPT !.at = "route", !.vault = call[c].rec.vault, !.route = call[c].goal,
                   !.deadline = deadline, !.since = call[c].since,
                   !.overlapped = call[c].overlapped]

nearBridgeDeadline == now + Buffer

GetNearIntentsQuote(c) ==
    /\ Active(c, "quote") /\ call[c].goal \in {"near", "nearTo"}
    /\ Step(c, [call[c] EXCEPT !.pc = "withdraw",
                               !.job = {Routed(c, nearBridgeDeadline)}])
    /\ UNCHANGED <<clock, books, funds, flight, plan, issued, bridgeVars>>

(* HinkalWithdraw to the deposit address; the answer may be lost.             *)
NearWithdraw(c) ==
    /\ Active(c, "withdraw")
    /\ \E payment \in call[c].job : pay' = [pay EXCEPT ![c] = payment]
    /\ Done(c)
    /\ UNCHANGED <<clock, books, sweeps, flight, plan, issued, bridgeVars>>

(* The quote names the wallet, which only then is derived for good.           *)
GetLifiPrice(c) ==
    /\ Active(c, "quote") /\ call[c].goal \in {"lifi", "public"}
    /\ Goto(c, "nonce")
    /\ UNCHANGED <<clock, books, funds, flight, plan, issued, bridgeVars>>

(* No nonce that is issued now is of the old key scheme.                      *)
NewNonce(c) ==
    [nonce |-> c, created |-> now, legacy |-> FALSE,
     dest |-> IF call[c].goal = "public" THEN "public" ELSE "confidential"]

(* The backend keeps the nonce; the answer may be lost, and the call with it. *)
AddTemporaryWalletNonce(c) ==
    /\ Active(c, "nonce")
    /\ nonces' = nonces \union {NewNonce(c)}
    /\ Goto(c, "send") \/ Done(c)
    /\ UNCHANGED <<clock, books, funds, flight, plan, issued, recoveries, drawn>>

(* actionPrivateWallet funds the wallet out of private notes, approves the    *)
(* router and calls it, in one transaction of the relayer.                    *)
hinkalLifiBridgePrivateOut(c) ==
    /\ Active(c, "send")
    /\ pay' = [pay EXCEPT ![c] = Routed(c, 0)]
    /\ Done(c)
    /\ UNCHANGED <<clock, books, sweeps, flight, plan, issued, bridgeVars>>

-----------------------------------------------------------------------------
(* The bridges.                                                               *)

bridgeFrame == <<clock, books, app, sweeps, bridgeVars>>

(* LiFi delivers late or hands back something of what it took, once, in the   *)
(* token it was in by then.                                                   *)
LifiEnds(p) ==
    /\ pay[p].at = "route" /\ pay[p].route \in {"lifi", "public"}
    /\ \/ /\ pay[p].route = "lifi"
          /\ \E risky \in BOOLEAN :
               pay' = [pay EXCEPT ![p].at = "vault", ![p].risky = risky]
       \/ pay[p].route = "public" /\ pay' = [pay EXCEPT ![p].at = "paid"]
       \/ \E amount \in Refunds, token \in Tokens :
            pay' = [pay EXCEPT ![p].at = "wallet", ![p].amount = amount,
                               ![p].token = token]
    /\ UNCHANGED bridgeFrame

(* NEAR delivers by the deadline, or hands back to the intents account.       *)
NearEnds(p) ==
    /\ pay[p].at = "route" /\ pay[p].route \in {"near", "nearTo"}
    /\ \/ now <= pay[p].deadline /\ pay' = [pay EXCEPT ![p].at = "vault"]
       \/ pay' = [pay EXCEPT ![p].at = "intents"]
    /\ UNCHANGED bridgeFrame

-----------------------------------------------------------------------------
(* Recovering a temporary wallet.                                             *)

(* The key a payment's wallet was made with: only earlier sessions used nk.   *)
WalletOf(p) == [owner |-> IF p \in Callers THEN "spend" ELSE "nk", nonce |-> p]

(* The backend says which scheme a nonce is of.                               *)
DeriveTempWallet(entry) ==
    [owner |-> IF entry.legacy THEN "nk" ELSE "spend", nonce |-> entry.nonce]

(* An address is on record, to be watched until t.                            *)
Watching(records, vault, t) == \E r \in records : r.vault = vault /\ t <= r.expiry
OnRecord(records, vault)    == \E r \in records : r.vault = vault

(* A nonce finds the wallet of a payment, and says what its bridge was for.   *)
Recalls(entry, p, route) == /\ DeriveTempWallet(entry) = WalletOf(p)
                            /\ (entry.dest = "public") = (route = "public")

(* What lies at a vault, or is to arrive there, is at one of the enclave's    *)
(* records; what lies in a temporary wallet, or may come back to one, is      *)
(* found from one of the backend's nonces.                                    *)
Backed(p, payment, records, entries) ==
    /\ \/ payment.at = "vault"
       \/ payment.at = "route" /\ payment.route # "public"
       => OnRecord(records, payment.vault)
    /\ \/ payment.at = "wallet"
       \/ payment.at = "route" /\ payment.route \in {"lifi", "public"}
       => \E e \in entries : Recalls(e, p, payment.route)

(* A payment is named after the caller that makes it, who therefore makes one *)
(* at most.                                                                   *)
ASSUME SessionAssumption ==
    /\ InitNonces \subseteq TemporaryWallets
    /\ \A s \in Sessions :
         /\ s.plan \in [Callers -> Seq(Goals)] /\ s.pay \in [Payments -> PaymentStates]
         /\ \A p \in Payments : Backed(p, s.pay[p], InitServer, InitNonces)
         /\ \A c \in Callers :
              /\ s.pay[c].at = "none" /\ s.pay[c].route = "none"
              /\ \A i, j \in DOMAIN s.plan[c] :
                   s.plan[c][i] \in Paying /\ s.plan[c][j] \in Paying => i = j

isTemporaryWalletInTransit(entry) == now - entry.created <= InTransit

PublicBalance(wallet) ==
    LET there == {p \in Payments : pay[p].at = "wallet" /\ WalletOf(p) = wallet}
    IN  IF there = {} THEN 0 ELSE pay[CHOOSE p \in there : TRUE].amount

(* Every chain of the network answers, or none counts.                        *)
fetchNonceResults(c) ==
    /\ Active(c, "nonces")
    /\ Step(c, [call[c] EXCEPT !.pc = "balances",
                  !.seen = {e \in nonces : ~isTemporaryWalletInTransit(e)}])
    /\ UNCHANGED <<clock, books, funds, flight, plan, issued, bridgeVars>>

(* Worth nothing is not worth recovering, and a token that looks like spam,   *)
(* is volatile or has no price is taken to be worth nothing.                  *)
isRecoverableBalance(entry) ==
    /\ PublicBalance(DeriveTempWallet(entry)) > 0
    /\ \A p \in Payments : WalletOf(p) = DeriveTempWallet(entry) => pay[p].token = "known"

(* A wallet whose balance cannot be read is left out.                         *)
getTemporaryWalletAddressMapBalances(entries) == {e \in entries : isRecoverableBalance(e)}

(* The owner recovers one of the wallets listed, to an address that he enters *)
(* or to himself.                                                             *)
GetStuckBridgeBalances(c) ==
    /\ Active(c, "balances")
    /\ \E entry \in getTemporaryWalletAddressMapBalances(call[c].seen), entered \in BOOLEAN :
         Step(c, [call[c] EXCEPT !.pc = "recover", !.seen = {},
                    !.job = {[entry |-> entry, entered |-> entered,
                              amount |-> PublicBalance(DeriveTempWallet(entry))]}])
    /\ UNCHANGED <<clock, books, funds, flight, plan, issued, bridgeVars>>

CalculateTotalFee(amount, flat, rate) == flat + (amount * rate) \div Bps

recoverAmount(amount) == amount - CalculateTotalFee(amount, FlatFee, Rate)

(* A recovery into a note pays the variable fee on what it shields; one to an *)
(* address pays the flat fee, the contract takes the rest.                    *)
RecoveryFee(job) ==
    IF job.entry.dest = "public" THEN FlatFee
    ELSE CalculateTotalFee(recoverAmount(job.amount), FlatFee, Rate)

\* mutant: what the wallet has beyond the fee is counted as well.
WithoutFloor(balance, spent, fee) ==
    IF balance < spent THEN fee ELSE fee - (balance - spent)

(* mergeWithFeeStructureEmporium: what the wallet cannot pay of the fee comes *)
(* out of the private balance.                                                *)
FeeToTransfer(balance, spent, fee) ==
    IF balance < spent THEN fee ELSE Largest(fee - (balance - spent), 0)

(* Where it goes: an address, the owner's note, or a note of the recipient    *)
(* entered, who claims it if he has no private address.                       *)
Destination(job) ==
    IF job.entry.dest = "public" THEN "address"
    ELSE IF job.entered THEN "givenNote" ELSE "ownNote"

(* The relayed transaction in which the wallet pays out the amount and the    *)
(* fee; the balance is read again when the fee is merged.                     *)
actionPrivateWallet(wallet, amount, fee, to) ==
    [wallet |-> wallet, amount |-> amount, fee |-> fee, to |-> to,
     topUp |-> FeeToTransfer(PublicBalance(wallet), amount, fee)]

(* recoverEvmBalance; the relayer takes the transaction or does not.          *)
recoverTemporaryWalletBalance(c) ==
    /\ Active(c, "recover")
    /\ \E job \in call[c].job :
         LET amount == recoverAmount(job.amount)
         IN  /\ amount > 0
             /\ recoveries' = recoveries \union
                  {actionPrivateWallet(DeriveTempWallet(job.entry), amount,
                                       RecoveryFee(job), Destination(job))}
    /\ Done(c)
    /\ UNCHANGED <<clock, books, funds, flight, plan, issued, nonces, drawn>>

(* It goes through as a whole, or not at all.                                 *)
RecoveryMined ==
    \E r \in recoveries :
      /\ recoveries' = recoveries \ {r}
      /\ IF PublicBalance(r.wallet) + r.topUp >= r.amount + r.fee
         THEN /\ pay' = [p \in Payments |->
                           IF pay[p].at = "wallet" /\ WalletOf(p) = r.wallet
                           THEN [pay[p] EXCEPT !.at = r.to] ELSE pay[p]]
              /\ drawn' = drawn + r.topUp
         ELSE UNCHANGED <<pay, drawn>>
      /\ UNCHANGED <<clock, books, app, sweeps, nonces>>

-----------------------------------------------------------------------------

Init ==
    /\ VaultInit
    /\ nonces = InitNonces /\ recoveries = {} /\ drawn = 0

Next ==
    \/ VaultNext /\ UNCHANGED bridgeVars
    \/ \E c \in Callers :
         \/ CheckReceiveVaultAddress(c) \/ GetNearIntentsQuote(c) \/ NearWithdraw(c)
         \/ GetLifiPrice(c) \/ AddTemporaryWalletNonce(c) \/ hinkalLifiBridgePrivateOut(c)
         \/ fetchNonceResults(c) \/ GetStuckBridgeBalances(c)
         \/ recoverTemporaryWalletBalance(c)
    \/ \E p \in Payments : LifiEnds(p) \/ NearEnds(p)
    \/ RecoveryMined

Spec == Init /\ [][Next]_vars
-----------------------------------------------------------------------------
(* Properties.                                                                *)

(* Every variable keeps its shape; no fee that a recovery takes out of the    *)
(* private balance is negative, and no recovery moves nothing.                *)
TypeOK ==
    /\ now \in 0..MaxNow /\ versions \in 1..MaxVersions
    /\ server \subseteq Records /\ blocks \subseteq Balances
    /\ flight \in [phase : {"none", "asked", "served"}, members : SUBSET Callers,
                   records : SUBSET Records]
    /\ plan \in [Callers -> Seq(Goals)]
    /\ call \in [Callers -> CallStates]
    /\ issued \in Seq([vault : Vaults, fresh : BOOLEAN, overlapped : BOOLEAN])
    /\ pay \in [Payments -> PaymentStates]
    /\ sweeps \subseteq [by : Owners, vault : Vaults, token : Tokens, chain : Chains,
                         deadline : Nat]
    /\ nonces \subseteq TemporaryWallets
    /\ recoveries \subseteq [wallet : Wallets, amount : Nat \ {0}, fee : Nat, topUp : Nat,
                             to : Destinations]
    /\ drawn \in Nat

(* The relayer will look at a payment, or a scan that no lookup fails lists   *)
(* it.                                                                        *)
Findable(p) ==
    \/ Watched(p)
    \/ \E x \in scanTargets(Resolved(server)) :
         x.held = [vault |-> pay[p].vault, chain |-> pay[p].chain, token |-> pay[p].token]

(* Whatever the order of crashes, lost answers, expiries, upgrades of the     *)
(* factory and recoveries that run beside each other, no money is stranded:   *)
(* what lies at a vault of the account is watched or listed by                *)
(* HinkalGetReceiveVaultAccount, and a sweep of it carries the signature the  *)
(* factory asks for; what lies in a temporary wallet has its nonce with the   *)
(* backend and the destination of the bridge it came from, and is listed for  *)
(* recovery unless its token looks like spam, is volatile or has no price;    *)
(* and a recovery that goes through is paid by what it recovers, not by the   *)
(* private balance.                                                           *)
NothingStranded ==
    /\ \A p \in Payments :
         /\ pay[p].at = "vault" => pay[p].vault.owner = "other" \/ Findable(p)
         /\ pay[p].at = "wallet" =>
              \E e \in nonces :
                /\ Recalls(e, p, pay[p].route)
                /\ pay[p].amount > 0 /\ pay[p].token = "known" => isRecoverableBalance(e)
    /\ \A s \in sweeps : s.by = s.vault.owner
    /\ drawn = 0

(* An address that is fresh because the caller asked for it is none that was  *)
(* handed out before, unless another claim was registered while it was being  *)
(* claimed; and an address that a NEAR bridge chose is still watched at the   *)
(* deadline until which NEAR may deliver, unless the quote took longer than   *)
(* the margin of ResolveBridgeVaultAddress (BridgeVaultMinTTLSeconds less the *)
(* quote's buffer) or claims met.                                             *)
AddressSuits ==
    /\ \A j \in DOMAIN issued :
         issued[j].fresh /\ ~issued[j].overlapped =>
           /\ \A i \in 1..(j - 1) : issued[i].vault # issued[j].vault
           /\ \A r \in InitServer : r.vault # issued[j].vault
    /\ \A p \in Callers :
         /\ pay[p].route = "near" /\ ~pay[p].overlapped
         /\ pay[p].deadline - pay[p].since <= MinTTL
         => \E r \in server : r.vault = pay[p].vault /\ pay[p].deadline <= r.expiry
-----------------------------------------------------------------------------
(* The inductive invariant: why no order of steps strands money or hands out  *)
(* a stale address.                                                           *)

Covers(vault, t) == Watching(server, vault, t)
Known(vault)     == OnRecord(server, vault)

(* An address leaves the enclave's records only for a later life of the same, *)
(* and a record of the account never outlives one registered now.             *)
ServerInv ==
    /\ \A r \in server : IF Fits(r) THEN r.expiry <= now + AddressTTL
                                    ELSE r.vault.owner = "other"
    /\ server # {} => \E r \in server : \A s \in server : s.index <= r.index
    /\ \A r \in InitServer : Known(r.vault)

(* What was handed out is on record under the account's own terms.            *)
IssuedInv ==
    \A j \in DOMAIN issued :
      /\ \E r \in server : Fits(r) /\ r.vault = issued[j].vault
      /\ issued[j].fresh /\ ~issued[j].overlapped =>
           /\ \A i \in 1..(j - 1) : issued[i].vault # issued[j].vault
           /\ \A r \in InitServer : r.vault # issued[j].vault

FlightInv ==
    /\ \A c \in flight.members : call[c].pc = "wait"
    /\ flight.phase = "served" => \A r \in flight.records : Covers(r.vault, r.expiry)

(* Its money has left for good.                                               *)
Gone(p) == pay[p].at \notin {"none", "route", "wallet"}

(* The wallet holds the amount, or held it and was emptied.                   *)
HoldsOrHeld(wallet, amount) ==
    \A p \in Payments : WalletOf(p) = wallet =>
      Gone(p) \/ (pay[p].at = "wallet" /\ pay[p].amount = amount)

(* A NEAR bridge within its margins is delivered to a watched address.        *)
OnTime(payment) ==
    /\ payment.route = "near" /\ ~payment.overlapped
    /\ payment.deadline - payment.since <= MinTTL
    => Covers(payment.vault, payment.deadline)

(* A caller that has yet to pay, has not.                                     *)
PaysOnce(c) ==
    LET rest == {i \in DOMAIN plan[c] : plan[c][i] \in Paying}
    IN  /\ \A i, j \in rest : i = j
        /\ call[c].goal \in Paying => rest = {}
        /\ call[c].goal \in Paying \/ rest # {} => pay[c].at = "none"

(* What a call has read, at each point where it has yet to act on it.         *)
CallOK(c) ==
    LET k  == call[c]
        At(points) == k.pc \in points
    IN  /\ At({"idle"}) => k.goal = "none"
        /\ At({"fetch", "wait", "loaded"}) => ~k.fresh
        /\ At({"loaded"}) => \A r \in k.seen : r \in Records /\ Fits(r) /\ Covers(r.vault, r.expiry)
        /\ At({"register"}) /\ ~k.overlapped => \A r \in server : r.index < k.rec.index
        /\ At({"quote", "withdraw", "nonce", "send"}) => k.goal \in Paying
        /\ At({"check"}) => k.goal = "nearTo"
        /\ At({"nonce", "send"}) => k.goal \in {"lifi", "public"}
        /\ At({"quote", "nonce", "send"}) /\ k.goal # "public" => Known(k.rec.vault)
        /\ At({"quote"}) /\ k.goal = "near" /\ ~k.overlapped
             => Covers(k.rec.vault, k.since + MinTTL)
        /\ At({"send"}) => \E e \in nonces : Recalls(e, c, k.goal)
        /\ At({"withdraw"}) => \A x \in k.job :
             /\ x \in PaymentStates /\ x.at = "route" /\ x.route \in {"near", "nearTo"}
             /\ Known(x.vault) /\ OnTime(x)
        /\ At({"sweep"}) => \A x \in k.job : x \in Balances /\ x.vault = k.rec.vault
        /\ At({"balances"}) => k.seen \subseteq nonces
        /\ At({"recover"}) => \A x \in k.job :
             /\ x \in Recoveries /\ x.amount > 0
             /\ HoldsOrHeld(DeriveTempWallet(x.entry), x.amount)

PayOK(p) == /\ Backed(p, pay[p], server, nonces)
            /\ p \in Callers => OnTime(pay[p])

(* A recovery that asks the private balance for anything is too late.         *)
RecoveryOK(r) ==
    /\ r.topUp <= r.fee
    /\ r.topUp # 0 => \A p \in Payments : WalletOf(p) = r.wallet => Gone(p)

IInv == /\ TypeOK /\ ServerInv /\ IssuedInv /\ FlightInv
        /\ \A c \in Callers : PaysOnce(c) /\ CallOK(c)
        /\ \A p \in Payments : PayOK(p)
        /\ \A s \in sweeps : s.by = s.vault.owner
        /\ \A r \in recoveries : RecoveryOK(r)
        /\ drawn = 0
=============================================================================
