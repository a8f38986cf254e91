---------------------------- MODULE NearIntents ----------------------------
(***************************************************************************)
(* Claims of the bridge refunds that rest in the user's NEAR Intents       *)
(* accounts: near_intents_refunds.go starts a claim, and the SDK of        *)
(* near_intents_withdrawal.go estimates its fee, signs and publishes an    *)
(* intent to the solver relay, waits for the intent to settle on the       *)
(* contract and watches the bridge until the withdrawal is complete.       *)
(*                                                                         *)
(* Several claims run at once and share the salt of the SDK instance.      *)
(* Requests may be lost, their answers may be lost, and a request the      *)
(* client gave up on may still reach the relay.  The relay, the contract   *)
(* and the bridges are outside the repository: they do here what the       *)
(* client's handling of their answers supposes.                            *)
(*                                                                         *)
(* Amounts are small numbers; the native token of NEAR (wNEAR), in which   *)
(* storage and relayers are paid, trades one to one.  A retry loop around  *)
(* a read is one step: the read is answered or fails.                      *)
(***************************************************************************)
EXTENDS Integers, Sequences, FiniteSets, FiniteSetsExt, Functions

CONSTANTS
    Claims,             \* calls of StartRecoverStuckBridgeBalance
    Accounts,           \* of the current keys and of the old derivation
    Refunded,           \* the assets the refund may be of
    Amounts,            \* sizes of a refund
    MaxFunds,           \* bound: what an account may hold
    MaxFee,             \* bound: the fees the services ask for
    MaxRotations,       \* bound: rotations of the contract's salt
    PublishAttempts,    \* maxAttempts of publish_intents (7 in the code)
    MaxPolls,           \* polls before poll() times out (time in the code)
    MaxWatchErrors      \* maxConsecutiveErrors (3 in the code)

ASSUME NearIntentsAssumption ==
    /\ PublishAttempts \in Nat \ {0} /\ MaxPolls \in Nat \ {0}
    /\ MaxWatchErrors \in Nat \ {0}
    /\ Amounts \subseteq Nat \ {0}
    /\ MaxFunds \in Nat /\ MaxFee \in Nat /\ MaxRotations \in Nat
    /\ Refunded \subseteq {"poa", "hotNative", "hotToken", "hotTon",
                           "omniEvm", "omniBtc", "near", "wrapNear"}

(***************************************************************************)
(* Assets, and the bridge that withdraws each.                             *)
(***************************************************************************)
Assets == {"poa", "hotNative", "hotToken", "hotTon",
           "omniEvm", "omniBtc", "near", "wrapNear"}

Bridges == <<"poa", "hot", "omni", "direct">>

\* bridge.supports: "yes", "no", or "error", which ends findBridge.
PoaSupports(asset) == IF asset = "poa" THEN "yes" ELSE "no"

\* TON tokens are HOT's, but their addresses are not ported.
HotSupports(asset) ==
    IF asset = "hotTon" THEN "error"
    ELSE IF asset \in {"hotNative", "hotToken"} THEN "yes" ELSE "no"

OmniSupports(asset) == IF asset \in {"omniEvm", "omniBtc"} THEN "yes" ELSE "no"

\* Every NEP-141 token, the ones of the other bridges included.
DirectSupports(asset) ==
    IF asset \in {"poa", "omniEvm", "omniBtc", "near", "wrapNear"} THEN "yes" ELSE "no"

Supports(bridge, asset) ==
    CASE bridge = "poa"    -> PoaSupports(asset)
      [] bridge = "hot"    -> HotSupports(asset)
      [] bridge = "omni"   -> OmniSupports(asset)
      [] bridge = "direct" -> DirectSupports(asset)

\* findBridge: the first bridge that does not answer "no".
FindBridge(asset) ==
    LET first == CHOOSE i \in 1..Len(Bridges) :
                    /\ Supports(Bridges[i], asset) # "no"
                    /\ \A j \in 1..(i - 1) : Supports(Bridges[j], asset) = "no"
    IN  IF Supports(Bridges[first], asset) = "yes" THEN Bridges[first] ELSE "error"

\* validateAddress knows Solana, Tron and EVM addresses and no others.
LandingChain(asset) ==
    CASE asset = "omniBtc"              -> "bitcoin"
      [] asset \in {"near", "wrapNear"} -> "near"
      [] OTHER                          -> "evm"

MayBeValidAddress(chain) == chain # "bitcoin"

(***************************************************************************)
(* Fees.  A quote buys `out` of the fee token for `in` of the asset.       *)
(***************************************************************************)
NoQuote == [in |-> 0, out |-> 0]

CeilDiv(a, b) == (a + b - 1) \div b

\* getFeeQuote's fallback asks for 1.2 times the fee's price, rounded up.
ExactAmountIn(fee) == Max({1, CeilDiv(fee * 12, 10)})

\* mutant: the fallback's lower bound is forgotten.
AcceptedAnyFallback(fee, out) == (out * 1000) \div fee <= 1500

\* The fallback's quote is refused when it buys less than the fee or more
\* than one and a half times the fee.
AcceptedFallback(fee, out) == out >= fee /\ (out * 1000) \div fee <= 1500

\* getFeeQuote: a quote for the exact fee at some price, or the fallback.
FeeQuotes(fee) ==
    [in : fee..(fee + 1), out : {fee}]
    \cup {q \in [in : {ExactAmountIn(fee)}, out : 0..(2 * fee)] : AcceptedFallback(fee, q.out)}

FeeOf(amount, quote, relayer, storage, gas) ==
    [amount |-> amount, quote |-> quote, relayer |-> relayer, storage |-> storage, gas |-> gas]

Quoted(need, relayer, storage, gas) ==
    IF need = 0 THEN {FeeOf(gas, NoQuote, relayer, storage, gas)}
    ELSE {FeeOf(q.in + gas, q, relayer, storage, gas) : q \in FeeQuotes(need)}

\* The POA service names a positive fee.
PoaFees == {FeeOf(f, NoQuote, f, 0, 0) : f \in 1..MaxFee}

\* The storage fee is what an account lacks of the minimum, if anything.
StorageFees == {Max({0, minimum - balance}) : minimum \in 0..MaxFee, balance \in 0..MaxFee}

OmniFees(asset) ==
    UNION {Quoted(relayer + storage, relayer, storage, gas) :
             relayer \in 0..MaxFee, storage \in StorageFees,
             gas \in IF asset = "omniBtc" THEN 2..MaxFee ELSE {0}}

\* The relayer is paid in the chain's native token.
HotFees(asset) ==
    IF asset = "hotNative" THEN {FeeOf(f, NoQuote, f, 0, 0) : f \in 0..MaxFee}
    ELSE UNION {Quoted(f, f, 0, 0) : f \in 0..MaxFee}

DirectFees(asset) ==
    IF asset = "wrapNear" THEN {FeeOf(0, NoQuote, 0, 0, 0)}
    ELSE UNION {Quoted(storage, 0, storage, 0) : storage \in StorageFees}

EstimateWithdrawalFee(bridge, asset) ==
    CASE bridge = "poa"    -> PoaFees
      [] bridge = "omni"   -> OmniFees(asset)
      [] bridge = "hot"    -> HotFees(asset)
      [] bridge = "direct" -> DirectFees(asset)

\* FeeInclusive: the fee is taken out of the claimed amount.
FeeTooHigh(n, fee) == n <= fee.amount

(***************************************************************************)
(* validateWithdrawal, as far as the client's own data decide it: minimum  *)
(* amounts, the bridge's storage and the address are up to the services.   *)
(***************************************************************************)
PoaValid(asset) == MayBeValidAddress(LandingChain(asset))

HotValid(asset) == MayBeValidAddress(LandingChain(asset))

OmniValid(asset, fee) ==
    /\ fee.amount > 0
    /\ MayBeValidAddress(LandingChain(asset))
    /\ fee.relayer > 0 \/ LandingChain(asset) = "bitcoin"

ValidateWithdrawal(bridge, asset, fee) ==
    CASE bridge = "poa"    -> PoaValid(asset)
      [] bridge = "hot"    -> HotValid(asset)
      [] bridge = "omni"   -> OmniValid(asset, fee)
      [] bridge = "direct" -> TRUE

(***************************************************************************)
(* createWithdrawalIntents: what each intent of the payload takes from the *)
(* account in the refund's asset and in the native token, and what of the  *)
(* native token it brings.  n is the amount without the fee.               *)
(***************************************************************************)
Intent(op, asset, native, buys) == [op |-> op, asset |-> asset, native |-> native, buys |-> buys]

TokenDiff(fee) ==
    IF fee.quote = NoQuote THEN {}
    ELSE {Intent("token_diff", fee.quote.in, 0, fee.quote.out)}

PoaIntents(n, fee) == {Intent("ft_withdraw", n + fee.relayer, 0, 0)}

OmniIntents(n, fee) ==
    TokenDiff(fee)
    \cup {Intent("storage_deposit", 0, r, 0) : r \in {fee.relayer} \ {0}}
    \cup {Intent("ft_withdraw", n + fee.gas, fee.storage, 0)}

HotIntents(asset, n, fee) ==
    TokenDiff(fee)
    \cup (IF asset = "hotNative" THEN {Intent("mt_withdraw", n + fee.relayer, 0, 0)}
          ELSE {Intent("mt_withdraw", n, fee.relayer, 0)})

DirectIntents(asset, n, fee) ==
    TokenDiff(fee)
    \cup (IF asset = "wrapNear" THEN {Intent("native_withdraw", n, 0, 0)}
          ELSE {Intent("ft_withdraw", n, fee.storage, 0)})

CreateWithdrawalIntents(bridge, asset, n, fee) ==
    CASE bridge = "poa"    -> PoaIntents(n, fee)
      [] bridge = "omni"   -> OmniIntents(n, fee)
      [] bridge = "hot"    -> HotIntents(asset, n, fee)
      [] bridge = "direct" -> DirectIntents(asset, n, fee)

\* What a payload takes: from the refund, and from wNEAR it has not bought.
Moved(intents, what) == SumFunction([i \in intents |-> i[what]])

DebitOf(intents) ==
    [asset  |-> Moved(intents, "asset"),
     native |-> Max({0, Moved(intents, "native") - Moved(intents, "buys")})]

(***************************************************************************)
(* State.                                                                  *)
(***************************************************************************)
\* A claim signs one payload, and a second one after an invalid salt.
Payloads == Claims \X {1, 2}

VARIABLES
    pc,         \* where each claim is
    asset,      \* what the claims are about; it never changes
    claim,      \* the account and the amount it listed
    debit,      \* what its intents take from the account
    attempt,    \* requests it made for the current payload
    polls,      \* polls in the current wait
    errors,     \* consecutive errors of the watch
    nonces,     \* the bridge's nonce of the withdrawal in the HOT cache
    salt,       \* [Payloads -> the salt it was signed with]
    current,    \* the current payload of each claim, 1 or 2
    cachedSalt, \* saltManager.currentSalt
    saltLock,   \* the claim inside getCachedSalt, with the salt it has read
    \* outside the repository
    chainSalt,  \* the salt the contract accepts
    relay,      \* [Payloads -> what became of it]
    late,       \* requests the client gave up on that may still arrive
    funds,      \* what the accounts hold
    bridge,     \* per claim: what the bridge did with the withdrawal
    \* history, for the properties
    refusedAt,  \* the contract's salt when the relay refused the first payload
    lost        \* the claims whose submission missed an answer of the relay

clientVars == <<pc, debit, attempt, polls, errors, nonces, salt, current, cachedSalt, saltLock>>
externalVars == <<chainSalt, relay, late, funds, bridge>>
history == <<refusedAt, lost>>
vars == <<clientVars, asset, claim, externalVars, history>>

NoSalt == -1
Free == [by |-> "nobody", read |-> NoSalt]

\* "refused": startNearIntentsRefundClaim returned an error; "failed" and
\* "done": the wait it returned has returned.
Returned == {"done", "refused", "failed"}

TypeOK ==
    /\ pc \in [Claims -> {"idle", "submit", "salt", "read", "send", "refresh",
                          "settle", "watch"} \cup Returned]
    /\ asset \in Assets
    /\ claim \in [Claims -> [account : Accounts, amount : 0..MaxFunds]]
    /\ debit \in [Claims -> [asset : Nat, native : Nat]]
    /\ attempt \in [Claims -> 0..PublishAttempts]
    /\ polls \in [Claims -> 0..MaxPolls]
    /\ errors \in [Claims -> 0..MaxWatchErrors]
    /\ nonces \in [Claims -> {"unknown", "none", "found"}]
    /\ salt \in [Payloads -> {NoSalt} \cup 0..MaxRotations]
    /\ current \in [Claims -> {1, 2}]
    /\ cachedSalt \in {NoSalt} \cup 0..MaxRotations
    /\ saltLock \in {Free} \cup [by : Claims, read : 0..MaxRotations]
    /\ chainSalt \in 0..MaxRotations
    /\ relay \in [Payloads -> {"none", "accepted", "executed", "dead"}]
    /\ late \subseteq Payloads
    /\ funds \in [Accounts -> 0..MaxFunds]
    /\ bridge \in [Claims -> {"none", "pending", "completed", "canceled"}]
    /\ refusedAt \in [Claims -> {NoSalt} \cup 0..MaxRotations]
    /\ lost \subseteq Claims

Init ==
    /\ pc = [c \in Claims |-> "idle"]
    /\ asset \in Refunded
    /\ claim \in {[c \in Claims |-> [account |-> a, amount |-> 0]] : a \in Accounts}
    /\ debit = [c \in Claims |-> [asset |-> 0, native |-> 0]]
    /\ attempt = [c \in Claims |-> 0] /\ polls = [c \in Claims |-> 0]
    /\ errors = [c \in Claims |-> 0] /\ nonces = [c \in Claims |-> "unknown"]
    /\ salt = [p \in Payloads |-> NoSalt] /\ current = [c \in Claims |-> 1]
    /\ cachedSalt = NoSalt /\ saltLock = Free
    /\ chainSalt = 0
    /\ relay = [p \in Payloads |-> "none"] /\ late = {}
    /\ funds = [a \in Accounts |-> 0]
    /\ bridge = [c \in Claims |-> "none"]
    /\ refusedAt = [c \in Claims |-> NoSalt] /\ lost = {}

GoTo(c, there) == pc' = [pc EXCEPT ![c] = there]
Payload(c) == <<c, current[c]>>

(***************************************************************************)
(* startNearIntentsRefundClaim and submitWithdrawal.                       *)
(***************************************************************************)
\* What fetchAccountRefundBalances lists: the positive balance of an account.
ListedRefunds(a) == {funds[a]} \ {0}

\* The user claims a listed refund.
Start(c, a) ==
    /\ pc[c] = "idle"
    /\ \E n \in ListedRefunds(a) :
         claim' = [claim EXCEPT ![c] = [account |-> a, amount |-> n]]
    /\ GoTo(c, "submit")
    /\ UNCHANGED <<debit, attempt, polls, errors, nonces, salt, current, cachedSalt, saltLock,
                   asset, externalVars, history>>

\* Find the bridge, estimate the fee, check and build the intents.  Each of
\* these asks a service that may fail or refuse.
Prepare(c) ==
    /\ pc[c] = "submit"
    /\ LET route == FindBridge(asset) IN
       \/ /\ GoTo(c, "refused")
          /\ UNCHANGED debit
       \/ /\ route # "error"
          /\ \E fee \in EstimateWithdrawalFee(route, asset) :
               /\ ~FeeTooHigh(claim[c].amount, fee)
               /\ ValidateWithdrawal(route, asset, fee)
               /\ debit' = [debit EXCEPT ![c] =
                    DebitOf(CreateWithdrawalIntents(route, asset, claim[c].amount - fee.amount, fee))]
          /\ GoTo(c, "salt")
    /\ UNCHANGED <<attempt, polls, errors, nonces, salt, current, cachedSalt, saltLock,
                   asset, claim, externalVars, history>>

\* The payload is signed with a salt and a random nonce.
Sign(c, s) ==
    /\ salt' = [salt EXCEPT ![Payload(c)] = s]
    /\ GoTo(c, "send")

\* getCachedSalt: the cached salt, unless its 300 seconds are over.
CachedSalt(c) ==
    /\ pc[c] = "salt" /\ saltLock = Free /\ cachedSalt # NoSalt
    /\ Sign(c, cachedSalt)
    /\ UNCHANGED <<debit, attempt, polls, errors, nonces, current, cachedSalt, saltLock,
                   asset, claim, externalVars, history>>

\* Otherwise it asks the contract, and keeps the lock until the answer.
FetchSalt(c) ==
    /\ pc[c] = "salt" /\ saltLock = Free
    /\ saltLock' = [by |-> c, read |-> chainSalt]
    /\ GoTo(c, "read")
    /\ UNCHANGED <<debit, attempt, polls, errors, nonces, salt, current, cachedSalt,
                   asset, claim, externalVars, history>>

StoreSalt(c) ==
    /\ pc[c] = "read"
    /\ saltLock' = Free
    /\ \/ /\ cachedSalt' = saltLock.read
          /\ Sign(c, saltLock.read)
       \/ /\ GoTo(c, "refused")
          /\ UNCHANGED <<cachedSalt, salt>>
    /\ UNCHANGED <<debit, attempt, polls, errors, nonces, current,
                   asset, claim, externalVars, history>>

\* mutant: refresh clears the cache without the lock.
RefreshSaltUnlocked(c) ==
    /\ pc[c] = "refresh"
    /\ cachedSalt' = NoSalt
    /\ current' = [current EXCEPT ![c] = 2]
    /\ GoTo(c, "salt")
    /\ UNCHANGED <<debit, attempt, polls, errors, nonces, salt, saltLock,
                   asset, claim, externalVars, history>>

\* saltManager.refresh, and the second payload of withSaltRetry.
RefreshSalt(c) ==
    /\ pc[c] = "refresh" /\ saltLock = Free
    /\ cachedSalt' = NoSalt
    /\ current' = [current EXCEPT ![c] = 2]
    /\ GoTo(c, "salt")
    /\ UNCHANGED <<debit, attempt, polls, errors, nonces, salt, saltLock,
                   asset, claim, externalVars, history>>

(***************************************************************************)
(* publishIntents: at most PublishAttempts requests for a payload.         *)
(***************************************************************************)
\* mutant: the attempts are not counted out.
UnansweredForever(c) ==
    /\ pc[c] = "send"
    /\ attempt' = [attempt EXCEPT ![c] = @ + 1]
    /\ lost' = lost \cup {c}
    /\ late' \in {late, late \cup {Payload(c)}}
    /\ UNCHANGED <<pc, debit, polls, errors, nonces, salt, current, cachedSalt, saltLock,
                   asset, claim, chainSalt, relay, funds, bridge, refusedAt>>

\* mutant: a network error is retried with a new payload, as an invalid salt.
UnansweredResigns(c) ==
    /\ pc[c] = "send"
    /\ lost' = lost \cup {c}
    /\ late' \in {late, late \cup {Payload(c)}}
    /\ IF attempt[c] + 1 = PublishAttempts
       THEN /\ GoTo(c, IF current[c] = 1 THEN "refresh" ELSE "refused")
            /\ attempt' = [attempt EXCEPT ![c] = 0]
       ELSE attempt' = [attempt EXCEPT ![c] = @ + 1] /\ UNCHANGED pc
    /\ UNCHANGED <<debit, polls, errors, nonces, salt, current, cachedSalt, saltLock,
                   asset, claim, chainSalt, relay, funds, bridge, refusedAt>>

\* No answer, or one that requestShouldRetry.  The request may still arrive.
Unanswered(c) ==
    /\ pc[c] = "send"
    /\ lost' = lost \cup {c}
    /\ late' \in {late, late \cup {Payload(c)}}
    /\ IF attempt[c] + 1 = PublishAttempts
       THEN GoTo(c, "refused") /\ attempt' = [attempt EXCEPT ![c] = 0]
       ELSE attempt' = [attempt EXCEPT ![c] = @ + 1] /\ UNCHANGED pc
    /\ UNCHANGED <<debit, polls, errors, nonces, salt, current, cachedSalt, saltLock,
                   asset, claim, chainSalt, relay, funds, bridge, refusedAt>>

\* What the relay makes of payload p, and what it answers.
Verdicts(p) ==
    IF relay[p] # "none"
    THEN {[state |-> relay[p], answer |-> a] : a \in {"already processed", "refused"}}
    ELSE IF salt[p] # chainSalt
    THEN {[state |-> "none", answer |-> "invalid salt"]}
    ELSE {[state |-> "accepted", answer |-> "OK"], [state |-> "none", answer |-> "refused"]}

\* mutant: withSaltRetry does not stop at a published payload.
AfterAnyAnswer(c, answer) ==
    CASE answer = "already processed" -> {"settle", "refused"}
      [] answer = "refused"           -> {"refused"}
      [] OTHER                        -> {IF current[c] = 1 THEN "refresh" ELSE "refused"}

\* send: where an answer takes the claim.  A payload the relay already had
\* counts as published, though its answer may hold no intent hash.
AfterAnswer(c, answer) ==
    CASE answer = "OK"                -> {"settle"}
      [] answer = "already processed" -> {"settle", "refused"}
      [] answer = "refused"           -> {"refused"}
      [] answer = "invalid salt"      -> {IF current[c] = 1 THEN "refresh" ELSE "refused"}

Answered(c) ==
    /\ pc[c] = "send"
    /\ \E v \in Verdicts(Payload(c)) :
         /\ relay' = [relay EXCEPT ![Payload(c)] = v.state]
         /\ \E there \in AfterAnswer(c, v.answer) : GoTo(c, there)
         /\ refusedAt' = IF v.answer = "invalid salt" /\ current[c] = 1
                         THEN [refusedAt EXCEPT ![c] = chainSalt] ELSE refusedAt
    /\ lost' = IF pc'[c] = "settle" THEN lost \ {c} ELSE lost
    /\ attempt' = [attempt EXCEPT ![c] = 0]
    /\ UNCHANGED <<debit, polls, errors, nonces, salt, current, cachedSalt, saltLock,
                   asset, claim, chainSalt, late, funds, bridge>>

(***************************************************************************)
(* awaitWithdrawal: waitForIntentSettlement and watchWithdrawal.           *)
(***************************************************************************)
TimedOut(c) == polls[c] = MaxPolls

Wait(c) == polls' = [polls EXCEPT ![c] = @ + 1] /\ UNCHANGED pc
Leave(c, there) == polls' = [polls EXCEPT ![c] = 0] /\ GoTo(c, there)

\* One poll of get_status.  An error of the request counts as no news.
Settle(c) ==
    /\ pc[c] = "settle"
    /\ \/ TimedOut(c) /\ Leave(c, "failed")
       \/ ~TimedOut(c) /\ Wait(c)
       \/ ~TimedOut(c) /\ relay[Payload(c)] = "executed" /\ Leave(c, "watch")
       \* settled without a transaction hash, or FAILED
       \/ ~TimedOut(c) /\ relay[Payload(c)] \in {"executed", "dead"} /\ Leave(c, "failed")
    /\ UNCHANGED <<debit, attempt, errors, nonces, salt, current, cachedSalt, saltLock,
                   asset, claim, externalVars, history>>

\* describeWithdrawal: what the bridge's service may say, and what the cache
\* of HOT nonces holds after it.  An empty list of nonces is kept too.
HotNonces(c) == IF nonces[c] = "unknown" THEN {"unknown", "none", "found"} ELSE {nonces[c]}

Reported(c) ==
    {"pending"} \cup (IF bridge[c] = "completed" THEN {"completed"} ELSE {})
                \cup (IF bridge[c] = "canceled" THEN {"failed"} ELSE {})

DescribePoa(c) == ({"error"} \cup Reported(c)) \X {nonces[c]}

DescribeOmni(c) == ({"error"} \cup (Reported(c) \ {"failed"})) \X {nonces[c]}

DescribeHot(c) ==
    ({"error"} \X HotNonces(c)) \cup (Reported(c) \X (HotNonces(c) \cap {"found"}))

\* A direct withdrawal is complete as soon as its intent has settled.
DescribeDirect(c) == {<<"completed", nonces[c]>>}

Describe(c) ==
    CASE FindBridge(asset) = "poa"    -> DescribePoa(c)
      [] FindBridge(asset) = "hot"    -> DescribeHot(c)
      [] FindBridge(asset) = "omni"   -> DescribeOmni(c)
      [] FindBridge(asset) = "direct" -> DescribeDirect(c)

\* One poll of the watch: MaxWatchErrors errors in a row end it.
Watch(c) ==
    /\ pc[c] = "watch"
    /\ \/ /\ TimedOut(c) /\ Leave(c, "failed")
          /\ UNCHANGED <<errors, nonces>>
       \/ /\ ~TimedOut(c)
          /\ \E d \in Describe(c) :
               /\ nonces' = [nonces EXCEPT ![c] = d[2]]
               /\ errors' = [errors EXCEPT ![c] = IF d[1] = "error" THEN @ + 1 ELSE 0]
               /\ CASE d[1] = "completed"            -> Leave(c, "done")
                    [] \/ d[1] = "failed"
                       \/ errors'[c] = MaxWatchErrors -> Leave(c, "failed")
                    [] OTHER                         -> Wait(c)
    /\ UNCHANGED <<debit, attempt, salt, current, cachedSalt, saltLock,
                   asset, claim, externalVars, history>>

(***************************************************************************)
(* Outside the repository.                                                 *)
(***************************************************************************)
\* A bridge leg fails and hinkalNearDepositAndBridge's refund arrives.
Refund(a, n) ==
    /\ funds[a] + n <= MaxFunds
    /\ funds' = [funds EXCEPT ![a] = @ + n]
    /\ UNCHANGED <<clientVars, asset, claim, chainSalt, relay, late, bridge, history>>

RotateSalt ==
    /\ chainSalt < MaxRotations
    /\ chainSalt' = chainSalt + 1
    /\ UNCHANGED <<clientVars, asset, claim, relay, late, funds, bridge, history>>

\* A request that was given up on arrives after all; nobody reads the answer.
LateArrival(p) ==
    /\ p \in late
    /\ late' = late \ {p}
    /\ \E v \in Verdicts(p) : relay' = [relay EXCEPT ![p] = v.state]
    /\ UNCHANGED <<clientVars, asset, claim, chainSalt, funds, bridge, history>>

\* The contract executes an accepted payload: all of its intents or none.
Execute(p) ==
    LET c == p[1] IN
    /\ relay[p] = "accepted" /\ salt[p] = chainSalt
    /\ debit[c].asset <= funds[claim[c].account] /\ debit[c].native = 0
    /\ funds' = [funds EXCEPT ![claim[c].account] = @ - debit[c].asset]
    /\ relay' = [relay EXCEPT ![p] = "executed"]
    /\ bridge' = [bridge EXCEPT ![c] = "pending"]
    /\ UNCHANGED <<clientVars, asset, claim, chainSalt, late, history>>

\* It expires, its salt rotates, or the account no longer holds the amount.
Drop(p) ==
    /\ relay[p] = "accepted"
    /\ relay' = [relay EXCEPT ![p] = "dead"]
    /\ UNCHANGED <<clientVars, asset, claim, chainSalt, late, funds, bridge, history>>

Deliver(c) ==
    /\ bridge[c] = "pending"
    /\ \E end \in {"completed", "canceled"} : bridge' = [bridge EXCEPT ![c] = end]
    /\ UNCHANGED <<clientVars, asset, claim, chainSalt, relay, late, funds, history>>

(***************************************************************************)
(* Specification.  The client's goroutine of a claim goes on; nothing is   *)
(* assumed of the relay, the contract and the bridges.                     *)
(***************************************************************************)
Step(c) ==
    \/ Prepare(c) \/ CachedSalt(c) \/ FetchSalt(c) \/ StoreSalt(c) \/ RefreshSalt(c)
    \/ Unanswered(c) \/ Answered(c) \/ Settle(c) \/ Watch(c)

Environment ==
    \/ RotateSalt
    \/ \E a \in Accounts, n \in Amounts : Refund(a, n)
    \/ \E p \in Payloads : LateArrival(p) \/ Execute(p) \/ Drop(p)
    \/ \E c \in Claims : Deliver(c)

Next ==
    \/ \E c \in Claims : Step(c) \/ \E a \in Accounts : Start(c, a)
    \/ Environment

Fairness == \A c \in Claims : WF_vars(Step(c))

Spec == Init /\ [][Next]_vars /\ Fairness

(***************************************************************************)
(* Properties.                                                             *)
(***************************************************************************)
\* A signed payload takes exactly the claimed amount of the refund, however
\* the fee is quoted, and no native token it does not buy: neither a partial
\* claim nor one the contract refuses for an uncovered fee.
IntentsSpendExactly ==
    \A c \in Claims :
        pc[c] \in {"salt", "read", "send", "refresh", "settle", "watch", "done", "failed"} =>
            debit[c] = [asset |-> claim[c].amount, native |-> 0]

\* The payload signed after an invalid salt has a salt at least as new as the
\* one that was valid when the first was refused, whatever the other claims
\* do with the shared saltManager meanwhile.
FreshSaltOnRetry ==
    \A c \in Claims : salt[<<c, 2>>] # NoSalt => salt[<<c, 2>>] >= refusedAt[c]

\* A claim that could not be submitted, and whose every publish request was
\* answered, takes nothing: the user may claim again.
FailureIsHonest ==
    \A c \in Claims : pc[c] = "refused" /\ c \notin lost =>
        /\ \A i \in {1, 2} : relay[<<c, i>>] \notin {"accepted", "executed"}
        /\ \A i \in {1, 2} : <<c, i>> \notin late

\* What a claim promises (module RefundClaim): it takes the listed amount at
\* most once, reports success only for a withdrawal that was made, and
\* returns.
Watched == {c \in Claims : FindBridge(asset) \in {"poa", "hot", "omni"}}
Taken == {c \in Claims : \E i \in {1, 2} : relay[<<c, i>>] = "executed"}
Delivered == {c \in Claims : bridge[c] = "completed"}
Outcome ==
    [c \in Claims |-> IF pc[c] \in {"idle", "done"} THEN pc[c]
                      ELSE IF pc[c] \in {"refused", "failed"} THEN "failed"
                      ELSE "running"]

Abs == INSTANCE RefundClaim WITH
    watched <- Watched, taken <- Taken, delivered <- Delivered, outcome <- Outcome

ImplementsRefundClaim == Abs!Spec

(***************************************************************************)
(* The inductive invariant.                                                *)
(***************************************************************************)
\* Where a claim is when its payload is built, and where it is when it does
\* not know of any payload of its own at the relay.
Built == {"salt", "read", "send", "refresh", "settle", "watch", "done", "failed"}
Unpublished == {"idle", "submit", "salt", "read", "send", "refresh", "refused"}

Exact(c) == debit[c] = [asset |-> claim[c].amount, native |-> 0]

ClaimOK(c) ==
    /\ attempt[c] < PublishAttempts
    /\ pc[c] \notin {"done", "failed"} => errors[c] < MaxWatchErrors
    /\ pc[c] \in Built => FindBridge(asset) # "error" /\ Exact(c)
    /\ pc[c] \in {"idle", "submit"} => \A i \in {1, 2} : salt[<<c, i>>] = NoSalt
    /\ pc[c] = "send" => salt[Payload(c)] # NoSalt
    /\ \A i \in {1, 2} : salt[<<c, i>>] # NoSalt => Exact(c)

\* Once a claim has cleared the cache, what is in the cache or on its way
\* there was read after the refusal: the lock keeps out an answer that was
\* asked for before.
SaltOK(c) ==
    /\ refusedAt[c] <= chainSalt
    /\ pc[c] = "read" => saltLock # Free /\ saltLock.by = c
    /\ current[c] = 1 => salt[<<c, 2>>] = NoSalt
    /\ current[c] = 2 =>
        /\ cachedSalt # NoSalt => cachedSalt >= refusedAt[c]
        /\ saltLock # Free => saltLock.read >= refusedAt[c]

\* At most one payload of a claim ever counts: when the second is signed, the
\* first has been refused for a salt that does not come back.
RelayOK(c) ==
    /\ \A i \in {1, 2} :
        /\ salt[<<c, i>>] = NoSalt => relay[<<c, i>>] = "none" /\ <<c, i>> \notin late
        /\ c \notin lost /\ pc[c] \in Unpublished =>
              relay[<<c, i>>] = "none" /\ <<c, i>> \notin late
    /\ current[c] = 2 \/ pc[c] = "refresh" =>
          relay[<<c, 1>>] = "none" /\ salt[<<c, 1>>] < chainSalt
    /\ pc[c] = "watch" => relay[Payload(c)] = "executed"
    /\ bridge[c] # "none" => \E i \in {1, 2} : relay[<<c, i>>] = "executed"

ClaimInv == \A c \in Claims : ClaimOK(c)

\* No salt is newer than the contract's.
SaltInv ==
    /\ \A p \in Payloads : salt[p] <= chainSalt
    /\ cachedSalt <= chainSalt /\ saltLock.read <= chainSalt
    /\ \A c \in Claims : SaltOK(c)

RelayInv == \A c \in Claims : RelayOK(c)

IInv == TypeOK /\ ClaimInv /\ SaltInv /\ RelayInv /\ FreshSaltOnRetry
=============================================================================
