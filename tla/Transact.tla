------------------------------ MODULE Transact ------------------------------
(* HinkalTransact, SolanaTransact and the withdrawal of stuck notes through   *)
(* the enclave, from a user's ask to the answer he gets: the relay, the notes *)
(* (chosen here from what the wallet knows, or by the enclave), the message   *)
(* that is signed, the proof and its submission.  Several calls of one wallet *)
(* run at once, and the contract spends a note once.                          *)
EXTENDS EnclaveAnswer

CONSTANTS Calls,       \* calls of the user
          Asks(_),     \* what each asks for
          Wallet,      \* the notes on the chain the wallet or a claim can spend
          Setups       \* [chain, remote, prover]: the network, whether proofs
                       \* are made by the enclave, whether the build can make
                       \* them itself

ASSUME TransactAssumption ==
    /\ \A c \in Calls : \A ask \in Asks(c) : ask.chain \in {"evm", "tron", "solana"}
    /\ \A m, n \in Wallet \cup Strangers : m.id = n.id => m = n

VARIABLES setup,
          unspent,   \* notes of Wallet the contract has not seen spent
          view,      \* those the wallet takes for unspent
          calls,
          signed,    \* [call, message] of every signature
          pool       \* messages submitted and not executed

vars == <<setup, unspent, view, calls, signed, pool>>

NoCall == [ask |-> <<>>, pc |-> "idle", params |-> <<>>, ins |-> <<>>,
           outs |-> <<>>, jobs |-> <<>>, sent |-> {}, answered |-> 0,
           hashes |-> 0, result |-> ""]

Init == /\ setup \in Setups
        /\ unspent = Wallet
        /\ view = Wallet
        /\ calls = [c \in Calls |-> NoCall]
        /\ signed = {}
        /\ pool = {}

P(c) == calls[c].params

Set(c, fields) == calls' = [calls EXCEPT ![c] = fields @@ @]
Ends(c, result) == Set(c, [pc |-> "done", result |-> result])
Own(keys) == {n \in unspent : n.keys = keys}
Keeps == UNCHANGED <<setup, unspent, view>>
Signs(c, message) == signed' = signed \cup {[call |-> c, message |-> message]}

-----------------------------------------------------------------------------
(* The request.                                                               *)

(* A flow: its own checks and fees, then HinkalTransact.  Stuck notes go      *)
(* through the enclave here; StuckWithdrawal has the other way.               *)
Begin(c) ==
    /\ calls[c].pc = "idle"
    /\ \E ask \in Asks(c) :
         /\ ask.chain = setup.chain
         /\ IF ask.goal = "stuck"
            THEN setup.remote /\ Set(c, [ask |-> ask, pc |-> "stuck"])
            ELSE IF Requests(ask) = {}
            THEN Set(c, [ask |-> ask, pc |-> "done", result |-> "error"])
            ELSE \E p \in Requests(ask) :
                   Set(c, [ask |-> ask, pc |-> "relay", params |-> p])
    /\ Keeps /\ UNCHANGED <<signed, pool>>

(* Left to the enclave when it makes the proof; otherwise the relay also      *)
(* stands for an account the flow left open, except on Solana, where no flow  *)
(* leaves one open.                                                           *)
Begun(c) == /\ calls[c].pc = "relay"
            /\ Keeps /\ UNCHANGED <<signed, pool>>
Wants(p) == p.needsRelay /\ p.relay = ""

resolveTransactRelay(c) ==
    /\ Begun(c) /\ setup.chain # "solana" /\ ~setup.remote
    /\ LET p == P(c)
       IN  Set(c, [pc |-> "read",
                   params |-> IF ~Wants(p) THEN p
                              ELSE [p EXCEPT !.relay = "relay",
                                      !.external = IF @ = "" THEN "relay" ELSE @]])

resolveSolanaTransactRelay(c) ==
    /\ Begun(c) /\ setup.chain = "solana" /\ ~setup.remote
    /\ Set(c, [pc |-> "read",
               params |-> [P(c) EXCEPT !.relay = IF Wants(P(c)) THEN "relay" ELSE @]])

ResolveRelay(c) ==
    /\ Begun(c) /\ setup.remote
    /\ Set(c, [pc |-> "prepare"])

(* A service that does not answer, or no relay, before anything is signed.    *)
Fails(c) ==
    /\ calls[c].pc \in {"relay", "prepare", "stuck", "read", "prove", "proof"}
    /\ Ends(c, "error")
    /\ Keeps /\ UNCHANGED <<signed, pool>>

-----------------------------------------------------------------------------
(* The proof made here: the signature comes before the proof, and the notes   *)
(* are those the wallet knew when it read them.                               *)

buildProofLocally(c) ==
    LET p    == P(c)
        made == UNION {{<<ins, outs>> : outs \in OutputRows(p, ins)} :
                         ins \in InputRows(p, view)}
    IN  /\ calls[c].pc = "read"
        /\ IF made = {} THEN Ends(c, "error")
           ELSE \E m \in made : Set(c, [pc |-> "sign", ins |-> m[1], outs |-> m[2]])
        /\ Keeps /\ UNCHANGED <<signed, pool>>

LocalMessage(c) ==
    LET call == calls[c]
    IN  Message(P(c), RelayOf(P(c)), call.ins, call.outs, P(c).keys,
                Dimensions(call.ins, call.outs))

SignLocally(c) ==
    /\ calls[c].pc = "sign"
    /\ Signs(c, LocalMessage(c))
    /\ Set(c, [pc |-> "prove", jobs |-> <<LocalMessage(c)>>])
    /\ Keeps /\ UNCHANGED pool

(* GenerateMainAndCommitmentZkProof.                                          *)
Prove(c) ==
    /\ calls[c].pc = "prove"
    /\ IF setup.prover /\ validateUtxoStealth(P(c), calls[c].ins)
       THEN Set(c, [pc |-> "proof"]) ELSE Ends(c, "error")
    /\ Keeps /\ UNCHANGED <<signed, pool>>

-----------------------------------------------------------------------------
(* The proof made by the enclave: the answer is checked, then its message is  *)
(* signed.                                                                    *)

prepareEnclaveJob(c) ==
    /\ calls[c].pc = "prepare"
    /\ \E a \in Answers(P(c), Own(P(c).keys)) :
         IF Accepts(P(c), a)
         THEN /\ Signs(c, a.message)
              /\ Set(c, [pc |-> "submit", jobs |-> <<a.message>>])
         ELSE Ends(c, "error") /\ UNCHANGED signed
    /\ Keeps /\ UNCHANGED pool

(* All the jobs are checked before the first is signed.                       *)
PrepareStuck(c) ==
    /\ calls[c].pc = "stuck"
    /\ \E jobs \in StuckAnswers(calls[c].ask, Own("me")) :
         IF AcceptsJobs(calls[c].ask, jobs) /\ jobs # <<>>
         THEN Set(c, [pc |-> "finalize",
                      jobs |-> [k \in DOMAIN jobs |-> jobs[k].message]])
         ELSE Ends(c, "error")
    /\ Keeps /\ UNCHANGED <<signed, pool>>

-----------------------------------------------------------------------------
(* Submission.  A relayer or the enclave that posts to it may take a          *)
(* transaction and not say so; it may also name one that was reverted.         *)

Replies == {"success", "error", "failed", "lost"}

extractTxResponse(reply) == IF reply = "success" THEN "ok" ELSE "error"

Taken(reply, taken) == /\ reply = "success" => taken
                       /\ reply \in {"error", "failed"} => ~taken

Posted(c) ==
    LET message == calls[c].jobs[1]
    IN  \E reply \in Replies, taken \in BOOLEAN :
          /\ Taken(reply, taken)
          /\ pool' = IF taken THEN pool \cup {message} ELSE pool
          /\ Set(c, [pc |-> "done", result |-> extractTxResponse(reply),
                     sent |-> IF taken THEN {message} ELSE {}])

(* The enclave proves and posts to the relayer, or hands the proof back.      *)
FinalizeTxEnclaveCallRelay(c) ==
    /\ calls[c].pc = "submit" /\ P(c).submit = "relayer"
    /\ Posted(c)
    /\ Keeps /\ UNCHANGED signed

FinalizeTxEnclaveCall(c) ==
    /\ calls[c].pc = "submit" /\ P(c).submit # "relayer"
    /\ \/ Set(c, [pc |-> "proof"])
       \/ Ends(c, "error")
    /\ Keeps /\ UNCHANGED <<signed, pool>>

TransactCallRelayer(c) ==
    /\ calls[c].pc = "proof" /\ P(c).submit = "relayer"
    /\ Posted(c)
    /\ Keeps /\ UNCHANGED signed

(* The caller's own wallet: approvals first, then one transaction.            *)
TransactCallDirect(c) ==
    /\ calls[c].pc = "proof" /\ P(c).submit = "self"
    /\ \/ Ends(c, "error") /\ UNCHANGED pool
       \/ Posted(c)
    /\ Keeps /\ UNCHANGED signed

(* A proof that is only handed back is submitted by whoever gets it.          *)
HandBack(c) ==
    /\ calls[c].pc = "proof" /\ P(c).submit = "proof"
    /\ Set(c, [pc |-> "done", result |-> "ok", sent |-> {calls[c].jobs[1]}])
    /\ Keeps /\ UNCHANGED <<signed, pool>>

(* Each job signed and submitted in turn.  The first that fails ends the      *)
(* call, though the relayer may have it.  answered counts the jobs whose      *)
(* submission was answered with a hash, hashes those the caller gets.         *)
JobEnds(c, ok, taken, hashesOnFailure) ==
    LET call == calls[c]
        message == call.jobs[1]
        sent == IF taken THEN call.sent \cup {message} ELSE call.sent
        answered == call.answered + IF ok THEN 1 ELSE 0
        given == IF ok THEN call.hashes + 1 ELSE hashesOnFailure
    IN  /\ call.pc = "finalize"
        /\ Signs(c, message)
        /\ pool' = IF taken THEN pool \cup {message} ELSE pool
        /\ IF ok /\ Len(call.jobs) > 1
           THEN Set(c, [jobs |-> Tail(call.jobs), sent |-> sent,
                        answered |-> answered, hashes |-> given])
           ELSE Set(c, [pc |-> "done", sent |-> sent, answered |-> answered,
                        hashes |-> given,
                        result |-> IF given > 0 THEN "ok" ELSE "error"])
        /\ Keeps

(* A failure leaves the hashes there are, or an error when there is none.     *)
stuckWithdrawViaEnclave(c) ==
    /\ setup.chain # "solana"
    /\ \E ok, taken \in BOOLEAN : /\ ok => taken
                                  /\ JobEnds(c, ok, taken, calls[c].hashes)

(* A failure is an error whatever was submitted before: its hashes are lost.  *)
stuckWithdrawSolanaViaEnclave(c) ==
    /\ setup.chain = "solana"
    /\ \E ok, taken \in BOOLEAN : /\ ok => taken
                                  /\ JobEnds(c, ok, taken, 0)

-----------------------------------------------------------------------------
(* The chain, which takes a note once, and the wallet's listener.             *)

Execute(message) ==
    LET notes == Spent(message.ins)
    IN  /\ message \in pool
        /\ pool' = pool \ {message}
        /\ unspent' = IF notes \subseteq unspent THEN unspent \ notes ELSE unspent
        /\ UNCHANGED <<setup, view, calls, signed>>

Refresh ==
    /\ view' = unspent
    /\ view # unspent
    /\ UNCHANGED <<setup, unspent, calls, signed, pool>>

Next ==
    \/ \E c \in Calls :
         Begin(c) \/ ResolveRelay(c) \/ resolveTransactRelay(c)
         \/ resolveSolanaTransactRelay(c) \/ Fails(c) \/ buildProofLocally(c)
         \/ SignLocally(c) \/ Prove(c) \/ prepareEnclaveJob(c) \/ PrepareStuck(c)
         \/ FinalizeTxEnclaveCallRelay(c) \/ FinalizeTxEnclaveCall(c)
         \/ TransactCallRelayer(c) \/ TransactCallDirect(c) \/ HandBack(c)
         \/ stuckWithdrawViaEnclave(c) \/ stuckWithdrawSolanaViaEnclave(c)
    \/ \E message \in pool : Execute(message)
    \/ Refresh

Spec == Init /\ [][Next]_vars

-----------------------------------------------------------------------------
(* What a signature must be, told from the ask alone.                         *)

Cut(gross, rate) == CeilDiv(gross * rate, Bps)
LeastGross(net, rate) ==
    CHOOSE g \in net .. net * Bps : /\ g - Cut(g, rate) >= net
                                    /\ \A h \in net .. g - 1 : h - Cut(h, rate) < net

Free(ask) == \/ ask.goal \in {"deposit", "depositFor", "split"}
             \/ ask.goal = "withdrawSelf" /\ ask.chain # "solana"
FeeToken(ask) == IF ask.fee.token = "" THEN DefaultFeeToken ELSE ask.fee.token
FlatOf(ask) == IF Free(ask) THEN 0 ELSE ask.fee.flat
RateOf(ask) ==
    LET own == CASE ask.goal = "swap" /\ ask.chain # "solana" -> SwapRate
                 [] ask.goal = "swap" /\ ask.chain = "solana" -> 0
                 [] OTHER -> PrivateSendRate
    IN  IF Free(ask) \/ ask.goal = "stuck" THEN 0
        ELSE IF ask.goal \in {"withdraw", "withdrawSelf", "send"} THEN ask.fee.rate
        ELSE IF ask.goal = "swap" THEN IF ask.quoted THEN own ELSE ask.fee.rate
        ELSE IF ask.quoted \/ ask.fee.rate = 0 THEN own ELSE ask.fee.rate

Asked(ask, t) ==
    SumOf([i \in DOMAIN ask.tokens |-> IF ask.tokens[i] = t THEN ask.amounts[i] ELSE 0])

Row(m, t) == SelectInSeq(m.tokens, LAMBDA x : x = t)
Spends(m, i) == Total(m.ins[i])
Makes(m, i, owners) == Total(SelectSeq(m.outs[i], LAMBDA n : n.owner \in owners))
MessageNotes(m) == Spent(m.ins)

(* What leaves the shielded balance of a token, less the relay's flat fee, and *)
(* what of it the contract's cut leaves to the account that is paid.           *)
Leaves(m, i) == -m.changes[i]
                - IF m.fee.token = m.tokens[i] THEN m.fee.flat ELSE 0
Paid(m, i) == Leaves(m, i)
              - IF Leaves(m, i) > 0 THEN Cut(Leaves(m, i), m.fee.rate) ELSE 0

(* The most a call may take of the caller's notes of a token.                 *)
MayCost(ask, t) ==
    LET flat == IF t = FeeToken(ask) THEN FlatOf(ask) ELSE 0
        Moved(n) == IF t = FeeToken(ask) THEN (n * RateOf(ask)) \div Bps ELSE 0
    IN  CASE ask.goal = "withdraw" /\ ask.chain # "solana" ->
               flat + LeastGross(Asked(ask, t), RateOf(ask))
          [] \/ ask.goal \in {"transfer", "withdrawSelf"}
             \/ ask.goal = "withdraw" /\ ask.chain = "solana" ->
               flat + Asked(ask, t) + Moved(ask.amounts[1])
          [] ask.goal = "swap" -> IF t = ask.tokens[1] THEN flat + ask.amounts[1]
                                  ELSE IF t = ask.tokens[2] THEN 0 ELSE flat
          [] ask.goal = "claim" -> flat + Moved(ask.source.amount)
          [] ask.goal = "send" -> ask.source.amount
          [] ask.goal = "deposit" -> -Asked(ask, t)
          [] ask.goal = "depositFor" -> 0
          [] ask.goal = "split" -> -SumOf(ask.splits)

CostsAsAsked(ask, m) ==
    \/ ask.goal = "stuck" /\ \A i \in DOMAIN m.outs : Makes(m, i, {"me"}) = 0
    \/ \A i \in DOMAIN m.tokens :
         Spends(m, i) - Makes(m, i, {"me", "claim"}) <= MayCost(ask, m.tokens[i])

(* The account or the recipient gets what was asked for, and no one else      *)
(* anything but the fee.  Without a relay the contract takes no fee, and what *)
(* was set aside for it goes to the account of the transaction.               *)
PaysAsAsked(ask, m) ==
    LET relayed == m.relay # Zero
        relayPaid == /\ m.external = IF ask.chain = "solana" THEN "native" ELSE m.relay
                     /\ relayed => \A i \in DOMAIN m.tokens : Paid(m, i) = 0
        in == Row(m, ask.tokens[1])
    IN  CASE ask.goal \in {"withdraw", "withdrawSelf"} ->
               /\ m.external = ask.to
               /\ \A i \in DOMAIN m.tokens : Paid(m, i) >= Asked(ask, m.tokens[i])
          [] ask.goal = "transfer" ->
               /\ relayPaid
               /\ Makes(m, in, {ask.to}) = ask.amounts[1]
          [] ask.goal = "claim" -> relayPaid
          [] ask.goal = "swap" ->
               LET out == Row(m, ask.tokens[2])
                   fee == IF FeeToken(ask) = ask.tokens[2] THEN FlatOf(ask) ELSE 0
                   least == IF ask.chain = "solana"
                            THEN m.changes[out] + (ask.amounts[2] * m.fee.rate) \div Bps
                            ELSE m.slippage[out]
               IN  /\ m.external = IF ask.chain = "solana" THEN "native" ELSE "swap"
                   /\ Leaves(m, in) >= ask.amounts[1]
                   /\ (least + fee) * Bps >= ask.amounts[2] * (Bps - DefaultSlippage)
                   /\ relayed => Leaves(m, in) = ask.amounts[1] /\ m.fee.rate = RateOf(ask)
                   /\ ask.chain # "tron" => m.onChain[out]
                   /\ ask.chain = "evm" => m.pair = "me"
          [] ask.goal = "deposit" -> m.external = "owner"
          [] ask.goal = "depositFor" ->
               /\ m.external = "owner"
               /\ \A i \in DOMAIN m.tokens : Makes(m, i, {ask.to}) = ask.amounts[i]
          [] ask.goal = "split" ->
               /\ m.external = "owner"
               /\ \A j \in DOMAIN ask.splits : m.outs[1][j].amount = ask.splits[j]
          [] ask.goal = "send" ->
               /\ m.external = ask.to
               /\ -m.changes[1] = ask.source.amount
               /\ relayed => m.fee = ask.fee
          [] ask.goal = "stuck" ->
               /\ m.external = ask.to
               /\ -m.changes[1] = Spends(m, 1)
               /\ Paid(m, 1) > 0

(* The notes are the caller's, and those he named when he named them.         *)
SpendsAsAsked(ask, m) ==
    /\ MessageNotes(m) \subseteq
         {n \in Wallet : n.keys = IF ask.goal = "claim" THEN "claim" ELSE "me"}
    /\ ask.goal \in {"claim", "send"} => MessageNotes(m) = {ask.source}
    /\ ask.goal \in {"split", "depositFor"} => MessageNotes(m) = {}

Conserves(m) ==
    \A i \in DOMAIN m.tokens :
      Spends(m, i) + m.changes[i] = Makes(m, i, {"me", "claim", "friend"})

(* Hashes of stuck notes.  On Solana a call that fails says nothing of the    *)
(* jobs that were submitted before.                                           *)
HashesReported ==
    \A c \in Calls :
      LET call == calls[c]
      IN  /\ call.result = "ok" =>
               call.sent # {} /\ call.hashes <= Cardinality(call.sent)
          /\ /\ call.pc = "done" /\ call.ask # <<>> /\ call.ask.goal = "stuck"
             /\ call.result = "ok" \/ call.ask.chain # "solana"
             => call.hashes = call.answered

(* Every message the wallet's keys or a claim's keys sign spends notes of     *)
(* those keys, the ones the caller pinned when he pinned some, conserves each *)
(* token, pays the account or recipient he asked for what he asked for, costs *)
(* no more than the fee that was quoted or given, and no two jobs of a        *)
(* withdrawal of stuck notes spend one note: whatever notes a lagging view    *)
(* offers, and if the answer of prepare-tx misreads one field of the request  *)
(* or has one wrong note, amount, relay, dimension, sealed output or, on EVM, *)
(* pair.  It says nothing of three parts of the message that the client takes *)
(* from the answer as they are: which relay earns the fee, what the sealed    *)
(* outputs open to, and on Solana whose pair it is (PairIsCallers).  The      *)
(* hashes a call reports are of transactions it submitted, and a withdrawal   *)
(* of stuck notes reports all it was given, but for a failed one on Solana.   *)
SignedAsAsked ==
    /\ \A s \in signed :
         LET ask == calls[s.call].ask
         IN  /\ SpendsAsAsked(ask, s.message)
             /\ Conserves(s.message)
             /\ PaysAsAsked(ask, s.message)
             /\ CostsAsAsked(ask, s.message)
    /\ \A s, t \in signed :
         s # t /\ s.call = t.call =>
           MessageNotes(s.message) \cap MessageNotes(t.message) = {}
    /\ HashesReported

(* The pair of a message that has the contract create a note is the caller's  *)
(* own: the contract gives the note to the owner of the pair.  So says the    *)
(* comment of verifyAssertTxLevelStealthPairOwnedByCaller; only the EVM and   *)
(* Tron check calls it.                                                       *)
PairIsCallers ==
    \A s \in signed :
      (\E i \in DOMAIN s.message.onChain : s.message.onChain[i]) =>
        s.message.pair = calls[s.call].params.keys

(* The variables have their types, the wallet never misses a note that is     *)
(* unspent, and every message fits a circuit: its tokens have as many inputs  *)
(* each, of one of the two sizes there are, and as many outputs each.         *)
TypeOK ==
    /\ setup \in Setups
    /\ unspent \subseteq view /\ view \subseteq Wallet
    /\ DOMAIN calls = Calls
    /\ \A c \in Calls :
         /\ calls[c].result \in {"", "ok", "error"}
         /\ calls[c].result # "" <=> calls[c].pc = "done"
    /\ pool \subseteq {s.message : s \in signed}
    /\ \A s \in signed :
         LET m == s.message
         IN  /\ DOMAIN m.ins = DOMAIN m.tokens /\ DOMAIN m.outs = DOMAIN m.tokens
             /\ \A i \in DOMAIN m.tokens :
                  /\ Len(m.ins[i]) = Len(m.ins[1]) /\ Len(m.outs[i]) = Len(m.outs[1])
                  /\ Len(m.ins[i]) \in {SmallInputs, LargeInputs}
=============================================================================
