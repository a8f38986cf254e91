-------------------------- MODULE TransactRequests --------------------------
(* What each private flow asks HinkalTransact or SolanaTransact to do: the    *)
(* changes of the caller's balances after the fee is worked in, the account   *)
(* that is paid, the note a recipient gets, the notes that must be spent.     *)
(* A flow that refuses its arguments makes no request; one whose outcome      *)
(* depends on a price service makes one of several.                           *)
(*                                                                            *)
(* An ask is a user's call: [goal, chain, tokens, amounts, to, fee, quoted,   *)
(* source, splits, speculative], all amounts positive.                        *)
EXTENDS Integers, FiniteSets, Sequences, SequencesExt

CONSTANTS Bps,              \* denominator of rates and slippages (10000)
          PrivateSendRate,  \* HinkalPrivateSendVariableRate
          SwapRate,         \* HinkalSwapVariableRate
          DefaultSlippage   \* DefaultBridgingSlippage, in parts of Bps

ASSUME RequestAssumption ==
    /\ Bps \in Nat \ {0}
    /\ {PrivateSendRate, SwapRate, DefaultSlippage} \subseteq 0 .. Bps - 1

DefaultFeeToken == "F"
NoFee == [token |-> DefaultFeeToken, flat |-> 0, rate |-> 0]

SumOf(s) == FoldSeq(LAMBDA x, y : x + y, 0, s)
Negated(s) == [i \in DOMAIN s |-> -s[i]]

-----------------------------------------------------------------------------
(* Fees.  A token is worth one of any other token.                            *)

CeilDiv(a, b) == (a + b - 1) \div b

(* What a withdrawal adds so that the contract's cut leaves the net amount.   *)
CalculateVariableFeeGrossUp(net, rate) ==
    IF net <= 0 \/ rate <= 0 THEN 0 ELSE CeilDiv(net * rate, Bps - rate)

CalculateTotalFee(amount, fee) == fee.flat + (amount * fee.rate) \div Bps

(* The variable fee in another token, or nothing when no price can be had.    *)
crossTokenVariableFee(amount, fee) == {(amount * fee.rate) \div Bps, 0}

(* The variable part moved into the flat fee.                                 *)
CalculateModifiedFeeStructure(token, amount, fee) ==
    LET totals == IF token = fee.token \/ fee.rate = 0
                  THEN {CalculateTotalFee(amount, fee)}
                  ELSE {fee.flat + v : v \in crossTokenVariableFee(amount, fee)}
    IN  {[token |-> fee.token, flat |-> total, rate |-> 0] : total \in totals}

normalizeFeeStructure(fee) ==
    IF fee.token = "" THEN [fee EXCEPT !.token = DefaultFeeToken] ELSE fee

(* Without an override the flow quotes the fee, at its own variable rate.     *)
GetFeeStructure(ask, rate) ==
    IF ask.quoted THEN [ask.fee EXCEPT !.rate = rate] ELSE ask.fee

OrPrivateSendRate(fee) ==
    IF fee.rate <= 0 THEN [fee EXCEPT !.rate = PrivateSendRate] ELSE fee

resolveWithdrawFeeStructure(ask) ==
    normalizeFeeStructure(GetFeeStructure(ask, ask.fee.rate))

resolveTransferFeeStructure(ask) ==
    CalculateModifiedFeeStructure(
      ask.tokens[1], ask.amounts[1],
      OrPrivateSendRate(normalizeFeeStructure(GetFeeStructure(ask, PrivateSendRate))))

(* On Solana the fee is in the mint that is sent.                             *)
AssertSolanaFeeTokenMatchesMint(fee, mint) == fee.token = mint

resolveSolanaTransferFeeStructure(ask) ==
    LET fee == GetFeeStructure(ask, PrivateSendRate)
    IN  IF AssertSolanaFeeTokenMatchesMint(fee, ask.tokens[1])
        THEN {OrPrivateSendRate(fee)} ELSE {}

resolveSolanaWithdrawFeeStructure(ask) ==
    LET fee == GetFeeStructure(ask, ask.fee.rate)
    IN  IF AssertSolanaFeeTokenMatchesMint(fee, ask.tokens[1])
        THEN CalculateModifiedFeeStructure(ask.tokens[1], ask.amounts[1], fee)
        ELSE {}

(* The flat fee is taken from the change of its token, or becomes one.        *)
MergeWithFeeStructure(tokens, changes, fee) ==
    LET at == SelectInSeq(tokens, LAMBDA t : t = fee.token)
    IN  IF at = 0
        THEN {[tokens |-> Append(tokens, fee.token),
               changes |-> Append(changes, -fee.flat)]}
        ELSE IF changes[at] > 0 /\ changes[at] < fee.flat THEN {}
        ELSE {[tokens |-> tokens,
               changes |-> [changes EXCEPT ![at] = @ - fee.flat]]}

(* The least a swap may bring: outputs less the slippage, inputs unchanged.   *)
BuildSwapSlippageValues(changes, slippage) ==
    [i \in DOMAIN changes |->
       IF changes[i] < 0 THEN changes[i]
       ELSE changes[i] - (changes[i] * slippage) \div Bps]

(* claimFeeParts: a claimed note pays the fee itself.                         *)
claimFeeParts(amount, fee) ==
    LET rest == amount - fee.flat
        left == rest - (rest * fee.rate) \div Bps
    IN  IF rest <= 0 \/ left <= 0 THEN {}
        ELSE {[fee |-> [fee EXCEPT !.flat = amount - left, !.rate = 0],
               left |-> left]}

-----------------------------------------------------------------------------
(* HinkalTransactParams and HinkalSolanaTransactParams.  An empty slippage is *)
(* a nil slice, an empty account "as the relay"; on Solana the fee is the     *)
(* RelayerFee and VariableRate and the account the Recipient of the program.  *)
(* keys are the UserKeys that sign: the wallet's, or those of a claim.        *)

Params(ask, tokens, changes) ==
    [chain |-> ask.chain, tokens |-> tokens, changes |-> changes,
     external |-> "", fee |-> NoFee, sender |-> "", relay |-> "",
     onChain |-> <<>>, slippage |-> <<>>, recipient |-> "", given |-> <<>>,
     splits |-> <<>>, inputs |-> <<>>, keys |-> "me", speculative |-> FALSE,
     forceEmpty |-> FALSE, submit |-> "relayer", needsRelay |-> TRUE]

HinkalWithdraw(ask) ==
    LET off  == ask.goal = "withdrawSelf"
        fee  == IF off THEN NoFee ELSE resolveWithdrawFeeStructure(ask)
        base == Negated(ask.amounts)
        Grossed(changes) ==
          [i \in DOMAIN changes |->
             IF i \notin DOMAIN base \/ changes[i] >= 0 THEN changes[i]
             ELSE changes[i]
                  - CalculateVariableFeeGrossUp(ask.amounts[i], fee.rate)]
    IN  {[Params(ask, m.tokens, Grossed(m.changes)) EXCEPT
            !.external = ask.to, !.fee = fee, !.needsRelay = ~off,
            !.submit = IF off THEN "self" ELSE "relayer",
            !.sender = IF off THEN "owner" ELSE ""] :
           m \in IF off THEN {[tokens |-> ask.tokens, changes |-> base]}
                 ELSE MergeWithFeeStructure(ask.tokens, base, fee)}

(* The recipient's note is created beside the change; the relay is paid.      *)
transferRecipientAmounts(ask, n) ==
    [i \in 1 .. n |-> IF i = 1 THEN ask.amounts[1] ELSE 0]

HinkalTransfer(ask) ==
    UNION {
      {[Params(ask, m.tokens, m.changes) EXCEPT
          !.fee = fee, !.recipient = ask.to,
          !.given = transferRecipientAmounts(ask, Len(m.tokens))] :
         m \in MergeWithFeeStructure(ask.tokens, Negated(ask.amounts), fee)} :
      fee \in resolveTransferFeeStructure(ask)}

swapOnChainCreation(n) == SubSeq(<<FALSE, TRUE, FALSE>>, 1, IF n > 3 THEN 3 ELSE n)

(* The contract creates the note of what the swap brings.                     *)
HinkalSwap(ask) ==
    LET fee == normalizeFeeStructure(GetFeeStructure(ask, SwapRate))
    IN  {[Params(ask, m.tokens, [m.changes EXCEPT ![2] = 0]) EXCEPT
            !.external = "swap", !.fee = fee,
            !.onChain = swapOnChainCreation(Len(m.tokens)),
            !.slippage = BuildSwapSlippageValues(m.changes, DefaultSlippage)] :
           m \in MergeWithFeeStructure(
                   ask.tokens, <<-ask.amounts[1], ask.amounts[2]>>, fee)}

(* A note whose key the claimer was given, spent whole with that key.         *)
HinkalClaimUtxo(ask) ==
    LET fee == normalizeFeeStructure(GetFeeStructure(ask, 0))
    IN  IF ask.tokens # <<ask.source.token>> \/ fee.token # ask.source.token
        THEN {}
        ELSE {[Params(ask, ask.tokens, <<-ask.source.amount>>) EXCEPT
                 !.fee = part.fee, !.recipient = "me", !.given = <<part.left>>,
                 !.inputs = <<<<ask.source>>>>, !.keys = "claim"] :
                part \in claimFeeParts(ask.source.amount, OrPrivateSendRate(fee))}

HinkalDeposit(ask) ==
    {[Params(ask, ask.tokens, ask.amounts) EXCEPT
        !.external = "owner", !.submit = "self", !.needsRelay = FALSE]}

HinkalDepositForOther(ask) ==
    {[Params(ask, ask.tokens, [i \in DOMAIN ask.amounts |-> 0]) EXCEPT
        !.external = "owner", !.recipient = ask.to, !.given = ask.amounts,
        !.forceEmpty = TRUE, !.submit = "self", !.needsRelay = FALSE]}

(* The deposit of a Tron deposit-and-send: one note for each recipient.       *)
tronDepositAndWithdraw(ask) ==
    {[Params(ask, ask.tokens, <<SumOf(ask.splits)>>) EXCEPT
        !.external = "owner", !.splits = ask.splits, !.forceEmpty = TRUE,
        !.submit = "proof", !.needsRelay = FALSE]}

(* The withdrawal of a deposit-and-send: one note, of a tree that may hold    *)
(* pending leaves, kept for a relayer to submit later.                        *)
prepareBatchWithdrawals(ask) ==
    {[Params(ask, ask.tokens, <<-ask.source.amount>>) EXCEPT
        !.external = ask.to, !.fee = ask.fee, !.inputs = <<<<ask.source>>>>,
        !.speculative = ask.speculative, !.submit = "proof"]}

-----------------------------------------------------------------------------
(* Solana.                                                                    *)

HinkalSolanaWithdraw(ask) ==
    IF Len(ask.tokens) # 1 THEN {}
    ELSE {[Params(ask, ask.tokens, <<-ask.amounts[1] - fee.flat>>) EXCEPT
             !.external = ask.to, !.fee = fee] :
            fee \in resolveSolanaWithdrawFeeStructure(ask)}

HinkalSolanaTransfer(ask) ==
    LET Charged(fee) == CalculateTotalFee(ask.amounts[1], fee)
    IN  IF Len(ask.tokens) # 1 THEN {}
        ELSE {[Params(ask, ask.tokens, <<-ask.amounts[1] - Charged(fee)>>) EXCEPT
                 !.external = "native", !.relay = "relay",
                 !.fee = [fee EXCEPT !.flat = Charged(fee), !.rate = 0],
                 !.recipient = ask.to, !.given = ask.amounts] :
                fee \in resolveSolanaTransferFeeStructure(ask)}

(* The minimal output is the change itself.                                   *)
HinkalSolanaSwap(ask) ==
    LET fee   == GetFeeStructure(ask, 0)
        out   == ask.amounts[2]
        least == out - (out * DefaultSlippage) \div Bps
                     - CalculateTotalFee(out, fee)
    IN  IF Len(ask.tokens) # 2 \/ fee.token # ask.tokens[2] \/ least < 0 THEN {}
        ELSE {[Params(ask, ask.tokens, <<-ask.amounts[1], least>>) EXCEPT
                 !.external = "native", !.fee = fee,
                 !.onChain = <<FALSE, TRUE>>]}

HinkalSolanaClaimUtxo(ask) ==
    LET fee == GetFeeStructure(ask, 0)
        pad == [ask.source EXCEPT !.id = 0, !.amount = 0]
    IN  IF ask.tokens # <<ask.source.token>> \/ fee.token # ask.source.token
        THEN {}
        ELSE {[Params(ask, ask.tokens, <<-ask.source.amount>>) EXCEPT
                 !.external = "native", !.relay = "relay", !.fee = part.fee,
                 !.recipient = "me", !.given = <<part.left>>,
                 !.inputs = <<<<ask.source, pad>>>>, !.keys = "claim"] :
                part \in claimFeeParts(ask.source.amount, OrPrivateSendRate(fee))}

(* The facade dispatches on the chain.  On Solana there is no withdrawal      *)
(* without a relayer: one that is asked for goes through it, for a fee.       *)
Requests(ask) ==
    CASE ask.goal \in {"withdraw", "withdrawSelf"} /\ ask.chain # "solana" ->
           HinkalWithdraw(ask)
      [] ask.goal \in {"withdraw", "withdrawSelf"} /\ ask.chain = "solana" ->
           HinkalSolanaWithdraw(ask)
      [] ask.goal = "transfer" /\ ask.chain # "solana" -> HinkalTransfer(ask)
      [] ask.goal = "transfer" /\ ask.chain = "solana" -> HinkalSolanaTransfer(ask)
      [] ask.goal = "swap" /\ ask.chain # "solana" -> HinkalSwap(ask)
      [] ask.goal = "swap" /\ ask.chain = "solana" -> HinkalSolanaSwap(ask)
      [] ask.goal = "claim" /\ ask.chain # "solana" -> HinkalClaimUtxo(ask)
      [] ask.goal = "claim" /\ ask.chain = "solana" -> HinkalSolanaClaimUtxo(ask)
      [] ask.goal = "deposit" -> HinkalDeposit(ask)
      [] ask.goal = "depositFor" -> HinkalDepositForOther(ask)
      [] ask.goal = "split" -> tronDepositAndWithdraw(ask)
      [] ask.goal = "send" -> prepareBatchWithdrawals(ask)
=============================================================================
