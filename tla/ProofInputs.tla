---------------------------- MODULE ProofInputs ----------------------------
(* The inputs and outputs of a private transaction built by the SDK itself,   *)
(* and the content of the message it signs.  A note is a record [id, token,   *)
(* amount, keys], the keys being those that may spend it; a note of no amount *)
(* is padding.  A message is the record of what its hash binds: commitments,  *)
(* nullifiers and hashes are one-to-one.                                      *)
EXTENDS TransactRequests

CONSTANTS SmallInputs,  \* inputs of the small circuit (2)
          LargeInputs   \* inputs of the large one (6)

ASSUME InputsAssumption ==
    SmallInputs \in Nat \ {0} /\ LargeInputs \in Nat /\ SmallInputs < LargeInputs

Zero == "0"     \* the address of no one

-----------------------------------------------------------------------------
(* Inputs.                                                                    *)

buildZeroUtxo(token, keys) == [id |-> 0, token |-> token, amount |-> 0, keys |-> keys]

Padded(row, size, token, keys) ==
    row \o [i \in 1 .. (size - Len(row)) |-> buildZeroUtxo(token, keys)]

Amounts(row) == [i \in DOMAIN row |-> row[i].amount]
Total(row) == SumOf(Amounts(row))
NotesOf(row) == {n \in {row[i] : i \in DOMAIN row} : n.amount > 0}
Spent(rows) == UNION {NotesOf(rows[i]) : i \in DOMAIN rows}

Descending(notes) == SetToSortSeq(notes, LAMBDA a, b :
                       a.amount > b.amount \/ (a.amount = b.amount /\ a.id < b.id))

(* The notes of a token, the largest first, padded to a circuit's size.       *)
sortAndPadUtxos(notes, token, keys) ==
    LET size == IF Cardinality(notes) <= SmallInputs THEN SmallInputs
                ELSE LargeInputs
    IN  Padded(Descending(notes), size, token, keys)

GetInputUtxoAndBalancePerToken(notes, tokens, keys) ==
    [i \in DOMAIN tokens |->
       sortAndPadUtxos({n \in notes : n.token = tokens[i] /\ n.keys = keys},
                       tokens[i], keys)]

Longest(rows) == CHOOSE n \in {Len(rows[i]) : i \in DOMAIN rows} :
                   \A i \in DOMAIN rows : Len(rows[i]) <= n

(* No inputs where the deposit needs none, zero notes where the contract      *)
(* creates the note; more notes than fit are left out when the first ones     *)
(* suffice.  The result is a set: empty when they do not.                     *)
AddPaddingToUtxos(p, notes) ==
    LET all  == GetInputUtxoAndBalancePerToken(notes, p.tokens, p.keys)
        rows == [i \in DOMAIN p.tokens |->
                   IF p.forceEmpty THEN <<>>
                   ELSE IF i \in DOMAIN p.onChain /\ p.onChain[i]
                   THEN Padded(<<>>, SmallInputs, p.tokens[i], p.keys)
                   ELSE all[i]]
        Fitted(i) == IF Len(rows[i]) > LargeInputs
                     THEN SubSeq(rows[i], 1, LargeInputs)
                     ELSE Padded(rows[i], LargeInputs, p.tokens[i], p.keys)
    IN  IF Longest(rows) = SmallInputs THEN {rows}
        ELSE IF \E i \in DOMAIN rows : Len(rows[i]) > LargeInputs
                                       /\ Total(Fitted(i)) < -p.changes[i]
        THEN {}
        ELSE {[i \in DOMAIN rows |-> Fitted(i)]}

\* mutant: a pinned note is left alone in its row
padNoUtxos(p) == p.inputs

(* Notes a caller pins are padded with the keys that spend them.              *)
padInputUtxos(p) ==
    LET size == IF Longest(p.inputs) <= SmallInputs THEN SmallInputs
                ELSE LargeInputs
    IN  [i \in DOMAIN p.inputs |->
           Padded(p.inputs[i], size, p.inputs[i][1].token, p.keys)]

(* On Solana nothing is padded.                                               *)
resolveSolanaInputUtxos(p, notes) ==
    IF p.inputs = <<>> THEN AddPaddingToUtxos(p, notes) ELSE {p.inputs}

InputRows(p, notes) ==
    IF p.chain = "solana" THEN resolveSolanaInputUtxos(p, notes)
    ELSE IF p.inputs = <<>> THEN AddPaddingToUtxos(p, notes) ELSE {padInputUtxos(p)}

-----------------------------------------------------------------------------
(* Outputs: the change, split where the caller says how, and the recipient's. *)

OutputUtxoProcessing(p, row, i) ==
    LET left == Total(row) + p.changes[i]
        own  == [owner |-> p.keys, amount |-> IF left > 0 THEN left ELSE 0]
    IN  IF p.changes[i] < 0 /\ left < 0 THEN {}
        ELSE IF p.recipient = "" THEN {<<own>>}
        ELSE {<<own, [owner |-> p.recipient, amount |-> p.given[i]]>>}

BuildOutputUtxos(p, ins) ==
    IF \E i \in DOMAIN ins : OutputUtxoProcessing(p, ins[i], i) = {} THEN {}
    ELSE {[i \in DOMAIN ins |-> CHOOSE row \in OutputUtxoProcessing(p, ins[i], i) : TRUE]}

splitSelfOutput(p, outs) ==
    IF Len(outs) # 1 \/ Len(outs[1]) # 1 \/ SumOf(p.splits) # outs[1][1].amount
    THEN {}
    ELSE {<<[i \in DOMAIN p.splits |-> [owner |-> p.keys, amount |-> p.splits[i]]]>>}

OutputRows(p, ins) ==
    IF p.splits = <<>> THEN BuildOutputUtxos(p, ins)
    ELSE UNION {splitSelfOutput(p, outs) : outs \in BuildOutputUtxos(p, ins)}

-----------------------------------------------------------------------------
(* The message.                                                               *)

CalcAmountChanges(ins, outs) ==
    [i \in DOMAIN ins |-> Total(outs[i]) - Total(ins[i])]

NoNullifier == [id |-> 0, token |-> "", amount |-> 0, keys |-> ""]
NoCommitment == [owner |-> "", amount |-> 0]

BuildInNullifiersByAmount(ins) ==
    [i \in DOMAIN ins |->
       [j \in DOMAIN ins[i] |->
          IF ins[i][j].amount = 0 THEN NoNullifier ELSE ins[i][j]]]

BuildOutCommitments(outs) ==
    [i \in DOMAIN outs |->
       [j \in DOMAIN outs[i] |->
          IF outs[i][j].amount = 0 THEN NoCommitment ELSE outs[i][j]]]

GetSlippageValues(changes) ==
    [i \in DOMAIN changes |-> IF changes[i] >= 0 THEN 0 ELSE changes[i]]

(* Without a relay the account that is paid counts as the sender.             *)
GetOriginalSender(external, relay) == IF relay = Zero THEN external ELSE Zero

(* What the call data of a transaction binds.  pair is the owner of the        *)
(* stealth pair of the transaction, with which the contract creates a note.   *)
CreateCallDataHash(relay, external, slippage, onChain, fee, sender, pair) ==
    [relay    |-> relay,
     external |-> IF external = "" THEN Zero ELSE external,
     slippage |-> slippage,
     onChain  |-> onChain,
     fee      |-> fee,
     sender   |-> IF sender = "" THEN GetOriginalSender(external, relay) ELSE sender,
     pair     |-> pair]

ComputeSignedMessageHashEvm(tokens, changes, ins, outs, calldata) ==
    [tokens |-> tokens, changes |-> changes, ins |-> ins, outs |-> outs] @@ calldata

OnChainCreation(p, ins) ==
    IF p.onChain = <<>> THEN [i \in DOMAIN ins |-> FALSE] ELSE p.onChain

ConstructZkProof(p, relay, ins, outs, pair) ==
    LET changes == CalcAmountChanges(ins, outs)
    IN  ComputeSignedMessageHashEvm(
          p.tokens, changes, BuildInNullifiersByAmount(ins), BuildOutCommitments(outs),
          CreateCallDataHash(
            relay, p.external,
            IF p.slippage = <<>> THEN GetSlippageValues(changes) ELSE p.slippage,
            OnChainCreation(p, ins), p.fee, p.sender, pair))

(* On Solana the signer stands for relay and sender, the minimal output is    *)
(* the change, and the dimensions are bound instead of the vector of signals. *)
Dimensions(ins, outs) == <<Len(ins), Len(ins[1]), Len(outs[1])>>

GetSolanaCalldataHash(dims, recipient, signer, fee, onChain) ==
    [dims |-> dims, external |-> recipient, relay |-> signer, fee |-> fee,
     onChain |-> onChain]

ComputeSignedMessageHashSolana(tokens, changes, ins, outs, pair, calldata) ==
    [tokens |-> tokens, changes |-> changes, ins |-> ins, outs |-> outs,
     pair |-> pair] @@ calldata

ConstructSolanaZkProof(p, relay, ins, outs, pair, dims) ==
    ComputeSignedMessageHashSolana(
      p.tokens, CalcAmountChanges(ins, outs), BuildInNullifiersByAmount(ins),
      BuildOutCommitments(outs), pair,
      GetSolanaCalldataHash(dims, p.external, relay, p.fee, OnChainCreation(p, ins)))

(* The ciphertexts of the outputs, by which their owners find them, stand in  *)
(* the message as the outputs they open to.                                   *)
Message(p, relay, ins, outs, pair, dims) ==
    [sealed |-> outs]
    @@ IF p.chain = "solana"
       THEN ConstructSolanaZkProof(p, relay, ins, outs, pair, dims)
       ELSE ConstructZkProof(p, relay, ins, outs, pair)

(* BuildCommitmentValidationData: every input answers to the signer's keys.   *)
validateUtxoStealth(p, ins) ==
    \A i \in DOMAIN ins : \A j \in DOMAIN ins[i] : ins[i][j].keys = p.keys
=============================================================================
