--------------------------- MODULE EnclaveAnswer ---------------------------
(* prepare-tx, prepare-solana-tx and the two prepare-stuck-withdraw calls:    *)
(* what the enclave may answer, and what the client checks of an answer       *)
(* before it signs.  The enclave chooses the notes and the relay, seals the   *)
(* outputs and builds the message; the client rebuilds the message from its   *)
(* own request and from the notes, the relay, the sealed outputs and the pair *)
(* the answer names, and signs only the message it rebuilt.                   *)
EXTENDS ProofInputs

CONSTANTS Strangers  \* notes of other wallets

-----------------------------------------------------------------------------
(* The checks.                                                                *)

(* collectInputCommitments: nothing is pinned by notes that are pending.      *)
collectInputCommitments(p) == IF p.speculative THEN {} ELSE Spent(p.inputs)

(* The notes of a speculative tree, rebuilt from their stealth addresses.     *)
verifyCollectSpeculativeInputCommitments(p) ==
    IF p.speculative THEN {Spent(p.inputs)} ELSE {}

(* The notes the enclave is held to, if it is: a set of at most one set.      *)
Authorised(p) ==
    IF collectInputCommitments(p) # {} THEN {collectInputCommitments(p)}
    ELSE IF p.speculative THEN verifyCollectSpeculativeInputCommitments(p)
    ELSE IF p.forceEmpty /\ p.chain # "solana" THEN {{}}
    ELSE {}

(* A note is taken for the caller's: its commitment and nullifier come from   *)
(* the caller's keys.                                                         *)
AsOwn(p, n) == [n EXCEPT !.keys = p.keys]

verifyComputeInNullifiers(p, ins) ==
    [i \in DOMAIN ins |->
       [j \in DOMAIN ins[i] |->
          IF ins[i][j].amount = 0 THEN NoNullifier ELSE AsOwn(p, ins[i][j])]]

SpendsAuthorised(p, ins) ==
    \A allowed \in Authorised(p) : {AsOwn(p, n) : n \in Spent(ins)} = allowed

SelfSlots(p) == IF p.splits = <<>> THEN 1 ELSE Len(p.splits)

Shaped(p, ins, outs) ==
    /\ Len(ins) = Len(p.tokens) /\ Len(outs) = Len(p.tokens)
    /\ \A i \in DOMAIN outs : Len(outs[i]) >= SelfSlots(p)

(* The caller's outputs have the amounts of the answer, the recipient's those *)
(* of the request.                                                            *)
verifyComputeOutCommitments(p, outs) ==
    LET Note(owner, amount) ==
          IF amount = 0 THEN NoCommitment ELSE [owner |-> owner, amount |-> amount]
    IN  [i \in DOMAIN p.tokens |->
           [j \in 1 .. SelfSlots(p) |-> Note(p.keys, outs[i][j].amount)]
           \o IF p.recipient = "" THEN <<>> ELSE <<Note(p.recipient, p.given[i])>>]

\* mutant: what comes back as change is not compared with what was asked
verifyAssertNothingLost(p, ins, outs) == TRUE
verifyAssertAmountsConserve(p, ins, outs) ==
    /\ \A j \in DOMAIN p.splits : outs[1][j].amount = p.splits[j]
    /\ \A i \in DOMAIN p.tokens :
         Total(ins[i]) + p.changes[i] = Total(SubSeq(outs[i], 1, SelfSlots(p)))

verifyComputeAmountChangesSigned(p) ==
    [i \in DOMAIN p.tokens |->
       p.changes[i] + IF p.recipient = "" THEN 0 ELSE p.given[i]]

verifyGetSlippageValues(changes) ==
    [i \in DOMAIN changes |-> IF changes[i] >= 0 THEN 0 ELSE changes[i]]

expandBoolPerToken(p) ==
    [i \in DOMAIN p.tokens |-> i \in DOMAIN p.onChain /\ p.onChain[i]]

(* A note the contract creates takes the pair of the transaction.             *)
verifyAssertTxLevelStealthPairOwnedByCaller(p, a) ==
    (\E i \in DOMAIN p.onChain : p.onChain[i]) => a.pair = p.keys

verifyGetOriginalSender(external, relay) ==
    IF relay # Zero THEN Zero ELSE IF external = "" THEN Zero ELSE external

(* The message the caller rebuilds, with the sealed outputs as they come.  On *)
(* Tron neither the pair nor the created notes are part of it.                *)
verifyCreateCallDataHash(p, a, fields) ==
    [sealed |-> a.sealed] @@ fields
    @@ IF p.chain = "tron" THEN [pair |-> "", onChain |-> <<>>]
       ELSE [pair |-> a.pair, onChain |-> expandBoolPerToken(p)]

(* The fee counts when a relay takes it, whichever relay that is.  A job of   *)
(* stuck notes keeps its fee.                                                 *)
Charged(p, a) == IF a.relay = Zero THEN [p EXCEPT !.fee = NoFee] ELSE p

verifyComputeCalldataHashAndMessage(p, a) ==
    verifyCreateCallDataHash(p, a,
      [relay    |-> a.relay,
       external |-> IF p.external = "" THEN a.relay ELSE p.external,
       fee      |-> p.fee,
       slippage |-> IF p.slippage = <<>>
                    THEN verifyGetSlippageValues(verifyComputeAmountChangesSigned(p))
                    ELSE p.slippage,
       sender   |-> IF p.sender = "" THEN verifyGetOriginalSender(p.external, a.relay)
                    ELSE p.sender])

verifyComputeSignedMessageHash(p, a, calldata) ==
    [tokens  |-> p.tokens,
     changes |-> verifyComputeAmountChangesSigned(p),
     ins     |-> verifyComputeInNullifiers(p, a.ins),
     outs    |-> verifyComputeOutCommitments(p, a.outs)] @@ calldata

verifyAssertSignedMessageHashMatches(p, a) ==
    a.message = verifyComputeSignedMessageHash(
                  p, a, verifyComputeCalldataHashAndMessage(p, a))

verifyPrepareTxResponse(p, a) ==
    /\ Shaped(p, a.ins, a.outs)
    /\ SpendsAuthorised(p, a.ins)
    /\ verifyAssertAmountsConserve(p, a.ins, a.outs)
    /\ verifyAssertTxLevelStealthPairOwnedByCaller(p, a)
    /\ verifyAssertSignedMessageHashMatches(Charged(p, a), a)

-----------------------------------------------------------------------------
(* Solana.                                                                    *)

verifyComputeExpectedDimensions(p, ins, outs) ==
    <<Len(p.tokens), Len(ins[1]), Len(outs[1])>>

verifyAssertDimensionsMatch(p, a) ==
    a.dims = verifyComputeExpectedDimensions(
               p, verifyComputeInNullifiers(p, a.ins),
               verifyComputeOutCommitments(p, a.outs))

Signer(p, a) == IF p.relay = "" THEN a.relay ELSE p.relay

verifyComputeSolanaCalldataHashAndMessage(p, a) ==
    [sealed |-> a.sealed]
    @@ GetSolanaCalldataHash(a.dims, p.external, Signer(p, a), p.fee,
                             expandBoolPerToken(p))

verifyComputeSolanaAmountChangesSigned(p) == verifyComputeAmountChangesSigned(p)

verifyComputeSignedMessageHashSolana(p, a, calldata) ==
    [tokens  |-> p.tokens,
     changes |-> verifyComputeSolanaAmountChangesSigned(p),
     ins     |-> verifyComputeInNullifiers(p, a.ins),
     outs    |-> verifyComputeOutCommitments(p, a.outs),
     pair    |-> a.pair] @@ calldata

verifyAssertSolanaSignedMessageHashMatches(p, a) ==
    a.message = verifyComputeSignedMessageHashSolana(
                  p, a, verifyComputeSolanaCalldataHashAndMessage(p, a))

(* The address of no one is no Solana account.  Whose pair it is, is not      *)
(* asked.                                                                     *)
verifyPrepareSolanaTxResponse(p, a) ==
    /\ Shaped(p, a.ins, a.outs)
    /\ SpendsAuthorised(p, a.ins)
    /\ verifyAssertAmountsConserve(p, a.ins, a.outs)
    /\ Signer(p, a) # Zero
    /\ verifyAssertDimensionsMatch(p, a)
    /\ verifyAssertSolanaSignedMessageHashMatches(p, a)

(* PrepareTxEnclaveCall, PrepareSolanaTxEnclaveCall: the request must come    *)
(* back as it was sent.                                                       *)
assertPrepareTxEchoMatches(p, a) == a.request = p

Accepts(p, a) ==
    /\ assertPrepareTxEchoMatches(p, a)
    /\ IF p.chain = "solana" THEN verifyPrepareSolanaTxResponse(p, a)
       ELSE verifyPrepareTxResponse(p, a)

-----------------------------------------------------------------------------
(* Stuck notes.  The enclave knows which there are and cuts them into jobs;   *)
(* the request names no amounts.  A job is an answer to the request that      *)
(* withdraws all of its own inputs.                                           *)

(* solanaStuckFeeStructures: on Solana a fee for each number of nullifiers.   *)
StuckFee(ask, count) ==
    IF ask.chain = "solana" THEN [ask.fee EXCEPT !.flat = @ + count - 1, !.rate = 0]
    ELSE [ask.fee EXCEPT !.rate = 0]

StuckRequest(ask, ins) ==
    [Params(ask, ask.tokens, <<-Total(ins[1])>>) EXCEPT
       !.external = ask.to,
       !.fee = StuckFee(ask, Cardinality(NotesOf(ins[1])))]

verifyStuckWithdrawJobCoversFee(p, ins) == Total(ins[1]) > p.fee.flat

(* No note in two jobs, nor twice in one.                                     *)
verifyNoRepeatedStuckNotes(jobs) ==
    LET slots == {<<k, j>> : k \in DOMAIN jobs, j \in 1 .. LargeInputs}
        used  == {s \in slots : /\ s[2] \in DOMAIN jobs[s[1]].ins[1]
                                /\ jobs[s[1]].ins[1][s[2]].amount > 0}
        Note(s) == jobs[s[1]].ins[1][s[2]].id
    IN  \A s, t \in used : Note(s) = Note(t) => s = t

verifyStuckWithdrawJobSignedMessageHash(p, job) ==
    /\ Shaped(p, job.ins, job.outs)
    /\ verifyStuckWithdrawJobCoversFee(p, job.ins)
    /\ verifyAssertAmountsConserve(p, job.ins, job.outs)
    /\ verifyAssertSignedMessageHashMatches(p, job)

verifySolanaStuckWithdrawJobSignedMessageHash(p, job) ==
    /\ Shaped(p, job.ins, job.outs)
    /\ verifyStuckWithdrawJobCoversFee(p, job.ins)
    /\ verifyAssertAmountsConserve(p, job.ins, job.outs)
    /\ Signer(p, job) # Zero
    /\ verifyAssertDimensionsMatch(p, job)
    /\ verifyAssertSolanaSignedMessageHashMatches(p, job)

(* PrepareStuckWithdrawEnclaveCall and its Solana counterpart, which has no   *)
(* fee for a job without notes.                                               *)
AcceptsJobs(ask, jobs) ==
    /\ verifyNoRepeatedStuckNotes(jobs)
    /\ \A k \in DOMAIN jobs :
         LET p == StuckRequest(ask, jobs[k].ins)
         IN  IF ask.chain = "solana"
             THEN /\ Cardinality(NotesOf(jobs[k].ins[1])) \in 1 .. LargeInputs
                  /\ verifySolanaStuckWithdrawJobSignedMessageHash(p, jobs[k])
             ELSE verifyStuckWithdrawJobSignedMessageHash(p, jobs[k])

-----------------------------------------------------------------------------
(* The enclave, which is not in this repository: an answer to the request     *)
(* read right, or with one thing wrong in it.                                 *)

RelayOf(p) == IF ~p.needsRelay THEN Zero
              ELSE IF p.relay = "" THEN "relay" ELSE p.relay

(* A Tron message has no room for the pair and for created notes.             *)
EnclaveMessage(p, relay, ins, outs, pair, dims) ==
    LET q == [p EXCEPT !.external = IF @ = "" THEN relay ELSE @]
        m == Message(q, relay, ins, outs, pair, dims)
    IN  IF p.chain = "tron" THEN [m EXCEPT !.pair = "", !.onChain = <<>>] ELSE m

Answer(request, read, ins, outs, pair, dims) ==
    [request |-> request, ins |-> ins, outs |-> outs, relay |-> RelayOf(read),
     sealed |-> outs, pair |-> pair, dims |-> dims,
     message |-> EnclaveMessage(read, RelayOf(read), ins, outs, pair, dims)]

Built(p, ins) == {<<ins, outs>> : outs \in OutputRows(p, ins)}

(* All the notes of the tokens, or only as many as are needed.                *)
Enough(p, notes) ==
    {s \in SUBSET notes : \A i \in DOMAIN p.tokens :
       LET of == {n \in s : n.token = p.tokens[i]}
       IN  /\ Total(Descending(of)) >= -p.changes[i]
           /\ \A n \in of : Total(Descending(of \ {n})) < -p.changes[i]}

NoteChoices(p, notes) ==
    IF p.inputs # <<>> THEN InputRows(p, notes)
    ELSE UNION {AddPaddingToUtxos(p, s) :
                  s \in {notes} \cup (IF p.forceEmpty THEN {} ELSE Enough(p, notes))}

Honest(request, read, notes) ==
    {Answer(request, read, b[1], b[2], read.keys, Dimensions(b[1], b[2])) :
       b \in UNION {Built(read, ins) : ins \in NoteChoices(read, notes)}}

(* One field of the request read as something else.                           *)
Misreadings(p) ==
    {[p EXCEPT !.changes[1] = @ - 1],
     [p EXCEPT !.external = "another"],
     [p EXCEPT !.fee.flat = @ + 1],
     [p EXCEPT !.onChain = <<>>],
     [p EXCEPT !.slippage = <<>>]}
    \cup (IF p.recipient = "" THEN {} ELSE {[p EXCEPT !.recipient = "another"]})
    \cup (IF p.splits = <<>> THEN {} ELSE {[p EXCEPT !.splits = Reverse(@)]})
    \cup (IF p.inputs = <<>> THEN {} ELSE {[p EXCEPT !.inputs = <<>>]})

(* The transaction given to another relay, or to none, with the fee or        *)
(* without.                                                                   *)
Relayed(p, a) ==
    {[a EXCEPT !.relay = relay,
               !.message = EnclaveMessage(q, relay, a.ins, a.outs, a.pair, a.dims)] :
       relay \in {Zero, "another"}, q \in {p, [p EXCEPT !.fee = NoFee]}}

(* An answer built right but for one thing of its own.                        *)
Slips(p, a) ==
    LET fewer == [a.outs EXCEPT ![1][1].amount = IF @ = 0 THEN 0 ELSE @ - 1]
        twisted == <<a.dims[1], a.dims[2] + 1, a.dims[3]>>
        foreign == [a.ins EXCEPT ![1][1] = CHOOSE n \in Strangers : TRUE]
    IN  {[a EXCEPT !.outs = fewer,
                   !.message.outs = BuildOutCommitments(fewer)],
         Answer(p, p, a.ins, fewer, a.pair, a.dims),
         Answer(p, p, a.ins, a.outs, "another", a.dims),
         Answer(p, p, a.ins, a.outs, a.pair, twisted),
         Answer(p, p, foreign, a.outs, a.pair, a.dims),
         [a EXCEPT !.sealed = <<>>, !.message.sealed = <<>>]}
       \cup Relayed(p, a)

Answers(p, notes) ==
    LET right == Honest(p, p, notes)
        wrong == UNION {Honest(p, read, notes) \cup Honest(read, read, notes) :
                          read \in Misreadings(p) \ {p}}
    IN  right \cup wrong \cup UNION {Slips(p, a) : a \in right}

(* Up to two jobs, the second of one note, with one note in both or one thing *)
(* wrong in the last of them; another account paid.                           *)
Job(ask, notes) ==
    LET ins == <<sortAndPadUtxos(notes, ask.tokens[1], "me")>>
        p   == StuckRequest(ask, ins)
    IN  Answer(p, p, ins, <<<<[owner |-> "me", amount |-> 0]>>>>, "me",
               Dimensions(ins, <<<<0>>>>))

StuckAnswers(ask, notes) ==
    LET mine == {n \in notes : n.token = ask.tokens[1]}
        sets == {s \in SUBSET mine : Cardinality(s) \in 1 .. LargeInputs}
        ones == {s \in sets : Cardinality(s) = 1}
        cuts == {<<>>} \cup {<<s>> : s \in sets} \cup (sets \X ones)
        Jobs(cut) == [k \in DOMAIN cut |-> Job(ask, cut[k])]
        right == {Jobs(cut) : cut \in cuts}
        Wrong(jobs) ==
          LET k   == Len(jobs)
              job == jobs[k]
          IN  {[jobs EXCEPT ![k] = x] :
                 x \in Slips(StuckRequest(ask, job.ins), job)
                       \cup {Answer(job.request, [job.request EXCEPT !.external = "another"],
                                    job.ins, job.outs, "me", job.dims)}}
    IN  right \cup UNION {Wrong(jobs) : jobs \in right \ {<<>>}}
=============================================================================
