-------------------------- MODULE StuckWithdrawal --------------------------
(***************************************************************************)
(* HinkalWithdrawStuckUtxos with local proofs: the stuck notes of a token  *)
(* are listed once and cut into chunks; for each chunk a transaction over  *)
(* the chunk's total is built, which selects its inputs again, is given    *)
(* to the relayer, and marks its notes as spent in the instance's map of   *)
(* nullifiers. The listener, resets, the server's schedule and the chain   *)
(* go on meanwhile. One call runs at a time; it may be made again.         *)
(***************************************************************************)
EXTENDS Integers, Sequences, FiniteSets, Functions

CONSTANTS
  MaxNotes,    \* bound: blocked notes of the token, numbered as they are emitted
  Amount,      \* Amount[n]: the amount of note n
  Fees,        \* the flat fees that may be quoted for a transaction
  MaxInputs,   \* maxStuckUtxosPerTx and sixDimensionalInputCount, both 6
  MaxCalls,    \* bound: calls of HinkalWithdrawStuckUtxos
  MaxResets    \* bound: resets

Notes == 1..MaxNotes

ASSUME StuckWithdrawalAssumption ==
  /\ MaxNotes \in Nat
  /\ Amount \in [Notes -> Nat \ {0}]
  /\ Fees \subseteq Nat
  /\ {MaxInputs, MaxCalls, MaxResets} \subseteq Nat \ {0}

VARIABLES
  emitted,    \* the chain: notes that have been emitted
  spent,      \* the chain: notes whose nullifier is published
  scheduled,  \* the server: notes that a scheduled transaction is to spend
  txs,        \* transactions that have reached the relayer
  resets,     \* resets so far
  list,       \* the instance's outputs: the notes 1..list
  nullifiers, \* the instance's map, as the notes whose nullifier is in it
  pc,         \* control of the call
  view,       \* inputUtxos: the notes GetInputUtxoAndBalance has returned
  todo,       \* stuckUtxos[start:], which is sorted by Before
  total,      \* totalAmount of the chunk
  fee,        \* FlatFee quoted for the chunk
  results,    \* results, as numbers of transactions
  calls,      \* calls so far
  firstTx,    \* number of the call's first transaction (history)
  stuck,      \* what the call has listed (history)
  quiet       \* since the call read the notes to list, nothing else has touched them (history)

envVars == <<emitted, spent, scheduled>>
callVars == <<pc, view, todo, total, fee, results, calls, firstTx, stuck>>
vars == <<envVars, txs, resets, list, nullifiers, callVars, quiet>>

SumOf(S) == SumFunctionOnSet(Amount, S)

\* sort.SliceStable by decreasing amount, of notes that are listed as they were emitted; and the
\* first MaxInputs notes in that order.
Before(m, n) == Amount[m] > Amount[n] \/ (Amount[m] = Amount[n] /\ m < n)
Largest(S) == {n \in S : Cardinality({m \in S : Before(m, n)}) < MaxInputs}

Reported == {results[k] : k \in DOMAIN results}

Running == pc \notin {"idle", "done", "failed"}

Init ==
  /\ emitted \in 0..MaxNotes
  /\ spent = {}
  /\ scheduled \in SUBSET Notes
  /\ txs = <<>>
  /\ resets = 0
  /\ list = emitted
  /\ nullifiers = {}
  /\ pc = "idle"
  /\ view = {}
  /\ todo = {}
  /\ total = 0
  /\ fee = 0
  /\ results = <<>>
  /\ calls = 0
  /\ firstTx = 1
  /\ stuck = {}
  /\ quiet = TRUE

-----------------------------------------------------------------------------
(* The chain, the server and the instance *)

Emit ==
  /\ emitted < MaxNotes
  /\ emitted' = emitted + 1
  /\ UNCHANGED <<spent, scheduled, txs, resets, list, nullifiers, callVars, quiet>>

\* A scheduled transaction spends its note, or is given up.
Execute(n) ==
  /\ n \in scheduled /\ n <= emitted /\ n \notin spent
  /\ spent' = spent \cup {n}
  /\ UNCHANGED <<emitted, scheduled, txs, resets, list, nullifiers, callVars, quiet>>

Cancel(n) ==
  /\ n \in scheduled /\ n \notin spent
  /\ scheduled' = scheduled \ {n}
  /\ quiet' = FALSE
  /\ UNCHANGED <<emitted, spent, txs, resets, list, nullifiers, callVars>>

\* The relayer sends a transaction. The contract takes it if none of its notes is spent.
Land(i) ==
  /\ txs[i].status = "pending"
  /\ IF txs[i].notes \cap spent = {}
     THEN /\ spent' = spent \cup txs[i].notes
          /\ txs' = [txs EXCEPT ![i].status = "landed"]
     ELSE /\ spent' = spent
          /\ txs' = [txs EXCEPT ![i].status = "reverted"]
  /\ UNCHANGED <<emitted, scheduled, resets, list, nullifiers, callVars, quiet>>

Listen(n) ==
  /\ n \in spent \ nullifiers
  /\ nullifiers' = nullifiers \cup {n}
  /\ quiet' = (quiet /\ n \notin view \cup stuck)
  /\ UNCHANGED <<envVars, txs, resets, list, callVars>>

\* ResetMerkleTreesIfNecessary at the beginning of a call, or a reset by anyone else: the
\* instance gets what the services know, which may lag behind the chain, and loses its marks.
Reset(l, known) ==
  /\ resets < MaxResets
  /\ l \in 0..emitted /\ known \subseteq spent
  /\ resets' = resets + 1
  /\ list' = l
  /\ nullifiers' = known
  /\ txs' = [i \in DOMAIN txs |-> IF txs[i].marked /\ ~(txs[i].notes \subseteq known)
                                  THEN [txs[i] EXCEPT !.forgotten = TRUE] ELSE txs[i]]
  /\ quiet' = FALSE
  /\ UNCHANGED <<envVars, callVars>>

-----------------------------------------------------------------------------
(* The call *)

Begin ==
  /\ ~Running
  /\ calls < MaxCalls
  /\ calls' = calls + 1
  /\ pc' = "list"
  /\ results' = <<>> /\ todo' = {} /\ view' = {} /\ total' = 0 /\ fee' = 0
  /\ firstTx' = Len(txs) + 1
  /\ stuck' = {}
  /\ UNCHANGED <<envVars, txs, resets, list, nullifiers, quiet>>

\* GetInputUtxoAndBalance (WalletView has its steps): to list, and again to select.
View ==
  /\ pc \in {"list", "select"}
  /\ view' = (1..list) \ nullifiers
  /\ pc' = IF pc = "list" THEN "ask" ELSE "pick"
  /\ quiet' = (pc = "list" \/ quiet)
  /\ UNCHANGED <<envVars, txs, resets, list, nullifiers, todo, total, fee, results, calls,
                 firstTx, stuck>>

\* Mutant: the server's answer is not applied to what is withdrawn.
ListAll ==
  /\ pc = "ask"
  /\ stuck' = view \ scheduled
  /\ todo' = view
  /\ pc' = "chunk"
  /\ UNCHANGED <<envVars, txs, resets, list, nullifiers, view, total, fee, results, calls,
                 firstTx, quiet>>

\* The server says which of them are not scheduled.
ListStuck ==
  /\ pc = "ask"
  /\ stuck' = view \ scheduled
  /\ todo' = stuck'
  /\ pc' = "chunk"
  /\ UNCHANGED <<envVars, txs, resets, list, nullifiers, view, total, fee, results, calls,
                 firstTx, quiet>>

\* Mutant: a note is skipped between two chunks.
NextChunkSkips ==
  LET chunk == Largest(todo)
      rest == todo \ chunk IN
  /\ pc = "chunk" /\ todo # {}
  /\ fee' \in Fees /\ SumOf(chunk) > fee'
  /\ total' = SumOf(chunk)
  /\ todo' = {n \in rest : \E m \in rest : Before(m, n)}
  /\ pc' = "select"
  /\ UNCHANGED <<envVars, txs, resets, list, nullifiers, view, results, calls, firstTx, stuck,
                 quiet>>

\* The next notes, if they are worth more than the fee; if not, only Fail is left.
NextChunk ==
  LET chunk == Largest(todo) IN
  /\ pc = "chunk" /\ todo # {}
  /\ fee' \in Fees /\ SumOf(chunk) > fee'
  /\ total' = SumOf(chunk)
  /\ todo' = todo \ chunk
  /\ pc' = "select"
  /\ UNCHANGED <<envVars, txs, resets, list, nullifiers, view, results, calls, firstTx, stuck,
                 quiet>>

\* Mutant: the selection is not compared with the amount.
SubmitUnchecked(answered) ==
  LET notes == Largest(view \ scheduled)
      tx == [notes |-> notes, paid |-> total - fee, fee |-> fee,
             change |-> IF SumOf(notes) > total THEN SumOf(notes) - total ELSE 0,
             status |-> "pending", answered |-> answered, marked |-> FALSE, forgotten |-> FALSE]
  IN
  /\ pc = "pick"
  /\ txs' = Append(txs, tx)
  /\ pc' = IF answered THEN "mark" ELSE "failed"
  /\ UNCHANGED <<envVars, resets, list, nullifiers, view, todo, total, fee, results, calls,
                 firstTx, stuck, quiet>>

\* buildProofLocally on the largest of the notes that are stuck now (AddPaddingToUtxos), if
\* they add up to the chunk's total; the rest of them is change. The relayer takes the
\* transaction, and its answer arrives or is lost.
Submit(answered) ==
  LET notes == Largest(view \ scheduled)
      tx == [notes |-> notes, paid |-> total - fee, fee |-> fee, change |-> SumOf(notes) - total,
             status |-> "pending", answered |-> answered, marked |-> FALSE, forgotten |-> FALSE]
  IN
  /\ pc = "pick"
  /\ SumOf(notes) >= total
  /\ txs' = Append(txs, tx)
  /\ pc' = IF answered THEN "mark" ELSE "failed"
  /\ UNCHANGED <<envVars, resets, list, nullifiers, view, todo, total, fee, results, calls,
                 firstTx, stuck, quiet>>

\* Mutants: nothing is marked; everything the call has listed is marked.
MarkNothing ==
  /\ pc = "mark"
  /\ txs' = [txs EXCEPT ![Len(txs)].marked = TRUE]
  /\ results' = Append(results, Len(txs))
  /\ pc' = "chunk"
  /\ UNCHANGED <<envVars, resets, list, nullifiers, view, todo, total, fee, calls, firstTx,
                 stuck, quiet>>

MarkListed ==
  /\ pc = "mark"
  /\ nullifiers' = nullifiers \cup stuck
  /\ txs' = [txs EXCEPT ![Len(txs)].marked = TRUE]
  /\ results' = Append(results, Len(txs))
  /\ pc' = "chunk"
  /\ UNCHANGED <<envVars, resets, list, view, todo, total, fee, calls, firstTx, stuck, quiet>>

\* OnTxConfirm marks the notes in the map of this moment, and the hash joins the results.
Mark ==
  LET tx == txs[Len(txs)] IN
  /\ pc = "mark"
  /\ nullifiers' = nullifiers \cup tx.notes
  /\ txs' = [txs EXCEPT ![Len(txs)].marked = TRUE]
  /\ results' = Append(results, Len(txs))
  /\ pc' = "chunk"
  /\ UNCHANGED <<envVars, resets, list, view, todo, total, fee, calls, firstTx, stuck, quiet>>

Finish ==
  /\ pc = "chunk" /\ todo = {}
  /\ pc' = "done"
  /\ UNCHANGED <<envVars, txs, resets, list, nullifiers, view, todo, total, fee, results, calls,
                 firstTx, stuck, quiet>>

\* Mutant: the results are dropped with the error.
FailDropsResults ==
  /\ Running /\ pc # "mark"
  /\ pc' = "failed"
  /\ results' = <<>>
  /\ UNCHANGED <<envVars, txs, resets, list, nullifiers, view, todo, total, fee, calls, firstTx,
                 stuck, quiet>>

\* Some call fails, the chunk does not cover the fee, or the notes do not cover the chunk: the
\* error is returned with the results so far.
Fail ==
  /\ Running /\ pc # "mark"
  /\ pc' = "failed"
  /\ UNCHANGED <<envVars, txs, resets, list, nullifiers, view, todo, total, fee, results, calls,
                 firstTx, stuck, quiet>>

Next ==
  \/ Emit
  \/ \E n \in Notes : Execute(n) \/ Cancel(n) \/ Listen(n)
  \/ \E i \in DOMAIN txs : Land(i)
  \/ \E l \in 0..emitted, known \in SUBSET spent : Reset(l, known)
  \/ Begin \/ View \/ ListStuck \/ NextChunk \/ Mark \/ Finish \/ Fail
  \/ \E answered \in BOOLEAN : Submit(answered)

Spec == Init /\ [][Next]_vars

-----------------------------------------------------------------------------
(* Properties *)

TypeOK ==
  /\ emitted \in 0..MaxNotes /\ list \in 0..emitted
  /\ spent \subseteq 1..emitted /\ nullifiers \subseteq 1..emitted /\ scheduled \subseteq Notes
  /\ \A i \in DOMAIN txs :
       txs[i].notes \subseteq 1..emitted /\ {txs[i].paid, txs[i].change} \subseteq Nat
  /\ view \subseteq 1..emitted /\ stuck \subseteq 1..emitted
  /\ todo \subseteq stuck
  /\ \A k \in DOMAIN results : results[k] \in DOMAIN txs
  /\ resets \in 0..MaxResets /\ calls \in 0..MaxCalls /\ firstTx \in 1..(Len(txs) + 1)

\* Two transactions spend the same note only if the relayer's answer to the first was lost, or a
\* reset has replaced the map its notes were marked in: chunk after chunk and call after call,
\* the selection from the instance's map does not pick what was picked before.
SentOnce ==
  \A i, j \in DOMAIN txs :
    i < j /\ txs[i].notes \cap txs[j].notes # {} => ~txs[i].answered \/ txs[i].forgotten

\* A note that the instance takes for spent is spent, or in a transaction whose hash the caller
\* gets: notes that a call has listed and not sent stay available.
HiddenOnlyIfSent ==
  nullifiers \subseteq spent \cup UNION {txs[i].notes : i \in {k \in DOMAIN txs : txs[k].marked}}

\* What the relayer has acknowledged is reported, when the call fails half-way as well as when it
\* succeeds.
ResultsReported ==
  pc \in {"done", "failed"} => Reported = {i \in firstTx..Len(txs) : txs[i].answered}

\* The chunks are cut once, and each transaction selects its inputs anew by amount. If nothing
\* interferes both come to the same: when the call is done, its transactions together spend every
\* note it has listed, none of them twice, and leave no change.
QuietWithdrawsAll ==
  pc = "done" /\ quiet =>
    /\ UNION {txs[i].notes : i \in Reported} = stuck
    /\ \A i \in Reported : txs[i].change = 0
    /\ \A i, j \in Reported : i # j => txs[i].notes \cap txs[j].notes = {}

\* Whatever is selected again, landed twice or lost: the transactions that land pay the
\* recipient, the fee and the change out of notes that each of them alone has spent.
Landed == {i \in DOMAIN txs : txs[i].status = "landed"}

Payments == [i \in DOMAIN txs |-> txs[i].paid + txs[i].fee + txs[i].change]

PaidByNotes ==
  SumFunctionOnSet(Payments, Landed) = SumOf(UNION {txs[i].notes : i \in Landed})

-----------------------------------------------------------------------------
(* The inductive invariant *)

Tx == [notes : SUBSET Notes, paid : Nat, fee : Nat, change : Nat,
       status : {"pending", "landed", "reverted"},
       answered : BOOLEAN, marked : BOOLEAN, forgotten : BOOLEAN]

CallInv ==
  /\ txs \in Seq(Tx)
  /\ results \in Seq(Nat)
  /\ pc \in {"idle", "list", "ask", "chunk", "select", "pick", "mark", "done", "failed"}
  /\ total \in Nat /\ fee \in Nat /\ quiet \in BOOLEAN
  /\ pc \in {"select", "pick"} => total > fee
  /\ pc = "mark" => Len(txs) >= firstTx /\ txs[Len(txs)].answered /\ ~txs[Len(txs)].marked

\* A transaction the relayer has acknowledged is marked before the call goes on, and its notes
\* stay in the map until a reset forgets them: the selection after it cannot see them.
MarkInv ==
  /\ \A i \in DOMAIN txs :
       /\ txs[i].marked => txs[i].answered
       /\ txs[i].answered /\ ~txs[i].marked => pc = "mark" /\ i = Len(txs)
       /\ txs[i].marked /\ ~txs[i].forgotten => txs[i].notes \subseteq nullifiers
  /\ pc = "pick" => \A i \in DOMAIN txs :
       txs[i].answered /\ ~txs[i].forgotten => txs[i].notes \cap view = {}

ReportInv ==
  /\ Reported = {i \in firstTx..Len(txs) : txs[i].marked}
  /\ pc \in {"list", "ask"} => Reported = {}

\* While nothing interferes, the notes that can be selected are those listed and not yet sent,
\* and the chunks not yet built are what is left of them.
Visible == (1..list) \ nullifiers
Left == Visible \ scheduled
Sent == UNION {txs[i].notes : i \in Reported}

QuietInv ==
  quiet =>
    /\ pc \in {"ask", "pick"} => Visible = view
    /\ pc \in {"chunk", "select", "mark"} => Visible \subseteq view
    /\ pc \in {"chunk", "select", "pick", "mark"} =>
         /\ Left = stuck \ Sent /\ Sent \subseteq stuck
         /\ \A i \in Reported : txs[i].change = 0
         /\ \A i, j \in Reported : i # j => txs[i].notes \cap txs[j].notes = {}
    /\ pc = "chunk" => todo = Left
    /\ pc \in {"select", "pick"} => total = SumOf(Largest(Left)) /\ todo = Left \ Largest(Left)
    /\ pc = "mark" => LET tx == txs[Len(txs)] IN
         tx.notes \subseteq Left /\ todo = Left \ tx.notes /\ tx.change = 0

\* The contract takes a note once.
SpendInv ==
  /\ \A i \in DOMAIN txs : txs[i].paid + txs[i].fee + txs[i].change = SumOf(txs[i].notes)
  /\ \A i \in Landed : txs[i].notes \subseteq spent
  /\ \A i, j \in Landed : i # j => txs[i].notes \cap txs[j].notes = {}

IInv ==
  /\ TypeOK /\ CallInv /\ MarkInv /\ ReportInv /\ QuietInv /\ SpendInv
  /\ SentOnce /\ HiddenOnlyIfSent /\ QuietWithdrawsAll /\ PaidByNotes
=============================================================================
