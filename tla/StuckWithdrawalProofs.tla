----------------------- MODULE StuckWithdrawalProofs -----------------------
(***************************************************************************)
(* Proofs about StuckWithdrawal, for any number of notes, calls and        *)
(* resets, any amounts and fees, and any limit on the inputs.              *)
(***************************************************************************)
EXTENDS StuckWithdrawal, SumTheorems

-----------------------------------------------------------------------------
(* Sums of notes *)

\* There are finitely many notes, and their amounts are numbers.
LEMMA NotesFinite ==
  ASSUME NEW S \in SUBSET Notes
  PROVE  IsFiniteSet(S) /\ \A n \in S : Amount[n] \in Nat
<1>1. MaxNotes \in Nat /\ Amount \in [Notes -> Nat \ {0}]
  BY StuckWithdrawalAssumption
<1>2. IsFiniteSet(Notes)
  BY <1>1, FS_Interval DEF Notes
<1> QED
  BY <1>1, <1>2, FS_Subset

\* What notes are worth is a number.
LEMMA SumOfNat ==
  ASSUME NEW S \in SUBSET Notes
  PROVE  SumOf(S) \in Nat
BY NotesFinite, SumNat DEF SumOf

-----------------------------------------------------------------------------
(* What the steps do to the transactions *)

\* Replacing one transaction of the sequence.
LEMMA ReplaceTx ==
  ASSUME CallInv, NEW i \in DOMAIN txs, NEW new \in Tx, txs' = [txs EXCEPT ![i] = new]
  PROVE  /\ txs' \in Seq(Tx) /\ Len(txs') = Len(txs) /\ DOMAIN txs' = DOMAIN txs
         /\ txs'[i] = new /\ \A j \in DOMAIN txs : j # i => txs'[j] = txs[j]
BY DEF CallInv

\* The relayer's step changes one transaction's status.
LEMMA LandTxs ==
  ASSUME CallInv, NEW i \in DOMAIN txs, Land(i)
  PROVE  /\ txs' \in Seq(Tx) /\ Len(txs') = Len(txs) /\ DOMAIN txs' = DOMAIN txs
         /\ \A j \in DOMAIN txs :
              /\ txs'[j].notes = txs[j].notes /\ txs'[j].paid = txs[j].paid
              /\ txs'[j].fee = txs[j].fee /\ txs'[j].change = txs[j].change
              /\ txs'[j].answered = txs[j].answered /\ txs'[j].marked = txs[j].marked
              /\ txs'[j].forgotten = txs[j].forgotten
              /\ txs'[j].status = IF j # i THEN txs[j].status
                                  ELSE IF txs[i].notes \cap spent = {} THEN "landed" ELSE "reverted"
<1> DEFINE status == IF txs[i].notes \cap spent = {} THEN "landed" ELSE "reverted"
           new == [txs[i] EXCEPT !.status = status]
<1>1. txs[i] \in Tx
  BY DEF CallInv
<1>2. /\ new \in Tx /\ new.status = status
      /\ new.notes = txs[i].notes /\ new.paid = txs[i].paid /\ new.fee = txs[i].fee
      /\ new.change = txs[i].change /\ new.answered = txs[i].answered
      /\ new.marked = txs[i].marked /\ new.forgotten = txs[i].forgotten
  BY <1>1 DEF Tx
<1>3. txs' = [txs EXCEPT ![i] = new]
  BY DEF Land
<1> QED
  <2> HIDE DEF new
  <2> QED
    BY <1>2, <1>3, ReplaceTx

\* A reset changes only what is forgotten.
LEMMA ResetTxs ==
  ASSUME CallInv, NEW l, NEW known, Reset(l, known)
  PROVE  /\ txs' \in Seq(Tx) /\ Len(txs') = Len(txs) /\ DOMAIN txs' = DOMAIN txs
         /\ \A j \in DOMAIN txs :
              /\ txs'[j].notes = txs[j].notes /\ txs'[j].paid = txs[j].paid
              /\ txs'[j].fee = txs[j].fee /\ txs'[j].change = txs[j].change
              /\ txs'[j].answered = txs[j].answered /\ txs'[j].marked = txs[j].marked
              /\ txs'[j].status = txs[j].status
              /\ txs[j].forgotten => txs'[j].forgotten
              /\ txs[j].marked /\ ~txs'[j].forgotten => txs[j].notes \subseteq known
<1>1. txs \in Seq(Tx) /\ DOMAIN txs = 1..Len(txs) /\ Len(txs) \in Nat
  BY DEF CallInv
<1>2. txs' = [j \in DOMAIN txs |-> IF txs[j].marked /\ ~(txs[j].notes \subseteq known)
                                   THEN [txs[j] EXCEPT !.forgotten = TRUE] ELSE txs[j]]
  BY DEF Reset
<1>3. ASSUME NEW j \in DOMAIN txs
      PROVE  /\ txs'[j] \in Tx
             /\ txs'[j].notes = txs[j].notes /\ txs'[j].paid = txs[j].paid
             /\ txs'[j].fee = txs[j].fee /\ txs'[j].change = txs[j].change
             /\ txs'[j].answered = txs[j].answered /\ txs'[j].marked = txs[j].marked
             /\ txs'[j].status = txs[j].status
             /\ txs[j].forgotten => txs'[j].forgotten
             /\ txs[j].marked /\ ~txs'[j].forgotten => txs[j].notes \subseteq known
  <2>1. txs[j] \in Tx
    BY <1>1
  <2>2. CASE txs[j].marked /\ ~(txs[j].notes \subseteq known)
    <3>1. txs'[j] = [txs[j] EXCEPT !.forgotten = TRUE]
      BY <1>2, <2>2
    <3> QED
      BY <2>1, <3>1 DEF Tx
  <2>3. CASE ~(txs[j].marked /\ ~(txs[j].notes \subseteq known))
    <3>1. txs'[j] = txs[j]
      BY <1>2, <2>3
    <3> QED
      BY <2>1, <2>3, <3>1
  <2> QED
    BY <2>2, <2>3
<1>4. DOMAIN txs' = DOMAIN txs
  BY <1>2
<1>5. txs' \in [1..Len(txs) -> Tx]
  BY <1>1, <1>2, <1>3
<1>6. txs' \in Seq(Tx) /\ Len(txs') = Len(txs)
  BY <1>1, <1>5
<1> QED
  BY <1>3, <1>4, <1>6

\* Marking changes the last transaction's mark.
LEMMA MarkTxs ==
  ASSUME CallInv, TypeOK, Mark
  PROVE  /\ txs' \in Seq(Tx) /\ Len(txs') = Len(txs) /\ DOMAIN txs' = DOMAIN txs
         /\ Len(txs) \in DOMAIN txs
         /\ \A j \in DOMAIN txs :
              /\ txs'[j].notes = txs[j].notes /\ txs'[j].paid = txs[j].paid
              /\ txs'[j].fee = txs[j].fee /\ txs'[j].change = txs[j].change
              /\ txs'[j].answered = txs[j].answered /\ txs'[j].forgotten = txs[j].forgotten
              /\ txs'[j].status = txs[j].status
              /\ txs'[j].marked = (txs[j].marked \/ j = Len(txs))
<1> DEFINE i == Len(txs)
           new == [txs[i] EXCEPT !.marked = TRUE]
<1>1. txs \in Seq(Tx)
  BY DEF CallInv
<1>2. i \in DOMAIN txs
  BY <1>1 DEF CallInv, TypeOK, Mark
<1>3. txs[i] \in Tx
  BY <1>1, <1>2
<1>4. /\ new \in Tx /\ new.marked /\ new.status = txs[i].status
      /\ new.notes = txs[i].notes /\ new.paid = txs[i].paid /\ new.fee = txs[i].fee
      /\ new.change = txs[i].change /\ new.answered = txs[i].answered
      /\ new.forgotten = txs[i].forgotten
  BY <1>3 DEF Tx
<1>5. txs' = [txs EXCEPT ![i] = new]
  BY DEF Mark
<1>6. ASSUME NEW j \in DOMAIN txs PROVE txs[j].marked \in BOOLEAN
  <2>1. txs[j] \in Tx
    BY <1>1
  <2> QED
    BY <2>1 DEF Tx
<1> QED
  <2> HIDE DEF new, i
  <2>1. /\ txs' \in Seq(Tx) /\ Len(txs') = Len(txs) /\ DOMAIN txs' = DOMAIN txs
        /\ txs'[i] = new /\ \A j \in DOMAIN txs : j # i => txs'[j] = txs[j]
    BY <1>2, <1>4, <1>5, ReplaceTx
  <2> QED
    BY <1>2, <1>4, <1>6, <2>1 DEF i

\* A submission adds a transaction of the largest notes of the selection.
LEMMA SubmitTxs ==
  ASSUME CallInv, TypeOK, NEW answered \in BOOLEAN, Submit(answered)
  PROVE  LET notes == Largest(view \ scheduled)
             tx == txs'[Len(txs) + 1]
         IN  /\ txs' \in Seq(Tx) /\ Len(txs') = Len(txs) + 1
             /\ DOMAIN txs' = DOMAIN txs \cup {Len(txs) + 1} /\ Len(txs) + 1 \notin DOMAIN txs
             /\ \A j \in DOMAIN txs : txs'[j] = txs[j]
             /\ notes \subseteq view \ scheduled
             /\ tx.notes = notes /\ tx.paid = total - fee /\ tx.fee = fee
             /\ tx.change = SumOf(notes) - total /\ tx.status = "pending"
             /\ tx.answered = answered /\ ~tx.marked /\ ~tx.forgotten
<1> DEFINE notes == Largest(view \ scheduled)
           tx == [notes |-> notes, paid |-> total - fee, fee |-> fee,
                  change |-> SumOf(notes) - total, status |-> "pending",
                  answered |-> answered, marked |-> FALSE, forgotten |-> FALSE]
<1>0. MaxNotes \in Nat /\ Amount \in [Notes -> Nat \ {0}]
  BY StuckWithdrawalAssumption
<1>1. notes \subseteq view \ scheduled
  BY DEF Largest
<1>2. notes \in SUBSET Notes
  <2>1. view \subseteq Notes
    BY <1>0 DEF TypeOK, Notes
  <2> QED
    BY <1>1, <2>1
<1>4. SumOf(notes) >= total /\ txs' = Append(txs, tx) /\ total > fee /\ total \in Nat /\ fee \in Nat
  BY DEF Submit, CallInv
<1> HIDE DEF notes
<1>3. SumOf(notes) \in Nat
  BY <1>2, SumOfNat
<1>5. tx \in Tx
  <2>1. total - fee \in Nat /\ SumOf(notes) - total \in Nat
    BY <1>3, <1>4
  <2> QED
    BY <1>2, <1>4, <2>1 DEF Tx
<1>6. txs \in Seq(Tx)
  BY DEF CallInv
<1>7. /\ txs' \in Seq(Tx) /\ Len(txs') = Len(txs) + 1 /\ txs'[Len(txs) + 1] = tx
      /\ DOMAIN txs' = DOMAIN txs \cup {Len(txs) + 1} /\ Len(txs) + 1 \notin DOMAIN txs
      /\ \A j \in DOMAIN txs : txs'[j] = txs[j]
  <2> HIDE DEF tx
  <2> QED
    BY <1>4, <1>5, <1>6
<1>8. /\ tx.notes = notes /\ tx.paid = total - fee /\ tx.fee = fee
      /\ tx.change = SumOf(notes) - total /\ tx.status = "pending"
      /\ tx.answered = answered /\ ~tx.marked /\ ~tx.forgotten
  OBVIOUS
<1> QED
  <2> HIDE DEF tx
  <2> QED
    BY <1>1, <1>7, <1>8 DEF notes

-----------------------------------------------------------------------------
(* The parts of the inductive invariant, one by one *)

\* Before the first call, the invariant holds.
LEMMA IInvInit == Init => IInv
<1> SUFFICES ASSUME Init PROVE IInv
  OBVIOUS
<1>0. /\ MaxNotes \in Nat /\ MaxResets \in Nat /\ MaxCalls \in Nat
      /\ txs = <<>> /\ results = <<>> /\ DOMAIN txs = {} /\ Len(txs) = 0 /\ pc = "idle"
  BY StuckWithdrawalAssumption DEF Init
<1>1. TypeOK
  BY <1>0 DEF Init, TypeOK, Notes
<1>2. CallInv
  BY <1>0 DEF Init, CallInv
<1>3. MarkInv /\ SentOnce
  BY <1>0 DEF MarkInv, SentOnce
<1>4. Reported = {}
  BY <1>0 DEF Reported
<1>5. ReportInv
  BY <1>0, <1>4 DEF Init, ReportInv
<1>6. QuietInv /\ QuietWithdrawsAll
  BY <1>0 DEF QuietInv, QuietWithdrawsAll
<1>7. Landed = {}
  BY <1>0 DEF Landed
<1>8. SpendInv
  BY <1>0, <1>7 DEF SpendInv
<1>9. HiddenOnlyIfSent
  BY DEF Init, HiddenOnlyIfSent
<1>10. PaidByNotes
  <2>1. UNION {txs[i].notes : i \in Landed} = {}
    BY <1>7
  <2> QED
    BY <1>7, <2>1, SumEmpty DEF PaidByNotes, SumOf
<1> QED
  BY <1>1, <1>2, <1>3, <1>5, <1>6, <1>8, <1>9, <1>10 DEF IInv

\* No step leaves the types.
LEMMA TypeStep == TypeOK /\ CallInv /\ [Next]_vars => TypeOK' /\ CallInv'
<1> SUFFICES ASSUME TypeOK, CallInv, [Next]_vars PROVE TypeOK' /\ CallInv'
  OBVIOUS
<1> USE DEF envVars, callVars
<1>0. /\ MaxNotes \in Nat /\ MaxResets \in Nat /\ MaxCalls \in Nat /\ Fees \subseteq Nat
      /\ emitted \in 0..MaxNotes /\ emitted <= MaxNotes /\ Len(txs) \in Nat
      /\ txs \in Seq(Tx) /\ DOMAIN txs = 1..Len(txs)
  BY StuckWithdrawalAssumption DEF TypeOK, CallInv
<1>1. CASE Emit
  BY <1>0, <1>1 DEF Emit, TypeOK, CallInv
<1>2. ASSUME NEW n \in Notes, Execute(n) PROVE TypeOK' /\ CallInv'
  BY <1>0, <1>2 DEF Execute, TypeOK, CallInv, Notes
<1>3. ASSUME NEW n \in Notes, Cancel(n) PROVE TypeOK' /\ CallInv'
  BY <1>0, <1>3 DEF Cancel, TypeOK, CallInv
<1>4. ASSUME NEW n \in Notes, Listen(n) PROVE TypeOK' /\ CallInv'
  BY <1>0, <1>4 DEF Listen, TypeOK, CallInv
<1>5. ASSUME NEW i \in DOMAIN txs, Land(i) PROVE TypeOK' /\ CallInv'
  <2>1. /\ txs' \in Seq(Tx) /\ Len(txs') = Len(txs) /\ DOMAIN txs' = DOMAIN txs
        /\ \A j \in DOMAIN txs :
             /\ txs'[j].notes = txs[j].notes /\ txs'[j].paid = txs[j].paid
             /\ txs'[j].change = txs[j].change
             /\ txs'[j].answered = txs[j].answered /\ txs'[j].marked = txs[j].marked
    BY <1>5, LandTxs
  <2>2. spent' \subseteq 1..emitted
    BY <1>5 DEF Land, TypeOK
  <2>3. TypeOK'
    BY <1>5, <2>1, <2>2, SMTT(30) DEF Land, TypeOK
  <2>4. pc = "mark" => Len(txs) \in DOMAIN txs
    BY <1>0 DEF TypeOK, CallInv
  <2> QED
    BY <1>5, <2>1, <2>3, <2>4 DEF Land, CallInv
<1>6. ASSUME NEW l \in 0..emitted, NEW known \in SUBSET spent, Reset(l, known)
      PROVE  TypeOK' /\ CallInv'
  <2>1. /\ txs' \in Seq(Tx) /\ Len(txs') = Len(txs) /\ DOMAIN txs' = DOMAIN txs
        /\ \A j \in DOMAIN txs :
             /\ txs'[j].notes = txs[j].notes /\ txs'[j].paid = txs[j].paid
             /\ txs'[j].change = txs[j].change
             /\ txs'[j].answered = txs[j].answered /\ txs'[j].marked = txs[j].marked
    BY <1>6, ResetTxs
  <2>2. resets' \in 0..MaxResets /\ list' \in 0..emitted /\ nullifiers' \subseteq 1..emitted
    BY <1>0, <1>6 DEF Reset, TypeOK
  <2>3. TypeOK'
    BY <1>6, <2>1, <2>2 DEF Reset, TypeOK
  <2>4. pc = "mark" => Len(txs) \in DOMAIN txs
    BY <1>0 DEF TypeOK, CallInv
  <2> QED
    BY <1>6, <2>1, <2>3, <2>4 DEF Reset, CallInv
<1>7. CASE Begin
  BY <1>0, <1>7 DEF Begin, TypeOK, CallInv
<1>8. CASE View
  <2>1. view' \subseteq 1..emitted
    BY <1>0, <1>8 DEF View, TypeOK
  <2>2. TypeOK'
    BY <1>8, <2>1 DEF View, TypeOK
  <2> QED
    BY <1>8, <2>2 DEF View, CallInv
<1>9. CASE ListStuck
  BY <1>0, <1>9 DEF ListStuck, TypeOK, CallInv
<1>10. CASE NextChunk
  <2>1. fee' \in Nat /\ total' > fee' /\ todo' \subseteq todo
    BY <1>0, <1>10 DEF NextChunk
  <2>2. total' \in Nat
    <3>1. Largest(todo) \subseteq todo
      BY DEF Largest
    <3>2. Largest(todo) \in SUBSET Notes
      <4>1. stuck \subseteq Notes
        BY <1>0 DEF TypeOK, Notes
      <4> QED
        BY <3>1, <4>1 DEF TypeOK
    <3> QED
      BY <1>10, <3>2, SumOfNat DEF NextChunk
  <2>3. TypeOK'
    BY <1>10, <2>1 DEF NextChunk, TypeOK
  <2> QED
    BY <1>10, <2>1, <2>2, <2>3 DEF NextChunk, CallInv
<1>11. CASE Mark
  <2>1. /\ txs' \in Seq(Tx) /\ Len(txs') = Len(txs) /\ DOMAIN txs' = DOMAIN txs
        /\ Len(txs) \in DOMAIN txs
        /\ \A j \in DOMAIN txs :
             /\ txs'[j].notes = txs[j].notes /\ txs'[j].paid = txs[j].paid
             /\ txs'[j].change = txs[j].change
    BY <1>11, MarkTxs
  <2>2. results' \in Seq(Nat) /\ \A k \in DOMAIN results' : results'[k] \in DOMAIN txs
    <3>1. /\ results \in Seq(Nat) /\ Len(txs) \in Nat /\ results' = Append(results, Len(txs))
          /\ \A k \in DOMAIN results : results[k] \in DOMAIN txs
      BY <1>0, <1>11 DEF Mark, TypeOK, CallInv
    <3> QED
      BY <2>1, <3>1
  <2>3. nullifiers' \subseteq 1..emitted
    BY <1>11, <2>1 DEF Mark, TypeOK
  <2>4. TypeOK'
    BY <1>11, <2>1, <2>2, <2>3, SMTT(30) DEF Mark, TypeOK
  <2> QED
    BY <1>11, <2>1, <2>2, <2>4 DEF Mark, CallInv
<1>12. CASE Finish
  BY <1>12 DEF Finish, TypeOK, CallInv
<1>13. CASE Fail
  BY <1>13 DEF Fail, TypeOK, CallInv
<1>14. ASSUME NEW answered \in BOOLEAN, Submit(answered) PROVE TypeOK' /\ CallInv'
  <2> DEFINE new == Len(txs) + 1
  <2>1. /\ txs' \in Seq(Tx) /\ Len(txs') = new
        /\ DOMAIN txs' = DOMAIN txs \cup {new} /\ new \notin DOMAIN txs
        /\ \A j \in DOMAIN txs : txs'[j] = txs[j]
        /\ txs'[new].notes \subseteq view
        /\ txs'[new].answered = answered /\ ~txs'[new].marked
    BY <1>14, SubmitTxs
  <2>2. txs'[new] \in Tx
    BY <2>1
  <2>3. {txs'[new].paid, txs'[new].change} \subseteq Nat
    BY <2>2 DEF Tx
  <2>4. /\ pc = "pick" /\ total > fee /\ pc' = IF answered THEN "mark" ELSE "failed"
        /\ UNCHANGED <<emitted, spent, scheduled, resets, list, nullifiers, view, todo, total, fee,
                       results, calls, firstTx, stuck, quiet>>
    BY <1>14 DEF Submit, CallInv
  <2>5. \A i \in DOMAIN txs' :
          txs'[i].notes \subseteq 1..emitted /\ {txs'[i].paid, txs'[i].change} \subseteq Nat
    <3>1. txs'[new].notes \subseteq 1..emitted
      BY <2>1 DEF TypeOK
    <3> QED
      BY <2>1, <2>3, <3>1 DEF TypeOK
  <2>6. firstTx \in 1..new /\ firstTx \in 1..(new + 1)
    BY <1>0 DEF TypeOK
  <2> HIDE DEF new
  <2>7. TypeOK'
    BY <2>1, <2>4, <2>5, <2>6 DEF TypeOK
  <2> QED
    BY <2>1, <2>4, <2>6, <2>7 DEF CallInv
<1>15. CASE UNCHANGED vars
  BY <1>15 DEF vars, TypeOK, CallInv
<1> QED
  BY <1>1, <1>2, <1>3, <1>4, <1>5, <1>6, <1>7, <1>8, <1>9, <1>10, <1>11, <1>12, <1>13, <1>14, <1>15
     DEF Next

\* The selection sees no note that is already sent, acknowledged and remembered.
LEMMA MarkStep == TypeOK /\ CallInv /\ MarkInv /\ SentOnce /\ [Next]_vars => MarkInv' /\ SentOnce'
<1> SUFFICES ASSUME TypeOK, CallInv, MarkInv, SentOnce, [Next]_vars PROVE MarkInv' /\ SentOnce'
  OBVIOUS
<1> USE DEF envVars, callVars
<1>0. Len(txs) \in Nat /\ DOMAIN txs = 1..Len(txs)
  BY DEF CallInv
<1>1. ASSUME UNCHANGED <<txs, nullifiers, pc, view>> PROVE MarkInv' /\ SentOnce'
  BY <1>1 DEF MarkInv, SentOnce
<1>2. CASE Emit
  BY <1>1, <1>2 DEF Emit
<1>3. ASSUME NEW n \in Notes, Execute(n) \/ Cancel(n) PROVE MarkInv' /\ SentOnce'
  BY <1>1, <1>3 DEF Execute, Cancel
<1>4. ASSUME NEW n \in Notes, Listen(n) PROVE MarkInv' /\ SentOnce'
  BY <1>4 DEF Listen, MarkInv, SentOnce
<1>5. ASSUME NEW i \in DOMAIN txs, Land(i) PROVE MarkInv' /\ SentOnce'
  <2>1. /\ Len(txs') = Len(txs) /\ DOMAIN txs' = DOMAIN txs
        /\ \A j \in DOMAIN txs :
             /\ txs'[j].notes = txs[j].notes /\ txs'[j].answered = txs[j].answered
             /\ txs'[j].marked = txs[j].marked /\ txs'[j].forgotten = txs[j].forgotten
    BY <1>5, LandTxs
  <2>2. UNCHANGED <<nullifiers, pc, view>>
    BY <1>5 DEF Land
  <2> QED
    BY <2>1, <2>2 DEF MarkInv, SentOnce
<1>6. ASSUME NEW l \in 0..emitted, NEW known \in SUBSET spent, Reset(l, known)
      PROVE  MarkInv' /\ SentOnce'
  <2>1. /\ Len(txs') = Len(txs) /\ DOMAIN txs' = DOMAIN txs
        /\ \A j \in DOMAIN txs :
             /\ txs'[j].notes = txs[j].notes /\ txs'[j].answered = txs[j].answered
             /\ txs'[j].marked = txs[j].marked
             /\ txs[j].forgotten => txs'[j].forgotten
             /\ txs[j].marked /\ ~txs'[j].forgotten => txs[j].notes \subseteq known
    BY <1>6, ResetTxs
  <2>2. nullifiers' = known /\ UNCHANGED <<pc, view>>
    BY <1>6 DEF Reset
  <2> QED
    BY <2>1, <2>2 DEF MarkInv, SentOnce
<1>7. CASE Begin
  BY <1>7 DEF Begin, Running, MarkInv, SentOnce
<1>8. CASE View
  <2>1. pc' = "pick" => \A i \in DOMAIN txs :
          txs[i].answered /\ ~txs[i].forgotten => txs[i].notes \cap view' = {}
    BY <1>8 DEF View, MarkInv
  <2>2. UNCHANGED <<txs, nullifiers>> /\ pc # "mark"
    BY <1>8 DEF View
  <2> QED
    BY <2>1, <2>2 DEF MarkInv, SentOnce
<1>9. CASE ListStuck
  BY <1>9 DEF ListStuck, MarkInv, SentOnce
<1>10. CASE NextChunk
  BY <1>10 DEF NextChunk, MarkInv, SentOnce
<1>11. CASE Mark
  <2>1. /\ Len(txs') = Len(txs) /\ DOMAIN txs' = DOMAIN txs /\ Len(txs) \in DOMAIN txs
        /\ \A j \in DOMAIN txs :
             /\ txs'[j].notes = txs[j].notes /\ txs'[j].answered = txs[j].answered
             /\ txs'[j].forgotten = txs[j].forgotten
             /\ txs'[j].marked = (txs[j].marked \/ j = Len(txs))
    BY <1>11, MarkTxs
  <2>2. nullifiers' = nullifiers \cup txs[Len(txs)].notes /\ pc' = "chunk" /\ txs[Len(txs)].answered
    BY <1>11 DEF Mark, CallInv
  <2> QED
    BY <2>1, <2>2 DEF MarkInv, SentOnce
<1>12. CASE Finish
  BY <1>12 DEF Finish, MarkInv, SentOnce
<1>13. CASE Fail
  BY <1>13 DEF Fail, MarkInv, SentOnce
<1>14. ASSUME NEW answered \in BOOLEAN, Submit(answered) PROVE MarkInv' /\ SentOnce'
  <2> DEFINE new == Len(txs) + 1
  <2>1. /\ Len(txs') = new /\ DOMAIN txs' = DOMAIN txs \cup {new} /\ new \notin DOMAIN txs
        /\ \A j \in DOMAIN txs : txs'[j] = txs[j]
        /\ txs'[new].notes \subseteq view
        /\ txs'[new].answered = answered /\ ~txs'[new].marked
    BY <1>14, SubmitTxs
  <2>2. /\ pc = "pick" /\ pc' = IF answered THEN "mark" ELSE "failed"
        /\ UNCHANGED <<nullifiers, view>>
    BY <1>14 DEF Submit
  <2>3. \A i \in DOMAIN txs : txs[i].answered /\ ~txs[i].forgotten => txs[i].notes \cap view = {}
    BY <2>2 DEF MarkInv
  <2>4. \A i, j \in DOMAIN txs' : i < j => i \in DOMAIN txs
    BY <1>0, <2>1
  <2>5. SentOnce'
    BY <2>1, <2>3, <2>4 DEF SentOnce
  <2>6. MarkInv'
    BY <2>1, <2>2 DEF MarkInv
  <2> QED
    BY <2>5, <2>6
<1>15. CASE UNCHANGED vars
  BY <1>1, <1>15 DEF vars
<1> QED
  BY <1>2, <1>3, <1>4, <1>5, <1>6, <1>7, <1>8, <1>9, <1>10, <1>11, <1>12, <1>13, <1>14, <1>15 DEF Next

\* What the instance hides is spent or marked.
LEMMA HiddenStep ==
  TypeOK /\ CallInv /\ HiddenOnlyIfSent /\ [Next]_vars => HiddenOnlyIfSent'
<1> SUFFICES ASSUME TypeOK, CallInv, HiddenOnlyIfSent, [Next]_vars PROVE HiddenOnlyIfSent'
  OBVIOUS
<1> USE DEF envVars, callVars
<1> DEFINE Hidden == UNION {txs[i].notes : i \in {k \in DOMAIN txs : txs[k].marked}}
<1>0. nullifiers \subseteq spent \cup Hidden
  BY DEF HiddenOnlyIfSent
<1>1. ASSUME UNCHANGED <<txs, nullifiers>>, spent \subseteq spent' PROVE HiddenOnlyIfSent'
  BY <1>1 DEF HiddenOnlyIfSent
<1>2. CASE Emit \/ Begin \/ View \/ ListStuck \/ NextChunk \/ Finish \/ Fail
  BY <1>1, <1>2 DEF Emit, Begin, View, ListStuck, NextChunk, Finish, Fail
<1>3. ASSUME NEW n \in Notes, Execute(n) \/ Cancel(n) PROVE HiddenOnlyIfSent'
  BY <1>1, <1>3 DEF Execute, Cancel
<1>4. ASSUME NEW n \in Notes, Listen(n) PROVE HiddenOnlyIfSent'
  BY <1>0, <1>4 DEF Listen, HiddenOnlyIfSent
<1>5. ASSUME NEW i \in DOMAIN txs, Land(i) PROVE HiddenOnlyIfSent'
  <2>1. DOMAIN txs' = DOMAIN txs
        /\ \A j \in DOMAIN txs : txs'[j].notes = txs[j].notes /\ txs'[j].marked = txs[j].marked
    BY <1>5, LandTxs
  <2>2. spent \subseteq spent' /\ nullifiers' = nullifiers
    BY <1>5 DEF Land
  <2>3. Hidden' = Hidden
    BY <2>1
  <2> QED
    BY <1>0, <2>2, <2>3 DEF HiddenOnlyIfSent
<1>6. ASSUME NEW l \in 0..emitted, NEW known \in SUBSET spent, Reset(l, known)
      PROVE  HiddenOnlyIfSent'
  BY <1>6 DEF Reset, HiddenOnlyIfSent
<1>7. CASE Mark
  <2>1. /\ DOMAIN txs' = DOMAIN txs /\ Len(txs) \in DOMAIN txs
        /\ \A j \in DOMAIN txs :
             /\ txs'[j].notes = txs[j].notes /\ txs'[j].marked = (txs[j].marked \/ j = Len(txs))
    BY <1>7, MarkTxs
  <2>2. nullifiers' = nullifiers \cup txs[Len(txs)].notes /\ spent' = spent
    BY <1>7 DEF Mark
  <2>3. Hidden \cup txs[Len(txs)].notes \subseteq Hidden'
    BY <2>1
  <2> QED
    BY <1>0, <2>2, <2>3 DEF HiddenOnlyIfSent
<1>8. ASSUME NEW answered \in BOOLEAN, Submit(answered) PROVE HiddenOnlyIfSent'
  <2>1. /\ DOMAIN txs \subseteq DOMAIN txs' /\ \A j \in DOMAIN txs : txs'[j] = txs[j]
    BY <1>8, SubmitTxs
  <2>2. UNCHANGED <<nullifiers, spent>>
    BY <1>8 DEF Submit
  <2>3. Hidden \subseteq Hidden'
    BY <2>1
  <2> QED
    BY <1>0, <2>2, <2>3 DEF HiddenOnlyIfSent
<1>9. CASE UNCHANGED vars
  BY <1>1, <1>9 DEF vars
<1> QED
  BY <1>2, <1>3, <1>4, <1>5, <1>6, <1>7, <1>8, <1>9 DEF Next

\* The hashes collected so far are those of the call's marked transactions.
LEMMA ReportStep == TypeOK /\ CallInv /\ ReportInv /\ [Next]_vars => ReportInv'
<1> SUFFICES ASSUME TypeOK, CallInv, ReportInv, [Next]_vars PROVE ReportInv'
  OBVIOUS
<1> USE DEF envVars, callVars
<1>0. Len(txs) \in Nat /\ DOMAIN txs = 1..Len(txs) /\ firstTx \in Nat /\ firstTx >= 1
  BY DEF CallInv, TypeOK
<1>1. ASSUME UNCHANGED <<txs, results, firstTx>>, pc' \in {"list", "ask"} => pc \in {"list", "ask"}
      PROVE  ReportInv'
  BY <1>1 DEF ReportInv, Reported
<1>2. CASE Emit \/ View \/ ListStuck \/ NextChunk \/ Finish \/ Fail
  BY <1>1, <1>2 DEF Emit, View, ListStuck, NextChunk, Finish, Fail
<1>3. ASSUME NEW n \in Notes, Execute(n) \/ Cancel(n) \/ Listen(n) PROVE ReportInv'
  BY <1>1, <1>3 DEF Execute, Cancel, Listen
<1>4. ASSUME UNCHANGED <<results, firstTx, pc>>, Len(txs') = Len(txs),
             \A j \in DOMAIN txs : txs'[j].marked = txs[j].marked
      PROVE  ReportInv'
  <2>1. Reported' = Reported
    BY <1>4 DEF Reported
  <2>2. \A j \in firstTx..Len(txs) : txs'[j].marked = txs[j].marked
    BY <1>0, <1>4
  <2> QED
    BY <1>4, <2>1, <2>2 DEF ReportInv
<1>5. ASSUME NEW i \in DOMAIN txs, Land(i) PROVE ReportInv'
  <2>1. Len(txs') = Len(txs) /\ \A j \in DOMAIN txs : txs'[j].marked = txs[j].marked
    BY <1>5, LandTxs
  <2> QED
    BY <1>4, <1>5, <2>1 DEF Land
<1>6. ASSUME NEW l \in 0..emitted, NEW known \in SUBSET spent, Reset(l, known)
      PROVE  ReportInv'
  <2>1. Len(txs') = Len(txs) /\ \A j \in DOMAIN txs : txs'[j].marked = txs[j].marked
    BY <1>6, ResetTxs
  <2> QED
    BY <1>4, <1>6, <2>1 DEF Reset
<1>7. CASE Begin
  <2>1. Reported' = {}
    BY <1>7 DEF Begin, Reported
  <2>2. firstTx' = Len(txs) + 1 /\ txs' = txs
    BY <1>7 DEF Begin
  <2>3. {i \in firstTx'..Len(txs') : txs'[i].marked} = {}
    BY <1>0, <2>2
  <2> QED
    BY <2>1, <2>3 DEF ReportInv
<1>8. CASE Mark
  <2>1. /\ Len(txs') = Len(txs) /\ Len(txs) >= firstTx
        /\ \A j \in DOMAIN txs : txs'[j].marked = (txs[j].marked \/ j = Len(txs))
    BY <1>8, MarkTxs DEF CallInv, Mark
  <2>2. results' = Append(results, Len(txs)) /\ firstTx' = firstTx /\ pc' = "chunk"
    BY <1>8 DEF Mark
  <2>3. Reported' = Reported \cup {Len(txs)}
    <3>1. results \in Seq(Nat)
      BY DEF CallInv
    <3>2. /\ DOMAIN results' = DOMAIN results \cup {Len(results) + 1}
          /\ \A k \in DOMAIN results : results'[k] = results[k]
          /\ results'[Len(results) + 1] = Len(txs)
      BY <1>0, <2>2, <3>1
    <3> QED
      BY <3>2 DEF Reported
  <2>4. {i \in firstTx'..Len(txs') : txs'[i].marked}
          = {i \in firstTx..Len(txs) : txs[i].marked} \cup {Len(txs)}
    <3>1. Len(txs) \in firstTx..Len(txs)
      BY <1>0, <2>1
    <3>2. firstTx..Len(txs) \subseteq DOMAIN txs
      BY <1>0
    <3>3. \A j \in firstTx..Len(txs) : txs'[j].marked = (txs[j].marked \/ j = Len(txs))
      BY <2>1, <3>2
    <3> QED
      BY <2>1, <2>2, <3>1, <3>3
  <2> QED
    BY <2>2, <2>3, <2>4 DEF ReportInv
<1>9. ASSUME NEW answered \in BOOLEAN, Submit(answered) PROVE ReportInv'
  <2>1. /\ Len(txs') = Len(txs) + 1 /\ ~txs'[Len(txs) + 1].marked
        /\ \A j \in DOMAIN txs : txs'[j] = txs[j]
    BY <1>9, SubmitTxs
  <2>2. UNCHANGED <<results, firstTx>> /\ pc' \notin {"list", "ask"}
    BY <1>9 DEF Submit
  <2>3. Reported' = Reported
    BY <2>2 DEF Reported
  <2>4. {i \in firstTx'..Len(txs') : txs'[i].marked} = {i \in firstTx..Len(txs) : txs[i].marked}
    BY <1>0, <2>1, <2>2
  <2> QED
    BY <2>2, <2>3, <2>4 DEF ReportInv
<1>10. CASE UNCHANGED vars
  BY <1>1, <1>10 DEF vars
<1> QED
  BY <1>2, <1>3, <1>5, <1>6, <1>7, <1>8, <1>9, <1>10 DEF Next

\* Nothing that happens outside the call and keeps it quiet changes what the call can select.
LEMMA QuietElsewhere ==
  ASSUME TypeOK, QuietInv, QuietWithdrawsAll,
         UNCHANGED <<list, scheduled, view, stuck, todo, total, results, pc>>,
         Len(txs') = Len(txs), DOMAIN txs' = DOMAIN txs,
         pc = "mark" => Len(txs) \in DOMAIN txs,
         \A j \in DOMAIN txs : txs'[j].notes = txs[j].notes /\ txs'[j].change = txs[j].change,
         quiet' => quiet /\ Visible' = Visible
  PROVE  QuietInv' /\ QuietWithdrawsAll'
<1>1. Reported' = Reported
  BY DEF Reported
<1>2. Reported \subseteq DOMAIN txs
  BY DEF Reported, TypeOK
<1>3. Sent' = Sent
  BY <1>1, <1>2 DEF Sent
<1>4. quiet' => Left' = Left
  BY DEF Left
<1>5. SumOf(Largest(Left))' = SumOf(Largest(Left')) /\ Largest(Left)' = Largest(Left')
  BY DEF SumOf, Largest, Before
<1>6. QuietInv'
  <2> SUFFICES ASSUME quiet' PROVE QuietInv'
    BY DEF QuietInv
  <2> QED
    BY <1>1, <1>2, <1>3, <1>4, <1>5 DEF QuietInv
<1>7. QuietWithdrawsAll'
  BY <1>1, <1>2, <1>3 DEF QuietWithdrawsAll, Sent
<1> QED
  BY <1>6, <1>7

\* While nothing interferes, what is left to send and what is sent make up what was listed.
LEMMA QuietStep ==
  /\ TypeOK /\ CallInv /\ ReportInv /\ QuietInv /\ QuietWithdrawsAll /\ [Next]_vars
  => QuietInv' /\ QuietWithdrawsAll'
<1> SUFFICES ASSUME TypeOK, CallInv, ReportInv, QuietInv, QuietWithdrawsAll, [Next]_vars
             PROVE  QuietInv' /\ QuietWithdrawsAll'
  OBVIOUS
<1> USE DEF envVars, callVars
<1>0. /\ Len(txs) \in Nat /\ DOMAIN txs = 1..Len(txs) /\ pc = "mark" => Len(txs) \in DOMAIN txs
      /\ quiet \in BOOLEAN
  BY DEF CallInv, TypeOK
<1>1. ASSUME UNCHANGED <<list, nullifiers, scheduled, txs, view, stuck, todo, total, results, pc>>,
             quiet' => quiet
      PROVE  QuietInv' /\ QuietWithdrawsAll'
  BY <1>0, <1>1, QuietElsewhere DEF Visible
<1>2. CASE Emit
  BY <1>1, <1>2 DEF Emit
<1>3. ASSUME NEW n \in Notes, Execute(n) PROVE QuietInv' /\ QuietWithdrawsAll'
  BY <1>1, <1>3 DEF Execute
<1>4. ASSUME ~quiet' PROVE QuietInv' /\ QuietWithdrawsAll'
  BY <1>4 DEF QuietInv, QuietWithdrawsAll
<1>5. ASSUME NEW n \in Notes, Cancel(n) PROVE QuietInv' /\ QuietWithdrawsAll'
  BY <1>4, <1>5 DEF Cancel
\* What is published is no note that the call has listed or selected.
<1>6. ASSUME NEW n \in Notes, Listen(n) PROVE QuietInv' /\ QuietWithdrawsAll'
  <2>1. UNCHANGED <<list, scheduled, txs, view, stuck, todo, total, results, pc>>
    BY <1>6 DEF Listen
  <2>2. CASE pc \in {"ask", "pick", "chunk", "select", "mark"}
    <3>1. quiet' => quiet /\ n \notin view /\ nullifiers' = nullifiers \cup {n}
      BY <1>0, <1>6 DEF Listen
    <3>2. quiet => Visible \subseteq view
      BY <2>2 DEF QuietInv
    <3>3. quiet' => Visible' = Visible
      BY <2>1, <3>1, <3>2 DEF Visible
    <3> QED
      BY <1>0, <2>1, <3>1, <3>3, QuietElsewhere
  <2>3. CASE pc \notin {"ask", "pick", "chunk", "select", "mark"}
    <3>1. quiet' => quiet
      BY <1>0, <1>6 DEF Listen
    <3>2. QuietInv'
      BY <2>1, <2>3 DEF QuietInv
    <3>3. QuietWithdrawsAll'
      BY <2>1, <3>1 DEF QuietWithdrawsAll, Reported
    <3> QED
      BY <3>2, <3>3
  <2> QED
    BY <2>2, <2>3
<1>7. ASSUME NEW i \in DOMAIN txs, Land(i) PROVE QuietInv' /\ QuietWithdrawsAll'
  <2>1. /\ Len(txs') = Len(txs) /\ DOMAIN txs' = DOMAIN txs
        /\ \A j \in DOMAIN txs : txs'[j].notes = txs[j].notes /\ txs'[j].change = txs[j].change
    BY <1>7, LandTxs
  <2>2. UNCHANGED <<list, nullifiers, scheduled, view, stuck, todo, total, results, pc, quiet>>
    BY <1>7 DEF Land
  <2> QED
    BY <1>0, <2>1, <2>2, QuietElsewhere DEF Visible
<1>8. ASSUME NEW l \in 0..emitted, NEW known \in SUBSET spent, Reset(l, known)
      PROVE  QuietInv' /\ QuietWithdrawsAll'
  BY <1>4, <1>8 DEF Reset
<1>9. CASE Begin
  BY <1>9 DEF Begin, QuietInv, QuietWithdrawsAll
<1>10. CASE View
  <2>1. view' = Visible /\ Visible' = Visible /\ Left' = Left
    BY <1>10 DEF View, Visible, Left
  <2>2. UNCHANGED <<list, nullifiers, scheduled, txs, stuck, todo, total, results>>
    BY <1>10 DEF View
  <2>3. CASE pc = "list"
    <3>1. pc' = "ask"
      BY <1>10, <2>3 DEF View
    <3> QED
      BY <2>1, <3>1 DEF QuietInv, QuietWithdrawsAll
  <2>4. CASE pc = "select"
    <3>1. pc' = "pick" /\ quiet' = quiet
      BY <1>0, <1>10, <2>4 DEF View
    <3>2. Reported' = Reported /\ Sent' = Sent
      BY <2>2 DEF Reported, Sent
    <3>3. Largest(Left)' = Largest(Left) /\ SumOf(Largest(Left))' = SumOf(Largest(Left))
      BY <2>1 DEF Largest, Before, SumOf
    <3> QED
      BY <2>1, <2>2, <2>4, <3>1, <3>2, <3>3 DEF QuietInv, QuietWithdrawsAll
  <2> QED
    BY <1>10, <2>3, <2>4 DEF View
<1>11. CASE ListStuck
  <2>1. /\ pc = "ask" /\ pc' = "chunk" /\ quiet' = quiet
        /\ stuck' = view \ scheduled /\ todo' = view \ scheduled
        /\ UNCHANGED <<list, nullifiers, scheduled, txs, view, results>>
    BY <1>11 DEF ListStuck
  <2>2. Reported' = {} /\ Sent' = {}
    BY <2>1 DEF Reported, Sent, ReportInv
  <2>3. Visible' = Visible /\ Left' = Left
    BY <2>1 DEF Visible, Left
  <2>4. quiet => Visible = view /\ Left = view \ scheduled
    BY <2>1 DEF QuietInv, Left
  <2> QED
    BY <2>1, <2>2, <2>3, <2>4 DEF QuietInv, QuietWithdrawsAll
<1>12. CASE NextChunk
  <2>1. /\ pc = "chunk" /\ pc' = "select" /\ quiet' = quiet
        /\ total' = SumOf(Largest(todo)) /\ todo' = todo \ Largest(todo)
        /\ UNCHANGED <<list, nullifiers, scheduled, txs, view, stuck, results>>
    BY <1>12 DEF NextChunk
  <2>2. /\ Reported' = Reported /\ Sent' = Sent /\ Visible' = Visible /\ Left' = Left
    BY <2>1 DEF Reported, Sent, Visible, Left
  <2>3. Largest(Left)' = Largest(Left) /\ SumOf(Largest(Left))' = SumOf(Largest(Left))
    BY <2>2 DEF Largest, Before, SumOf
  <2> QED
    BY <2>1, <2>2, <2>3 DEF QuietInv, QuietWithdrawsAll
\* The chunk's notes leave the map's view and join what is sent.
<1>13. CASE Mark
  <2> DEFINE n == Len(txs)
             notes == txs[n].notes
  <2>1. /\ Len(txs') = n /\ DOMAIN txs' = DOMAIN txs /\ n \in DOMAIN txs
        /\ \A j \in DOMAIN txs : txs'[j].notes = txs[j].notes /\ txs'[j].change = txs[j].change
    BY <1>13, MarkTxs
  <2>2. /\ pc = "mark" /\ pc' = "chunk" /\ quiet' = quiet
        /\ nullifiers' = nullifiers \cup notes /\ results' = Append(results, n)
        /\ UNCHANGED <<list, scheduled, view, stuck, todo>>
    BY <1>13 DEF Mark
  <2>3. Reported' = Reported \cup {n}
    <3>1. results \in Seq(Nat)
      BY DEF CallInv
    <3>2. /\ DOMAIN results' = DOMAIN results \cup {Len(results) + 1}
          /\ \A k \in DOMAIN results : results'[k] = results[k]
          /\ results'[Len(results) + 1] = n
      BY <1>0, <2>2, <3>1
    <3> QED
      BY <3>2 DEF Reported
  <2>4. Reported \subseteq DOMAIN txs
    BY DEF Reported, TypeOK
  <2> HIDE DEF n, notes
  <2>5. Sent' = Sent \cup notes
    BY <2>1, <2>3, <2>4 DEF Sent, notes
  <2>6. Visible' = Visible \ notes /\ Left' = Left \ notes
    BY <2>2 DEF Visible, Left
  <2>7. ASSUME quiet
        PROVE  /\ notes \subseteq Left /\ todo = Left \ notes /\ txs[n].change = 0
               /\ Left = stuck \ Sent /\ Sent \subseteq stuck /\ Visible \subseteq view
               /\ \A i \in Reported : txs[i].change = 0
               /\ \A i, j \in Reported : i # j => txs[i].notes \cap txs[j].notes = {}
    BY <2>2, <2>7 DEF QuietInv, n, notes
  <2>8. ASSUME quiet, NEW i \in Reported PROVE txs[i].notes \cap notes = {}
    <3>1. txs[i].notes \subseteq Sent
      BY DEF Sent
    <3> QED
      BY <2>7, <2>8, <3>1
  <2>9. quiet => \A i, j \in Reported' : i # j => txs'[i].notes \cap txs'[j].notes = {}
    BY <2>1, <2>3, <2>4, <2>7, <2>8 DEF notes
  <2>10. quiet => \A i \in Reported' : txs'[i].change = 0
    BY <2>1, <2>3, <2>4, <2>7
  <2>11. quiet => Left' = stuck' \ Sent' /\ Sent' \subseteq stuck' /\ todo' = Left' /\ Visible' \subseteq view'
    BY <2>2, <2>5, <2>6, <2>7
  <2> QED
    BY <2>2, <2>9, <2>10, <2>11 DEF QuietInv, QuietWithdrawsAll
<1>14. CASE Finish
  <2>1. /\ pc = "chunk" /\ todo = {} /\ pc' = "done" /\ quiet' = quiet
        /\ UNCHANGED <<list, nullifiers, scheduled, txs, view, stuck, results>>
    BY <1>14 DEF Finish
  <2>2. Reported' = Reported /\ Sent' = Sent
    BY <2>1 DEF Reported, Sent
  <2>3. quiet => Sent = stuck
    BY <2>1 DEF QuietInv
  <2> QED
    BY <2>1, <2>2, <2>3 DEF QuietInv, QuietWithdrawsAll, Sent
<1>15. CASE Fail
  BY <1>15 DEF Fail, QuietInv, QuietWithdrawsAll
<1>16. ASSUME NEW answered \in BOOLEAN, Submit(answered) PROVE QuietInv' /\ QuietWithdrawsAll'
  <2> DEFINE new == Len(txs) + 1
  <2>1. /\ Len(txs') = new /\ DOMAIN txs \subseteq DOMAIN txs'
        /\ \A j \in DOMAIN txs : txs'[j] = txs[j]
        /\ txs'[new].notes = Largest(view \ scheduled)
        /\ txs'[new].change = SumOf(Largest(view \ scheduled)) - total
        /\ Largest(view \ scheduled) \subseteq view \ scheduled
    BY <1>16, SubmitTxs
  <2>2. /\ pc = "pick" /\ pc' \in {"mark", "failed"} /\ quiet' = quiet
        /\ UNCHANGED <<list, nullifiers, scheduled, view, stuck, todo, results>>
    BY <1>16 DEF Submit
  <2>3. Reported \subseteq DOMAIN txs /\ Reported' = Reported
    BY <2>2 DEF Reported, TypeOK
  <2>4. Sent' = Sent
    BY <2>1, <2>3 DEF Sent
  <2>5. Visible' = Visible /\ Left' = Left
    BY <2>2 DEF Visible, Left
  <2>6. quiet => Visible = view /\ Left = view \ scheduled /\ total = SumOf(Largest(Left))
                 /\ todo = Left \ Largest(Left)
    BY <2>2 DEF QuietInv, Left
  <2>7. total \in Nat
    BY DEF CallInv
  <2>8. quiet => txs'[new].notes \subseteq Left' /\ todo' = Left' \ txs'[new].notes /\ txs'[new].change = 0
    <3>1. total - total = 0
      BY <2>7
    <3>2. quiet => view \ scheduled = Left
      BY <2>6
    <3>3. quiet => txs'[new].notes = Largest(Left) /\ txs'[new].change = 0
      BY <2>1, <2>6, <3>1, <3>2
    <3>4. quiet => Largest(Left) \subseteq Left
      BY <2>1, <3>2
    <3> HIDE DEF new
    <3> QED
      BY <2>2, <2>5, <2>6, <3>3, <3>4
  <2>9. quiet => /\ Left = stuck \ Sent /\ Sent \subseteq stuck
                 /\ \A i \in Reported : txs[i].change = 0
                 /\ \A i, j \in Reported : i # j => txs[i].notes \cap txs[j].notes = {}
    BY <2>2 DEF QuietInv
  <2>10. quiet => /\ \A i \in Reported : txs'[i].change = 0
                  /\ \A i, j \in Reported : i # j => txs'[i].notes \cap txs'[j].notes = {}
    BY <2>1, <2>3, <2>9
  <2> HIDE DEF new
  <2> QED
    BY <2>1, <2>2, <2>3, <2>4, <2>5, <2>6, <2>8, <2>9, <2>10 DEF QuietInv, QuietWithdrawsAll
<1>17. CASE UNCHANGED vars
  BY <1>1, <1>17 DEF vars
<1> QED
  BY <1>2, <1>3, <1>5, <1>6, <1>7, <1>8, <1>9, <1>10, <1>11, <1>12, <1>13, <1>14, <1>15, <1>16, <1>17
     DEF Next

\* Steps that leave the payments and the landed transactions alone.
LEMMA SpendElsewhere ==
  ASSUME TypeOK, CallInv, SpendInv, PaidByNotes, spent \subseteq spent',
         DOMAIN txs' = DOMAIN txs,
         \A j \in DOMAIN txs :
           /\ txs'[j].notes = txs[j].notes /\ txs'[j].paid = txs[j].paid
           /\ txs'[j].fee = txs[j].fee /\ txs'[j].change = txs[j].change
           /\ txs'[j].status = txs[j].status
  PROVE  SpendInv' /\ PaidByNotes'
<1>1. Landed' = Landed /\ Landed \subseteq DOMAIN txs
  BY DEF Landed
<1>2. Payments' = Payments
  BY DEF Payments
<1>3. (UNION {txs[i].notes : i \in Landed})' = UNION {txs[i].notes : i \in Landed}
  BY <1>1
<1>4. PaidByNotes'
  BY <1>1, <1>2, <1>3 DEF PaidByNotes, SumOf
<1>5. SpendInv'
  BY <1>1 DEF SpendInv, SumOf
<1> QED
  BY <1>4, <1>5

\* The transactions that land take each note once, and pay what their notes are worth.
LEMMA SpendStep ==
  TypeOK /\ CallInv /\ SpendInv /\ PaidByNotes /\ [Next]_vars => SpendInv' /\ PaidByNotes'
<1> SUFFICES ASSUME TypeOK, CallInv, SpendInv, PaidByNotes, [Next]_vars
             PROVE  SpendInv' /\ PaidByNotes'
  OBVIOUS
<1> USE DEF envVars, callVars
<1>0. /\ Len(txs) \in Nat /\ DOMAIN txs = 1..Len(txs) /\ Landed \subseteq DOMAIN txs
      /\ IsFiniteSet(DOMAIN txs)
  <2>1. Len(txs) \in Nat /\ DOMAIN txs = 1..Len(txs)
    BY DEF CallInv
  <2> QED
    BY <2>1, FS_Interval DEF Landed
<1>t. ASSUME NEW i \in DOMAIN txs
      PROVE  txs[i].notes \in SUBSET Notes /\ Payments[i] = SumOf(txs[i].notes) /\ Payments[i] \in Nat
  <2>1. txs[i] \in Tx
    BY DEF CallInv
  <2> QED
    BY <2>1 DEF Tx, Payments, SpendInv
<1>1. ASSUME UNCHANGED txs, spent \subseteq spent' PROVE SpendInv' /\ PaidByNotes'
  BY <1>1, SpendElsewhere
<1>2. CASE Emit \/ Begin \/ View \/ ListStuck \/ NextChunk \/ Finish \/ Fail
  BY <1>1, <1>2 DEF Emit, Begin, View, ListStuck, NextChunk, Finish, Fail
<1>3. ASSUME NEW n \in Notes, Execute(n) \/ Cancel(n) \/ Listen(n) PROVE SpendInv' /\ PaidByNotes'
  BY <1>1, <1>3 DEF Execute, Cancel, Listen
<1>4. ASSUME NEW i \in DOMAIN txs, Land(i) PROVE SpendInv' /\ PaidByNotes'
  <2> DEFINE notes == txs[i].notes
             U == UNION {txs[j].notes : j \in Landed}
  <2>1. /\ DOMAIN txs' = DOMAIN txs
        /\ \A j \in DOMAIN txs :
              /\ txs'[j].notes = txs[j].notes /\ txs'[j].paid = txs[j].paid
              /\ txs'[j].fee = txs[j].fee /\ txs'[j].change = txs[j].change
              /\ txs'[j].status = IF j # i THEN txs[j].status
                                  ELSE IF notes \cap spent = {} THEN "landed" ELSE "reverted"
    BY <1>4, LandTxs
  <2>2. Payments' = Payments
    BY <2>1 DEF Payments
  <2>3. i \notin Landed
    BY <1>4 DEF Land, Landed
  <2>4. CASE notes \cap spent # {}
    <3>1. Landed' = Landed
      BY <2>1, <2>3, <2>4 DEF Landed
    <3>2. spent' = spent
      BY <1>4, <2>4 DEF Land
    <3>3. U' = U
      BY <1>0, <2>1, <3>1
    <3>4. PaidByNotes'
      BY <2>2, <3>1, <3>3 DEF PaidByNotes, SumOf
    <3>5. SpendInv'
      BY <1>0, <2>1, <3>1, <3>2 DEF SpendInv, SumOf
    <3> QED
      BY <3>4, <3>5
  <2>5. CASE notes \cap spent = {}
    <3>1. Landed' = Landed \cup {i}
      BY <2>1, <2>5 DEF Landed
    <3>2. spent' = spent \cup notes
      BY <1>4, <2>5 DEF Land
    <3>3. U' = U \cup notes
      BY <1>0, <2>1, <3>1
    <3>4. U \subseteq spent /\ U \cap notes = {}
      <4>1. U \subseteq spent
        BY DEF SpendInv
      <4> QED
        BY <2>5, <4>1
    <3>5. U \in SUBSET Notes /\ notes \in SUBSET Notes
      BY <1>0, <1>t
    <3>6. SumOf(U \cup notes) = SumOf(U) + SumOf(notes)
      <4>1. /\ IsFiniteSet(U) /\ IsFiniteSet(notes)
            /\ \A x \in U \cup notes : Amount[x] \in Nat
        BY <3>5, NotesFinite
      <4> HIDE DEF U, notes
      <4> QED
        BY <3>4, <4>1, SumUnion DEF SumOf
    <3>7. SumFunctionOnSet(Payments, Landed \cup {i}) = Payments[i] + SumFunctionOnSet(Payments, Landed)
      <4>1. IsFiniteSet(Landed)
        BY <1>0, FS_Subset
      <4>2. \A j \in Landed \cup {i} : Payments[j] \in Nat
        BY <1>0, <1>t
      <4> QED
        BY <2>3, <4>1, <4>2, SumAdd
    <3>8. Payments[i] = SumOf(notes) /\ SumOf(notes) \in Nat /\ SumOf(U) \in Nat
      BY <1>t, <3>5, SumOfNat
    <3>9. SumFunctionOnSet(Payments, Landed) = SumOf(U)
      BY DEF PaidByNotes
    <3>10. PaidByNotes'
      <4>1. SumFunctionOnSet(Payments, Landed)' = SumOf(U \cup notes)
        <5> HIDE DEF U, notes
        <5> QED
          BY <2>2, <3>1, <3>6, <3>7, <3>8, <3>9
      <4>2. SumOf(U)' = SumOf(U')
        BY DEF SumOf
      <4> QED
        BY <3>3, <4>1, <4>2 DEF PaidByNotes
    <3>11. SpendInv'
      <4>1. \A j \in Landed : txs[j].notes \subseteq spent
        BY DEF SpendInv
      <4>2. \A j \in Landed : txs[j].notes \cap notes = {}
        BY <2>5, <4>1
      <4>3. \A j \in DOMAIN txs' :
              txs'[j].paid + txs'[j].fee + txs'[j].change = SumOf(txs'[j].notes)
        BY <2>1 DEF SpendInv
      <4>4. \A j, k \in Landed' : j # k => txs'[j].notes \cap txs'[k].notes = {}
        BY <1>0, <2>1, <3>1, <4>2 DEF SpendInv
      <4>5. \A j \in Landed' : txs'[j].notes \subseteq spent'
        BY <1>0, <2>1, <3>1, <3>2, <4>1
      <4> QED
        BY <4>3, <4>4, <4>5 DEF SpendInv, SumOf
    <3> QED
      BY <3>10, <3>11
  <2> QED
    BY <2>4, <2>5
<1>5. ASSUME NEW l \in 0..emitted, NEW known \in SUBSET spent, Reset(l, known)
      PROVE  SpendInv' /\ PaidByNotes'
  <2>1. spent' = spent
    BY <1>5 DEF Reset
  <2> QED
    BY <1>5, <2>1, ResetTxs, SpendElsewhere
<1>6. CASE Mark
  <2>1. spent' = spent
    BY <1>6 DEF Mark
  <2> QED
    BY <1>6, <2>1, MarkTxs, SpendElsewhere
\* A submission adds a payment that has not landed.
<1>7. ASSUME NEW answered \in BOOLEAN, Submit(answered) PROVE SpendInv' /\ PaidByNotes'
  <2> DEFINE new == Len(txs) + 1
             U == UNION {txs[j].notes : j \in Landed}
  <2>1. /\ DOMAIN txs' = DOMAIN txs \cup {new} /\ new \notin DOMAIN txs
        /\ \A j \in DOMAIN txs : txs'[j] = txs[j]
        /\ txs'[new].status = "pending" /\ txs'[new].paid = total - fee /\ txs'[new].fee = fee
        /\ txs'[new].change = SumOf(txs'[new].notes) - total
        /\ txs' \in Seq(Tx) /\ Len(txs') = Len(txs) + 1
    BY <1>7, SubmitTxs
  <2>t. txs'[new] \in Tx
    BY <2>1
  <2> HIDE DEF new
  <2>2. Landed' = Landed
    BY <2>1 DEF Landed
  <2>3. U' = U
    BY <1>0, <2>1, <2>2
  <2>4. \A j \in Landed : Payments'[j] = Payments[j]
    BY <1>0, <2>1 DEF Payments
  <2>5. SumFunctionOnSet(Payments, Landed)' = SumFunctionOnSet(Payments, Landed)
    <3>1. IsFiniteSet(Landed)
      BY <1>0, FS_Subset
    <3>2. SumFunctionOnSet(Payments', Landed) = SumFunctionOnSet(Payments, Landed)
      BY <2>4, <3>1, SumAgree
    <3> QED
      BY <2>2, <3>2
  <2>6. PaidByNotes'
    BY <2>3, <2>5 DEF PaidByNotes, SumOf
  <2>7. txs'[new].paid + txs'[new].fee + txs'[new].change = SumOf(txs'[new].notes)
    <3>1. SumOf(txs'[new].notes) \in Nat
      BY <2>t, SumOfNat DEF Tx
    <3>2. total \in Nat /\ fee \in Nat
      BY DEF CallInv
    <3> QED
      BY <2>1, <3>1, <3>2
  <2>8. \A j \in DOMAIN txs' : txs'[j].paid + txs'[j].fee + txs'[j].change = SumOf(txs'[j].notes)
    BY <2>1, <2>7 DEF SpendInv
  <2>9. spent' = spent
    BY <1>7 DEF Submit
  <2>10. SpendInv'
    BY <1>0, <2>1, <2>2, <2>8, <2>9 DEF SpendInv, SumOf
  <2> QED
    BY <2>6, <2>10
<1>8. CASE UNCHANGED vars
  BY <1>1, <1>8 DEF vars
<1> QED
  BY <1>2, <1>3, <1>4, <1>5, <1>6, <1>7, <1>8 DEF Next

-----------------------------------------------------------------------------
(* The theorems *)

\* The parts together are preserved by every step.
LEMMA IInvStep == IInv /\ [Next]_vars => IInv'
BY TypeStep, MarkStep, HiddenStep, ReportStep, QuietStep, SpendStep DEF IInv

\* The inductive invariant holds in every state of every behaviour.
THEOREM Inductive == Spec => []IInv
BY IInvInit, IInvStep, PTL DEF Spec

\* Type correctness of StuckWithdrawal.
THEOREM TypeCorrect == Spec => []TypeOK
<1>1. IInv => TypeOK
  BY DEF IInv
<1> QED
  BY Inductive, <1>1, PTL

\* A note is sent twice only after a lost answer of the relayer or a reset.
THEOREM NotesSentOnce == Spec => []SentOnce
<1>1. IInv => SentOnce
  BY DEF IInv
<1> QED
  BY Inductive, <1>1, PTL

\* OnTxConfirm hides no note that is neither spent nor sent.
THEOREM HidesOnlySent == Spec => []HiddenOnlyIfSent
<1>1. IInv => HiddenOnlyIfSent
  BY DEF IInv
<1> QED
  BY Inductive, <1>1, PTL

\* When a call returns, with or without an error, its results are the transactions the relayer
\* has acknowledged.
THEOREM ReportsResults == Spec => []ResultsReported
<1>1. IInv => ResultsReported
  <2> SUFFICES ASSUME IInv, pc \in {"done", "failed"}
               PROVE  Reported = {i \in firstTx..Len(txs) : txs[i].answered}
    BY DEF ResultsReported
  <2>1. firstTx..Len(txs) \subseteq DOMAIN txs
    BY DEF IInv, TypeOK, CallInv
  <2>2. \A i \in DOMAIN txs : txs[i].answered <=> txs[i].marked
    BY DEF IInv, MarkInv
  <2>3. Reported = {i \in firstTx..Len(txs) : txs[i].marked}
    BY DEF IInv, ReportInv
  <2> QED
    BY <2>1, <2>2, <2>3
<1> QED
  BY Inductive, <1>1, PTL

\* A call that nothing disturbs sends every note it has listed, each once, and leaves no change.
THEOREM QuietCallWithdrawsAll == Spec => []QuietWithdrawsAll
<1>1. IInv => QuietWithdrawsAll
  BY DEF IInv
<1> QED
  BY Inductive, <1>1, PTL

\* What the landed transactions pay is what their notes are worth, each note counted once.
THEOREM PaysWithNotes == Spec => []PaidByNotes
<1>1. IInv => PaidByNotes
  BY DEF IInv
<1> QED
  BY Inductive, <1>1, PTL
=============================================================================
