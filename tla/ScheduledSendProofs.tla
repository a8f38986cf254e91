----------------------- MODULE ScheduledSendProofs -----------------------
(***************************************************************************)
(* Proofs about ScheduledSend and the deposit it runs: for every request,  *)
(* any numbers of recipients, other deposits, polls and attempts, any fees *)
(* and any size of a bucket or of a batch.                                 *)
(***************************************************************************)
EXTENDS ScheduledSend, SumTheorems, SequenceTheorems

-----------------------------------------------------------------------------
(* Amounts *)

\* What the prover does not know of division.
LEMMA DivBounds ==
  ASSUME NEW a \in Int, NEW b \in Nat \ {0}
  PROVE  /\ a \div b \in Int
         /\ b * (a \div b) <= a
         /\ a < b * (a \div b) + b
OBVIOUS

\* divideRoundingUp is the least number that is not too small.
LEMMA CeilDivLeast ==
  ASSUME NEW a \in Int, NEW b \in Nat \ {0}
  PROVE  /\ CeilDiv(a, b) \in Int
         /\ a <= b * CeilDiv(a, b)
         /\ \A c \in Int : a <= b * c => CeilDiv(a, b) <= c
<1> DEFINE q == CeilDiv(a, b)
<1>1. q = (a + b - 1) \div b
  BY DEF CeilDiv
<1>2. q \in Int /\ b * q <= a + b - 1 /\ a + b - 1 < b * q + b
  BY <1>1, DivBounds, a + b - 1 \in Int
<1> HIDE DEF q
<1>3. ASSUME NEW c \in Int, a <= b * c, c < q PROVE FALSE
  <2>1. c + 1 <= q /\ q - (c + 1) \in Nat
    BY <1>2, <1>3
  <2>2. b * (q - (c + 1)) \in Nat
    BY <2>1
  <2>3. b * (q - (c + 1)) = b * q - b * c - b
    BY <1>2, <1>3
  <2>4. b * q \in Int /\ b * c \in Int
    BY <1>2
  <2> QED
    BY <1>2, <1>3, <2>2, <2>3, <2>4
<1>4. b * q \in Int
  BY <1>2
<1>5. a <= b * q
  BY <1>2, <1>4
<1> QED
  BY <1>2, <1>3, <1>5 DEF q

\* What is left of a sum that was grossed up by a rate below the whole: if it
\* has room for the goal, the goal survives the cut.
LEMMA CutLeaves ==
  ASSUME NEW x \in Int, NEW goal \in Int, NEW rate \in 0 .. Bps - 1, Bps \in Nat \ {0},
         goal * Bps <= x * (Bps - rate)
  PROVE  x - CeilDiv(x * rate, Bps) >= goal
<1>1. x * rate \in Int /\ x * Bps \in Int /\ goal * Bps \in Int
  OBVIOUS
<1>2. x * (Bps - rate) = x * Bps - x * rate
  OBVIOUS
<1>3. Bps * (x - goal) = x * Bps - goal * Bps
  OBVIOUS
<1>4. x * rate <= Bps * (x - goal)
  BY <1>1, <1>2, <1>3
<1>5. CeilDiv(x * rate, Bps) \in Int /\ CeilDiv(x * rate, Bps) <= x - goal
  BY <1>1, <1>4, CeilDivLeast, x - goal \in Int
<1> QED
  BY <1>5

\* What a call hands over.
LEMMA RequestTypes ==
  ASSUME req \in Requests
  PROVE  /\ req.flow \in Flows /\ req.amounts \in Seq(Int)
         /\ Recipients = 1 .. Len(req.amounts) /\ Len(req.amounts) \in Nat
         /\ \A i \in Recipients : req.amounts[i] \in Int
         /\ req.fee.flat \in Nat /\ req.fee.rate \in 0 .. Bps - 1
         /\ Bps \in Nat \ {0} /\ Bps - req.fee.rate \in Nat \ {0}
         /\ req.remote \in BOOLEAN /\ req.native \in BOOLEAN
         /\ req.pre \in BOOLEAN /\ req.returnTx \in BOOLEAN
         /\ req.returnTx => req.flow \in {"deposit", "proofless", "solanaDeposit"}
<1>1. /\ req.flow \in Flows /\ req.amounts \in Seq(Int)
      /\ req.fee.flat \in Nat /\ req.fee.rate \in 0 .. Bps - 1
      /\ {req.remote, req.native, req.pre, req.returnTx} \subseteq BOOLEAN
      /\ req.returnTx => req.flow \in {"deposit", "proofless", "solanaDeposit"}
  BY RequestAssumption
<1>2. Bps \in Nat \ {0}
  BY DepositAssumption
<1>3. Bps - req.fee.rate \in Nat \ {0}
  BY <1>1, <1>2
<1>4. /\ Len(req.amounts) \in Nat /\ DOMAIN req.amounts = 1 .. Len(req.amounts)
      /\ \A i \in 1 .. Len(req.amounts) : req.amounts[i] \in Int
  BY <1>1, LenProperties, ElementOfSeq
<1> QED
  BY <1>1, <1>2, <1>3, <1>4 DEF Recipients

\* The request of a call that is not turned down.
LEMMA ValidTypes ==
  ASSUME req \in Requests, ValidRequest(req)
  PROVE  /\ Len(req.amounts) \in Nat \ {0}
         /\ \A i \in Recipients : req.amounts[i] \in Nat \ {0}
<1>1. req.amounts # <<>> /\ \A i \in DOMAIN req.amounts : req.amounts[i] > 0
  BY DEF ValidRequest, ValidAmounts
<1>2. Len(req.amounts) # 0
  BY <1>1, RequestTypes, EmptySeq
<1> QED
  BY <1>1, <1>2, RequestTypes DEF Recipients

\* The fee of a withdrawal is a number, and not negative for a valid amount.
LEMMA FeeTypes ==
  ASSUME req \in Requests, NEW a \in Int
  PROVE  /\ CalculateTotalFee(a, req.fee) \in Int
         /\ a \in Nat => CalculateTotalFee(a, req.fee) \in Nat
<1>1. req.fee.flat \in Nat /\ req.fee.rate \in Nat /\ Bps \in Nat \ {0}
  BY RequestTypes
<1> DEFINE x == a * req.fee.rate
           q == x \div Bps
<1>2. x \in Int /\ (a \in Nat => x >= 0)
  BY <1>1
<1>3. q \in Int /\ x < Bps * q + Bps
  BY <1>1, <1>2, DivBounds
<1>4. ASSUME x >= 0, q < 0 PROVE FALSE
  <2>1. Bps * (0 - 1 - q) \in Nat
    BY <1>1, <1>3, <1>4, 0 - 1 - q \in Nat
  <2>2. Bps * (0 - 1 - q) = 0 - Bps - Bps * q
    BY <1>1, <1>3
  <2> HIDE DEF q, x
  <2> QED
    BY <1>1, <1>2, <1>3, <1>4, <2>1, <2>2
<1>5. CalculateTotalFee(a, req.fee) = req.fee.flat + q
  BY DEF CalculateTotalFee
<1> HIDE DEF q, x
<1> QED
  BY <1>1, <1>2, <1>3, <1>4, <1>5

\* The note of a recipient, grossed up.
LEMMA GrossUp ==
  ASSUME req \in Requests, NEW a \in Nat
  PROVE  LET r == req.fee.rate  f == req.fee.flat
             g == CalculateVariableFeeGrossUp(a, r)
             h == CalculateGrossAmountWithFee(a, req.fee)
         IN  /\ g \in Nat /\ h \in Nat
             /\ CalculateGrossUtxoAmount(a, req.fee) = a + g + f
             /\ a * Bps <= (a + g) * (Bps - r)
             /\ (a + f) * Bps <= h * (Bps - r)
<1> DEFINE r == req.fee.rate
           f == req.fee.flat
           d == Bps - r
           g == CalculateVariableFeeGrossUp(a, r)
           h == CalculateGrossAmountWithFee(a, req.fee)
<1>1. r \in Nat /\ f \in Nat /\ d \in Nat \ {0} /\ Bps \in Nat \ {0} /\ Bps = d + r
  BY RequestTypes
<1>2. g = CeilDiv(a * r, d) /\ h = CeilDiv((a + f) * Bps, d)
  BY DEF CalculateVariableFeeGrossUp, CalculateGrossAmountWithFee
<1>3. CalculateGrossUtxoAmount(a, req.fee) = a + g + f
  BY DEF CalculateGrossUtxoAmount
<1> HIDE DEF d, g, h, r, f
<1>4. a * r \in Nat /\ (a + f) * Bps \in Nat
  BY <1>1
<1>5. g \in Int /\ a * r <= d * g
  BY <1>1, <1>2, <1>4, CeilDivLeast
<1>6. h \in Int /\ (a + f) * Bps <= d * h
  BY <1>1, <1>2, <1>4, CeilDivLeast
<1>7. ASSUME NEW q \in Int, 0 <= d * q PROVE q \in Nat
  <2>1. SUFFICES ASSUME 0 - q - 1 \in Nat PROVE FALSE
    BY <1>7
  <2>2. d * (0 - q - 1) \in Nat /\ d * (0 - q - 1) = 0 - d * q - d /\ d * q \in Int
    BY <1>1, <2>1
  <2> QED
    BY <1>1, <1>7, <2>2
<1>8. g \in Nat /\ h \in Nat
  BY <1>4, <1>5, <1>6, <1>7, <1>1
<1>9. (a + g) * d = a * d + d * g /\ a * Bps = a * d + a * r
  BY <1>1, <1>8
<1>10. a * Bps <= (a + g) * d /\ (a + f) * Bps <= h * d
  BY <1>1, <1>4, <1>5, <1>6, <1>8, <1>9
<1> QED
  BY <1>3, <1>8, <1>10 DEF d, g, h, r, f

\* What the deposit puts into a note.
LEMMA NoteAmountNat ==
  ASSUME req \in Requests, ValidRequest(req), NEW i \in Recipients
  PROVE  NoteAmount(req, i) \in Nat
<1>1. req.amounts[i] \in Nat /\ req.fee.flat \in Nat /\ req.flow \in Flows
  BY ValidTypes, RequestTypes
<1>2. /\ CalculateGrossUtxoAmount(req.amounts[i], req.fee) \in Nat
      /\ CalculateGrossAmountWithFee(req.amounts[i], req.fee) \in Nat
  BY <1>1, GrossUp
<1>3. CalculateTotalFee(req.amounts[i], req.fee) \in Nat
  BY <1>1, FeeTypes
<1> QED
  BY <1>1, <1>2, <1>3 DEF NoteAmount, Flows

\* The total the contract takes.
LEMMA ApprovalNat ==
  ASSUME req \in Requests, ValidRequest(req)
  PROVE  ApprovalAmount \in Nat
<1> DEFINE amounts == [i \in DOMAIN req.amounts |-> NoteAmount(req, i)]
<1>1. \A i \in DOMAIN req.amounts : amounts[i] \in Nat
  BY NoteAmountNat DEF Recipients
<1>2. IsFiniteSet(DOMAIN req.amounts)
  BY RequestTypes, FS_Interval, 1 \in Int, Len(req.amounts) \in Int DEF Recipients
<1>3. SumOf(amounts) = SumFunctionOnSet(amounts, DOMAIN req.amounts)
  BY DEF SumOf, SumFunction
<1> HIDE DEF amounts
<1>4. SumOf(amounts) \in Nat
  BY <1>1, <1>2, <1>3, SumNat
<1> QED
  BY <1>4, RequestTypes DEF ApprovalAmount, amounts

\* After its cut and its fee a recipient has at least what was asked for.
LEMMA NetCovers ==
  ASSUME req \in Requests, ValidRequest(req), req.flow \in Scheduled,
         NEW i \in Recipients, NEW item, item.note = i,
         item.fee = CalculateTotalFee(req.amounts[i], req.fee)
  PROVE  Net(item) >= req.amounts[i]
<1> DEFINE a == req.amounts[i]
           r == req.fee.rate
           f == req.fee.flat
           g == CalculateVariableFeeGrossUp(a, r)
           h == CalculateGrossAmountWithFee(a, req.fee)
<1>1. a \in Nat /\ f \in Nat /\ r \in 0 .. Bps - 1 /\ Bps \in Nat \ {0}
  BY ValidTypes, RequestTypes
<1>2. /\ g \in Nat /\ h \in Nat
      /\ CalculateGrossUtxoAmount(a, req.fee) = a + g + f
      /\ a * Bps <= (a + g) * (Bps - r)
      /\ (a + f) * Bps <= h * (Bps - r)
  BY <1>1, GrossUp
<1>3. CASE req.flow \in {"evm", "tron"}
  <2>1. NoteAmount(req, i) = a + g + f
    BY <1>2, <1>3 DEF NoteAmount
  <2>2. (a + g) - CeilDiv((a + g) * r, Bps) >= a
    <3> HIDE DEF a, g, h, r, f
    <3>1. a + g \in Int /\ a \in Int
      BY <1>1, <1>2
    <3> QED
      BY <1>1, <1>2, <3>1, CutLeaves
  <2>3. (a + g + f) - f = a + g
    BY <1>1, <1>2
  <2>4. Net(item) = (a + g) - CeilDiv((a + g) * r, Bps)
    BY <1>3, <2>1, <2>3 DEF Net, Cut
  <2> QED
    BY <2>2, <2>4
<1>4. CASE req.flow = "lifi"
  <2>1. NoteAmount(req, i) = h
    BY <1>4 DEF NoteAmount
  <2>2. h - CeilDiv(h * r, Bps) >= a + f
    <3> HIDE DEF a, g, h, r, f
    <3>1. a + f \in Int /\ h \in Int
      BY <1>1, <1>2
    <3> QED
      BY <1>1, <1>2, <3>1, CutLeaves
  <2>3. Net(item) = h - CeilDiv(h * r, Bps) - f
    BY <1>4, <2>1 DEF Net, Cut
  <2>4. CeilDiv(h * r, Bps) \in Int
    BY <1>1, <1>2, CeilDivLeast, h * r \in Int
  <2> HIDE DEF a, h, f, r
  <2>5. Net(item) >= a
    BY <1>1, <1>2, <2>2, <2>3, <2>4
  <2> QED
    BY <2>5 DEF a
<1>5. CASE req.flow = "solana"
  <2>1. NoteAmount(req, i) = a + item.fee /\ item.fee \in Int
    BY <1>1, <1>5, FeeTypes DEF NoteAmount
  <2>2. Net(item) = NoteAmount(req, i) - item.fee
    BY <1>5 DEF Net
  <2> QED
    BY <1>1, <2>1, <2>2
<1> QED
  BY <1>3, <1>4, <1>5 DEF Scheduled

-----------------------------------------------------------------------------
(* Leaves *)

\* A prefix, place by place.
LEMMA PrefixMeans ==
  ASSUME NEW s \in Seq(Int), NEW t \in Seq(Int)
  PROVE  IsPrefix(s, t) <=> /\ Len(s) <= Len(t)
                            /\ \A j \in 1 .. Len(s) : s[j] = t[j]
<1>1. /\ Len(s) \in Nat /\ Len(t) \in Nat
      /\ \A j \in 1 .. Len(s) : s[j] \in Int
      /\ \A j \in 1 .. Len(t) : t[j] \in Int
  BY LenProperties, ElementOfSeq
<1>2. SUFFICES ASSUME Len(s) <= Len(t)
               PROVE  SubSeq(s, 1, Len(s)) = SubSeq(t, 1, Len(s))
                        <=> \A j \in 1 .. Len(s) : s[j] = t[j]
  BY <1>1 DEF IsPrefix
<1> DEFINE u == SubSeq(t, 1, Len(s))
<1>3. SubSeq(s, 1, Len(s)) = s
  BY SubSeqFull
<1>4. /\ u \in Seq(Int) /\ Len(u) = Len(s)
      /\ \A j \in 1 .. Len(s) : u[j] = t[j]
  <2>1. \A j \in 1 .. Len(s) : t[j] \in Int
    BY <1>1, <1>2
  <2>2. /\ u \in Seq(Int)
        /\ Len(u) = IF 1 <= Len(s) THEN Len(s) - 1 + 1 ELSE 0
        /\ \A j \in 1 .. Len(s) - 1 + 1 : u[j] = t[1 + j - 1]
    BY <1>1, <2>1, SubSeqProperties, 1 \in Int, Len(s) \in Int
  <2> HIDE DEF u
  <2> QED
    BY <1>1, <1>2, <2>2
<1> HIDE DEF u
<1>5. ASSUME \A j \in 1 .. Len(s) : s[j] = t[j] PROVE s = u
  BY <1>4, <1>5, SeqEqual
<1> QED
  BY <1>3, <1>4, <1>5 DEF u

\* Whatever follows it, a prefix stays one.
LEMMA PrefixGrows ==
  ASSUME NEW s \in Seq(Int), NEW t \in Seq(Int), NEW u \in Seq(Int), IsPrefix(s, t)
  PROVE  IsPrefix(s, t \o u)
<1>1. /\ Len(s) <= Len(t) /\ \A j \in 1 .. Len(s) : s[j] = t[j]
      /\ Len(s) \in Nat /\ Len(t) \in Nat /\ Len(u) \in Nat
  BY PrefixMeans, LenProperties
<1>2. /\ t \o u \in Seq(Int) /\ Len(t \o u) = Len(t) + Len(u)
      /\ \A j \in 1 .. Len(t) + Len(u) :
           (t \o u)[j] = IF j <= Len(t) THEN t[j] ELSE u[j - Len(t)]
  BY ConcatProperties
<1>3. /\ Len(s) <= Len(t \o u)
      /\ \A j \in 1 .. Len(s) : s[j] = (t \o u)[j]
  BY <1>1, <1>2
<1> QED
  BY <1>2, <1>3, PrefixMeans

\* A sequence is a prefix of itself.
LEMMA PrefixSelf ==
  ASSUME NEW s \in Seq(Int)
  PROVE  IsPrefix(s, s)
BY PrefixMeans, LenProperties

\* The elements of a sequence.
LEMMA Elements ==
  ASSUME NEW s \in Seq(Int)
  PROVE  /\ Len(s) \in Nat /\ DOMAIN s = 1 .. Len(s)
         /\ \A j \in 1 .. Len(s) : s[j] \in ToSet(s) /\ s[j] \in Int
         /\ \A x \in ToSet(s) : \E j \in 1 .. Len(s) : s[j] = x
BY LenProperties, ElementOfSeq DEF ToSet

\* A prefix has no element that the whole does not have.
LEMMA PrefixElements ==
  ASSUME NEW s \in Seq(Int), NEW t \in Seq(Int), IsPrefix(s, t)
  PROVE  ToSet(s) \subseteq ToSet(t)
<1>1. Len(s) <= Len(t) /\ \A j \in 1 .. Len(s) : s[j] = t[j]
  BY PrefixMeans
<1>2. ASSUME NEW x \in ToSet(s) PROVE x \in ToSet(t)
  <2>1. PICK j \in 1 .. Len(s) : s[j] = x
    BY Elements
  <2>2. j \in 1 .. Len(t) /\ t[j] = x
    BY <1>1, <2>1, Elements
  <2> QED
    BY <2>2, Elements
<1> QED
  BY <1>2

\* The number of the deposit's notes.
LEMMA NoteCountNat ==
  ASSUME req \in Requests
  PROVE  /\ NoteCount(req) \in Nat
         /\ NativeNotes(req) => NoteCount(req) = 2 * Len(req.amounts)
         /\ ~NativeNotes(req) => NoteCount(req) = Len(req.amounts)
<1>1. Len(req.amounts) \in Nat
  BY RequestTypes
<1>2. CASE NativeNotes(req)
  <2>1. NoteCount(req) = Len(req.amounts) * 2
    BY <1>2 DEF NoteCount
  <2> QED
    BY <1>1, <1>2, <2>1
<1>3. CASE ~NativeNotes(req)
  <2>1. NoteCount(req) = Len(req.amounts) * 1
    BY <1>3 DEF NoteCount
  <2> QED
    BY <1>1, <1>3, <2>1
<1> QED
  BY <1>2, <1>3

\* The leaves of the deposit: at least one for a valid request, numbered.
LEMMA Pending ==
  ASSUME req \in Requests, ValidRequest(req)
  PROVE  /\ NoteCount(req) \in Nat \ {0} /\ Len(req.amounts) <= NoteCount(req)
         /\ NativeNotes(req) => NoteCount(req) = 2 * Len(req.amounts)
         /\ PendingLeaves \in Seq(Int) /\ Len(PendingLeaves) = NoteCount(req)
         /\ \A j \in 1 .. NoteCount(req) : PendingLeaves[j] = j
         /\ ToSet(PendingLeaves) = 1 .. NoteCount(req)
<1>1. Len(req.amounts) \in Nat \ {0}
  BY ValidTypes
<1>2. /\ NoteCount(req) \in Nat \ {0} /\ Len(req.amounts) <= NoteCount(req)
      /\ NativeNotes(req) => NoteCount(req) = 2 * Len(req.amounts)
  BY <1>1, NoteCountNat
<1>3. PendingLeaves = [j \in 1 .. NoteCount(req) |-> j]
  BY DEF PendingLeaves
<1>4. PendingLeaves \in Seq(Int)
  BY <1>2, <1>3
<1>5. Len(PendingLeaves) = NoteCount(req) /\ DOMAIN PendingLeaves = 1 .. NoteCount(req)
  BY <1>2, <1>3
<1>6. ToSet(PendingLeaves) = {PendingLeaves[j] : j \in 1 .. NoteCount(req)}
  BY <1>5 DEF ToSet
<1>7. \A j \in 1 .. NoteCount(req) : PendingLeaves[j] = j
  BY <1>3
<1>8. ToSet(PendingLeaves) = 1 .. NoteCount(req)
  BY <1>6, <1>7
<1> QED
  BY <1>2, <1>4, <1>5, <1>7, <1>8

\* A sequence with the deposit's leaves at its end.
LEMMA WithPending ==
  ASSUME req \in Requests, ValidRequest(req), NEW s \in Seq(Int)
  PROVE  /\ s \o PendingLeaves \in Seq(Int)
         /\ Len(s \o PendingLeaves) = Len(s) + NoteCount(req)
         /\ \A j \in 1 .. Len(s) : (s \o PendingLeaves)[j] = s[j]
         /\ \A j \in 1 .. NoteCount(req) : (s \o PendingLeaves)[Len(s) + j] = j
         /\ IsPrefix(s, s \o PendingLeaves)
         /\ ToSet(PendingLeaves) \subseteq ToSet(s \o PendingLeaves)
<1> DEFINE t == s \o PendingLeaves
<1>1. /\ NoteCount(req) \in Nat \ {0} /\ PendingLeaves \in Seq(Int)
      /\ Len(PendingLeaves) = NoteCount(req) /\ Len(s) \in Nat
      /\ \A j \in 1 .. NoteCount(req) : PendingLeaves[j] = j
      /\ ToSet(PendingLeaves) = 1 .. NoteCount(req)
  BY Pending, LenProperties
<1>2. /\ t \in Seq(Int) /\ Len(t) = Len(s) + NoteCount(req)
      /\ \A j \in 1 .. Len(s) + NoteCount(req) :
           t[j] = IF j <= Len(s) THEN s[j] ELSE PendingLeaves[j - Len(s)]
  <2>1. PendingLeaves \in Seq(Int) /\ Len(PendingLeaves) = NoteCount(req)
    BY <1>1
  <2>2. /\ t \in Seq(Int) /\ Len(t) = Len(s) + Len(PendingLeaves)
        /\ \A j \in 1 .. Len(s) + Len(PendingLeaves) :
             t[j] = IF j <= Len(s) THEN s[j] ELSE PendingLeaves[j - Len(s)]
    BY ONLY s \in Seq(Int), <2>1, ConcatProperties
  <2> QED
    BY <2>1, <2>2
<1> HIDE DEF t
<1>3. \A j \in 1 .. Len(s) : t[j] = s[j]
  BY <1>1, <1>2
<1>4. ASSUME NEW j \in 1 .. NoteCount(req) PROVE t[Len(s) + j] = j
  <2>1. Len(s) + j \in 1 .. Len(s) + NoteCount(req) /\ ~(Len(s) + j <= Len(s))
        /\ (Len(s) + j) - Len(s) = j
    BY <1>1
  <2> QED
    BY <1>1, <1>2, <2>1
<1>5. IsPrefix(s, t)
  <2>1. Len(s) <= Len(t)
    BY <1>1, <1>2
  <2> QED
    BY ONLY <1>2, <1>3, <2>1, s \in Seq(Int), PrefixMeans
<1>6. ASSUME NEW x \in ToSet(PendingLeaves) PROVE x \in ToSet(t)
  <2>1. x \in 1 .. NoteCount(req) /\ Len(s) + x \in 1 .. Len(t) /\ t[Len(s) + x] = x
    BY <1>1, <1>2, <1>4, <1>6
  <2> QED
    BY <1>2, <2>1, Elements
<1> QED
  BY <1>2, <1>3, <1>4, <1>5, <1>6 DEF t

\* The leaves of others are not the deposit's.
LEMMA ForeignLeaves ==
  ASSUME NEW k \in Nat
  PROVE  Foreign(k) \in Int /\ IsForeign(Foreign(k))
BY DEF Foreign, IsForeign

-----------------------------------------------------------------------------
(* What does not change *)

\* The request is the same throughout, and what follows from it alone.
LEMMA SameRequest ==
  ASSUME req' = req
  PROVE  /\ ApprovalAmount' = ApprovalAmount /\ PendingLeaves' = PendingLeaves
         /\ NoteCount(req)' = NoteCount(req) /\ Recipients' = Recipients
         /\ ValidRequest(req)' <=> ValidRequest(req)
         /\ OnSolana' <=> OnSolana
         /\ OnTron' <=> OnTron
         /\ NeedsProof' <=> NeedsProof
         /\ NativeNotes(req)' <=> NativeNotes(req)
         /\ \A c : SolanaRootBuckets(c)' = SolanaRootBuckets(c)
         /\ proofBatchSize' = proofBatchSize
BY DEF ApprovalAmount, PendingLeaves, NoteCount, Recipients, ValidRequest, ValidAmounts,
       OnSolana, OnTron, NeedsProof, NativeNotes, SolanaRootBuckets, proofBatchSize, SumOf, NoteAmount

\* The deposit and the chain stand still.
LEMMA SameDeposit ==
  ASSUME depVars' = depVars
  PROVE  /\ DepositInv => DepositInv'
         /\ FitInv => FitInv'
         /\ LeavesInv => LeavesInv'
         /\ DepositLandsOnce => DepositLandsOnce'
<1>1. /\ req' = req /\ leaves' = leaves /\ bounds' = bounds /\ tree' = tree
      /\ allowance' = allowance /\ dep' = dep /\ overtaken' = overtaken /\ missed' = missed
  BY DEF depVars
<1>2. DepositInv => DepositInv'
  BY <1>1, SameRequest DEF DepositInv
<1>3. InFlight' <=> InFlight
  BY <1>1 DEF InFlight
<1>4. Landed' <=> Landed
  BY <1>1 DEF Landed
<1>5. FitInv => FitInv'
  BY <1>1, <1>3, <1>4, SameRequest DEF FitInv, IndexOf
<1>6. LeavesInv => LeavesInv'
  BY <1>1, <1>4, SameRequest DEF LeavesInv, LandedAt
<1>7. DepositLandsOnce => DepositLandsOnce'
  BY <1>1 DEF DepositLandsOnce
<1> QED
  BY <1>2, <1>5, <1>6, <1>7

\* The leaves stand still, and so does the batch.
LEMMA SameLeaves ==
  ASSUME req' = req, leaves' = leaves, bounds' = bounds, tree' = tree,
         Landed' <=> Landed, batch' = batch, worker' = worker, nonces' = nonces,
         stirred' = stirred
  PROVE  /\ LeavesInv => LeavesInv'
         /\ ItemsInv => ItemsInv'
         /\ WorkerInv => WorkerInv'
<1>1. LeavesInv => LeavesInv'
  BY SameRequest DEF LeavesInv, LandedAt
<1>2. ASSUME NEW root, NEW index PROVE Provable(root, index)' <=> Provable(root, index)
  BY SameRequest DEF Provable, Accepted, IndexOf
<1>3. ASSUME NEW i, NEW item PROVE Asked(i, item)' <=> Asked(i, item)
  BY SameRequest DEF Asked, CalculateTotalFee, OnTron
<1>4. ItemsInv => ItemsInv'
  BY <1>2, <1>3, SameRequest DEF ItemsInv
<1>5. WorkerInv => WorkerInv'
  BY <1>2, SameRequest DEF WorkerInv, Provable, Accepted, IndexOf
<1> QED
  BY <1>1, <1>4, <1>5

\* A step of the deposit touches neither the leaves nor the batch: what is left
\* to show is where it takes the deposit itself.
LEMMA DepositMoves ==
  ASSUME IInv, chainVars' = chainVars, missed' = missed, sendVars' = sendVars,
         Landed' <=> Landed,
         dep.pc \notin {"prepared", "done", "failed"},
         dep.pc \in {"start", "index"} => dep'.pc \in {"index", "prepared", "failed"},
         dep.pc \notin {"start", "index"} => dep'.pc \notin {"start", "index", "prepared"},
         TypeOK', DepositInv', FitInv', DepositLandsOnce'
  PROVE  IInv'
<1>1. req' = req /\ leaves' = leaves /\ bounds' = bounds /\ tree' = tree
  BY DEF chainVars
<1>2. /\ batch' = batch /\ sched' = sched /\ call' = call
  BY DEF sendVars
<1>3. LeavesInv' /\ ItemsInv' /\ WorkerInv'
  BY <1>1, SameLeaves DEF IInv, sendVars
<1>4. BatchInv'
  BY <1>1, <1>2, SameRequest DEF IInv, BatchInv
<1>5. sched = NotScheduled /\ call # "ok"
  BY DEF IInv, ScheduleInv
<1>6. ScheduleInv'
  BY <1>2, <1>5 DEF ScheduleInv, NotScheduled
<1> QED
  BY <1>3, <1>4, <1>6 DEF IInv

\* A step of the batch touches nothing of the deposit, and nothing is scheduled
\* before the batch is done.
LEMMA BatchMoves ==
  ASSUME IInv, batchFrame' = batchFrame, batch.pc # "done",
         TypeOK', BatchInv', ItemsInv', WorkerInv'
  PROVE  IInv'
<1>1. depVars' = depVars /\ call' = call /\ sched' = sched
  BY DEF batchFrame
<1>2. DepositInv' /\ FitInv' /\ LeavesInv' /\ DepositLandsOnce'
  BY <1>1, SameDeposit DEF IInv
<1>3. ScheduleInv'
  BY <1>1 DEF IInv, ScheduleInv, depVars, NotScheduled
<1> QED
  BY <1>2, <1>3 DEF IInv

\* The leaves grow, and the contract keeps one more root.
LEMMA Grows ==
  ASSUME TypeOK, LeavesInv, req' = req, NEW new \in Seq(Int), Len(new) > 0, Grow(new)
  PROVE  /\ leaves' \in Seq(Int) /\ Len(leaves') = Len(leaves) + Len(new)
         /\ \A j \in 1 .. Len(leaves) : leaves'[j] = leaves[j]
         /\ \A j \in 1 .. Len(new) : leaves'[Len(leaves) + j] = new[j]
         /\ leaves' # leaves
         /\ bounds \subseteq bounds' /\ bounds' \subseteq 1 .. Len(leaves')
         /\ Len(leaves') \in bounds' /\ IsPrefix(tree, leaves')
         /\ \A s \in Seq(Int) : IsPrefix(s, leaves) => IsPrefix(s, leaves')
         /\ \A s \in Seq(Int) : \A k : Accepted(s, k) => Accepted(s, k)'
<1>1. leaves' = leaves \o new /\ bounds' = bounds \union {Len(leaves) + Len(new)}
  BY DEF Grow
<1>2. /\ leaves \in Seq(Int) /\ tree \in Seq(Int) /\ bounds \subseteq 1 .. Len(leaves)
      /\ IsPrefix(tree, leaves) /\ Len(leaves) \in Nat /\ Len(new) \in Nat
  BY LenProperties DEF TypeOK, LeavesInv
<1>3. /\ leaves' \in Seq(Int) /\ Len(leaves') = Len(leaves) + Len(new)
      /\ \A j \in 1 .. Len(leaves) + Len(new) :
           leaves'[j] = IF j <= Len(leaves) THEN leaves[j] ELSE new[j - Len(leaves)]
  BY ONLY <1>1, <1>2, new \in Seq(Int), ConcatProperties
<1>4. \A j \in 1 .. Len(leaves) : leaves'[j] = leaves[j]
  BY <1>2, <1>3
<1>5. ASSUME NEW j \in 1 .. Len(new) PROVE leaves'[Len(leaves) + j] = new[j]
  <2>1. /\ Len(leaves) + j \in 1 .. Len(leaves) + Len(new)
        /\ ~(Len(leaves) + j <= Len(leaves)) /\ (Len(leaves) + j) - Len(leaves) = j
    BY <1>2
  <2> QED
    BY <1>3, <2>1
<1>6. leaves' # leaves
  BY <1>2, <1>3
<1>7. bounds \subseteq bounds' /\ bounds' \subseteq 1 .. Len(leaves') /\ Len(leaves') \in bounds'
  <2>1. Len(leaves') \in 1 .. Len(leaves') /\ 1 .. Len(leaves) \subseteq 1 .. Len(leaves')
    BY <1>2, <1>3
  <2> QED
    BY <1>1, <1>2, <1>3, <2>1
<1>8. ASSUME NEW s \in Seq(Int), IsPrefix(s, leaves) PROVE IsPrefix(s, leaves')
  BY <1>1, <1>2, <1>8, PrefixGrows
<1>9. ASSUME NEW s \in Seq(Int), NEW k, Accepted(s, k) PROVE Accepted(s, k)'
  <2>1. IsPrefix(s, leaves') /\ Len(s) \in bounds'
    BY <1>7, <1>8, <1>9 DEF Accepted
  <2> QED
    BY <1>9, <2>1 DEF Accepted, IndexOf
<1> QED
  BY <1>2, <1>3, <1>4, <1>5, <1>6, <1>7, <1>8, <1>9

-----------------------------------------------------------------------------
(* The beginning *)

\* The call starts with one leaf of somebody else on the chain and nothing done.
LEMMA Starts == Init => IInv
<1> SUFFICES ASSUME Init PROVE IInv
  OBVIOUS
<1> DEFINE dep0 == [pc |-> "start", root |-> <<>>, index |-> 0, buckets |-> {},
                    swapped |-> FALSE, approval |-> "none", polls |-> 0, gas |-> FALSE,
                    wire |-> <<>>, open |-> FALSE]
           batch0 == [pc |-> "idle", start |-> 1, busy |-> {}, failed |-> FALSE,
                      items |-> [i \in Recipients |-> <<>>]]
<1>1. /\ req \in Requests /\ leaves = <<Foreign(0)>> /\ bounds = {1}
      /\ tree \in {<<>>, leaves} /\ allowance \in Nat /\ earlier \in {0, Earlier}
      /\ dep = dep0 /\ overtaken = FALSE /\ missed = FALSE
  BY DEF Init, DepositInit
<1>2. /\ call = "running" /\ batch = batch0 /\ worker = Idle /\ nonces = {}
      /\ stirred = {} /\ sched = NotScheduled
  BY DEF Init
<1>3. Foreign(0) \in Int /\ IsForeign(Foreign(0))
  BY ForeignLeaves
<1>4. /\ leaves \in Seq(Int) /\ Len(leaves) = 1 /\ DOMAIN leaves = {1}
      /\ leaves[1] = Foreign(0)
  BY <1>1, <1>3
<1>5. /\ dep.pc = "start" /\ dep.wire = <<>> /\ dep.gas = FALSE /\ dep.polls = 0
      /\ dep.approval = "none" /\ dep.swapped = FALSE /\ DOMAIN dep.wire = {}
      /\ Len(dep.wire) = 0
  BY <1>1
<1>6. /\ batch.pc = "idle" /\ batch.start = 1 /\ batch.busy = {} /\ batch.failed = FALSE
      /\ \A i \in Recipients : batch.items[i] = <<>>
  BY <1>2
<1>7. /\ WaitAttempts \in Nat \ {0} /\ SendRetries \in Nat \ {0} /\ Earlier \in Nat
  BY DepositAssumption
<1>8. ~Landed /\ ~InFlight
  BY <1>5 DEF Landed, InFlight
<1>9. TypeOK
  <2>1. dep0 \in Deposits
    BY <1>7 DEF Deposits, Places
  <2>2. /\ batch0.items \in [Recipients -> Seq(Withdrawals)]
        /\ batch0 \in [pc : {"idle", "next", "group", "done", "failed"},
                       start : Nat \ {0}, busy : SUBSET Recipients, failed : BOOLEAN,
                       items : [Recipients -> Seq(Withdrawals)]]
    <3>1. <<>> \in Seq(Withdrawals)
      OBVIOUS
    <3> QED
      BY <3>1
  <2>3. Idle \in [phase : {"idle", "scan", "clone", "root", "index", "path"},
                  k : Nat, present : Nat, root : Seq(Int), index : Int]
    BY DEF Idle
  <2>4. bounds \subseteq 1 .. Len(leaves) /\ tree \in Seq(Int)
    <3>1. 1 \in 1 .. Len(leaves) /\ <<>> \in Seq(Int)
      BY <1>4
    <3> QED
      BY <1>1, <1>4, <3>1
  <2> HIDE DEF dep0, batch0
  <2>5. dep \in Deposits /\ Len(dep.wire) <= SendRetries
    BY <1>1, <1>5, <1>7, <2>1
  <2> QED
    BY <1>1, <1>2, <1>4, <2>2, <2>3, <2>4, <2>5 DEF TypeOK
<1> HIDE DEF dep0, batch0
<1>10. DepositInv
  BY <1>1, <1>5, <1>7 DEF DepositInv, Unsent, Places
<1>11. FitInv
  BY <1>5, <1>8 DEF FitInv
<1>12. LeavesInv
  <2>1. IsPrefix(tree, leaves)
    <3>1. <<>> \in Seq(Int) /\ Len(<<>>) = 0
      BY EmptySeq
    <3>2. IsPrefix(<<>>, leaves)
      <4>1. Len(<<>>) <= Len(leaves) /\ \A j \in 1 .. Len(<<>>) : <<>>[j] = leaves[j]
        BY <1>4, <3>1
      <4> QED
        BY <1>4, <3>1, <4>1, PrefixMeans
    <3> QED
      BY <1>1, <1>4, <3>2, PrefixSelf
  <2> QED
    BY <1>1, <1>3, <1>4, <1>8, <2>1 DEF LeavesInv
<1>13. BatchInv
  BY <1>1, <1>5, <1>6, RequestTypes DEF BatchInv
<1>14. ItemsInv /\ WorkerInv /\ ScheduleInv /\ DepositLandsOnce
  BY <1>2, <1>5, <1>6 DEF ItemsInv, WorkerInv, ScheduleInv, DepositLandsOnce, Idle
<1> QED
  BY <1>9, <1>10, <1>11, <1>12, <1>13, <1>14 DEF IInv

-----------------------------------------------------------------------------
(* The chain and the indexer *)

\* stirred only grows, and by recipients.
LEMMA StirredGrows ==
  ASSUME TypeOK, stirred' = stirred \union Disturbed
  PROVE  /\ stirred \subseteq stirred' /\ stirred' \subseteq Recipients
         /\ leaves' # leaves /\ ~Landed /\ dep'.wire = dep.wire =>
              \A i \in Recipients : batch.items[i] # <<>> \/ i \in batch.busy => i \in stirred'
         /\ tree' # tree /\ worker.phase # "idle" => batch.busy \subseteq stirred'
BY DEF Disturbed, Built, TypeOK

\* What the batch has built is a withdrawal.
LEMMA ItemTypes ==
  ASSUME TypeOK, NEW i \in Recipients, batch.items[i] # <<>>
  PROVE  batch.items[i][1] \in Withdrawals /\ batch.items[i][1].root \in Seq(Int)
<1>1. batch.items[i] \in Seq(Withdrawals)
  BY DEF TypeOK
<1>2. Len(batch.items[i]) \in Nat \ {0}
  BY <1>1, EmptySeq
<1>3. batch.items[i][1] \in Withdrawals
  BY <1>1, <1>2, ElementOfSeq, 1 \in 1 .. Len(batch.items[i])
<1> QED
  BY <1>3 DEF Withdrawals

\* Another user's deposit: what is built on the leaves before it is stirred
\* unless the deposit has landed.
LEMMA OtherLeafKeeps ==
  ASSUME IInv, OtherLeaf, stirred' = stirred \union Disturbed,
         UNCHANGED <<call, batch, worker, nonces, sched>>
  PROVE  IInv'
<1> DEFINE k == Cardinality({i \in DOMAIN leaves : IsForeign(leaves[i])})
<1>1. /\ Grow(<<Foreign(k)>>)
      /\ overtaken' = (overtaken \/ (OnSolana /\ dep.pc # "start"))
      /\ req' = req /\ tree' = tree /\ allowance' = allowance /\ earlier' = earlier
      /\ dep' = dep /\ missed' = missed
  BY DEF OtherLeaf
<1>2. /\ TypeOK /\ LeavesInv /\ leaves \in Seq(Int) /\ tree \in Seq(Int)
      /\ bounds \subseteq 1 .. Len(leaves) /\ req \in Requests
  BY DEF IInv, TypeOK
<1>3. k \in Nat
  <2>1. IsFiniteSet(DOMAIN leaves)
    BY <1>2, LenProperties, FS_Interval, 1 \in Int, Len(leaves) \in Int
  <2> QED
    BY <2>1, FS_Subset, FS_CardinalityType
<1> HIDE DEF k
<1> DEFINE new == <<Foreign(k)>>
<1>4. Foreign(k) \in Int /\ IsForeign(Foreign(k))
  BY <1>3, ForeignLeaves
<1>5. new \in Seq(Int) /\ Len(new) = 1 /\ new[1] = Foreign(k)
  BY <1>4
<1> HIDE DEF new
<1>6. /\ leaves' \in Seq(Int) /\ Len(leaves') = Len(leaves) + 1
      /\ \A j \in 1 .. Len(leaves) : leaves'[j] = leaves[j]
      /\ leaves'[Len(leaves) + 1] = Foreign(k)
      /\ leaves' # leaves
      /\ bounds \subseteq bounds' /\ bounds' \subseteq 1 .. Len(leaves')
      /\ Len(leaves') \in bounds' /\ IsPrefix(tree, leaves')
      /\ \A s \in Seq(Int) : IsPrefix(s, leaves) => IsPrefix(s, leaves')
      /\ \A s \in Seq(Int) : \A i : Accepted(s, i) => Accepted(s, i)'
  <2>1. Grow(new)
    BY <1>1 DEF new
  <2> QED
    <3>1. 1 \in 1 .. Len(new) /\ Len(new) > 0
      BY <1>5
    <3> QED
      BY <1>1, <1>2, <1>5, <2>1, <3>1, Grows
<1>7. /\ stirred \subseteq stirred' /\ stirred' \subseteq Recipients
      /\ ~Landed => \A i \in Recipients : batch.items[i] # <<>> \/ i \in batch.busy => i \in stirred'
  BY <1>1, <1>2, <1>6, StirredGrows
<1>8. /\ Landed' <=> Landed
      /\ InFlight' <=> InFlight
  BY <1>1 DEF Landed, InFlight
<1>9. TypeOK'
  BY <1>1, <1>2, <1>6, <1>7, SameRequest DEF TypeOK
<1>10. DepositInv'
  BY <1>1, SameRequest DEF IInv, DepositInv
<1>11. FitInv'
  <2>1. dep.root \in Seq(Int)
    BY <1>2 DEF TypeOK, Deposits
  <2>2. InFlight => dep.pc # "start"
    BY DEF IInv, DepositInv, InFlight
  <2> QED
    BY <1>1, <1>6, <1>8, <2>1, <2>2, SameRequest DEF IInv, FitInv, IndexOf
<1>12. LeavesInv'
  <2>1. /\ DOMAIN leaves = 1 .. Len(leaves) /\ DOMAIN leaves' = 1 .. Len(leaves')
        /\ Len(leaves) \in Nat
    BY <1>2, <1>6, LenProperties
  <2>2. ASSUME ~Landed', NEW j \in DOMAIN leaves' PROVE IsForeign(leaves'[j])
    <3>1. j \in DOMAIN leaves \/ j = Len(leaves) + 1
      BY <1>6, <2>1
    <3> QED
      BY <1>2, <1>4, <1>6, <1>8, <2>1, <2>2, <3>1 DEF LeavesInv
  <2>3. ASSUME Landed', req'.flow \in Scheduled
        PROVE  \E n \in 0 .. Len(leaves') : LandedAt(n)'
    <3>1. PICK n \in 0 .. Len(leaves) : LandedAt(n)
      BY <1>1, <1>2, <1>8, <2>3 DEF LeavesInv
    <3>2. NoteCount(req)' = NoteCount(req) /\ n + NoteCount(req) \in bounds
      BY <1>1, <3>1, SameRequest DEF LandedAt
    <3>4. NoteCount(req) \in Nat
      BY <1>2, NoteCountNat
    <3>3. n + NoteCount(req) <= Len(leaves)
      <4>1. n + NoteCount(req) \in 1 .. Len(leaves)
        BY <1>2, <3>2
      <4> QED
        BY <2>1, <3>4, <4>1
    <3>5. \A j \in 1 .. NoteCount(req) : n + j \in 1 .. Len(leaves)
      BY <2>1, <3>3, <3>4
    <3>6. \A j \in 1 .. NoteCount(req) : leaves'[n + j] = j
      BY <1>6, <3>1, <3>5 DEF LandedAt
    <3>7. ASSUME NEW j \in DOMAIN leaves'
          PROVE  j \in n + 1 .. n + NoteCount(req) \/ IsForeign(leaves'[j])
      <4>1. j \in DOMAIN leaves \/ j = Len(leaves) + 1
        BY <1>6, <2>1
      <4> QED
        BY <1>4, <1>6, <2>1, <3>1, <4>1 DEF LandedAt
    <3>8. LandedAt(n)'
      BY <1>6, <3>2, <3>6, <3>7 DEF LandedAt
    <3> QED
      BY <1>6, <2>1, <3>8
  <2> QED
    BY <1>1, <1>6, <2>2, <2>3 DEF LeavesInv
<1>13. BatchInv'
  BY <1>1, SameRequest DEF IInv, BatchInv
<1>14. ASSUME Landed, NEW s \in Seq(Int), NEW i, Provable(s, i) PROVE Provable(s, i)'
  BY <1>1, <1>6, <1>8, <1>14, SameRequest DEF Provable
<1>15. ASSUME NEW i \in Recipients, batch.items[i] # <<>>
       PROVE  /\ Asked(i, batch.items[i][1])'
              /\ i \notin stirred' => Provable(batch.items[i][1].root, batch.items[i][1].index)'
  <2> DEFINE item == batch.items[i][1]
  <2>1. Asked(i, item) /\ (i \notin stirred => Provable(item.root, item.index))
    BY <1>15 DEF IInv, ItemsInv
  <2>2. Asked(i, item)'
    BY <1>1, <2>1, SameRequest DEF Asked, CalculateTotalFee, OnTron
  <2>3. item.root \in Seq(Int)
    BY <1>2, <1>15, ItemTypes
  <2> QED
    BY <1>7, <1>14, <1>15, <2>1, <2>2, <2>3
<1>16. ItemsInv'
  <2>1. Recipients' = Recipients /\ batch' = batch
    BY <1>1, SameRequest
  <2> QED
    BY <1>15, <2>1 DEF ItemsInv
<1>17. WorkerInv'
  <2> SUFFICES ASSUME worker.phase # "idle" PROVE WorkerInv'
    BY <1>1 DEF WorkerInv
  <2>1. /\ WorkerInv /\ batch.start \in batch.busy /\ batch.busy \subseteq Recipients
        /\ ValidRequest(req)
    BY <1>2 DEF IInv, WorkerInv, TypeOK, BatchInv
  <2>2. batch.start \notin stirred' => Landed /\ batch.start \notin stirred
    BY <1>7, <2>1
  <2>3. tree \o PendingLeaves \in Seq(Int)
    BY <1>2, <2>1, WithPending
  <2> QED
    BY <1>1, <1>2, <1>6, <1>8, <2>1, <2>2, <2>3, SameRequest
       DEF WorkerInv, Provable, Accepted, IndexOf
<1>18. ScheduleInv'
  BY <1>1, SameRequest DEF IInv, ScheduleInv, NotScheduled
<1>19. DepositLandsOnce'
  BY <1>1 DEF IInv, DepositLandsOnce
<1> QED
  BY <1>9, <1>10, <1>11, <1>12, <1>13, <1>16, <1>17, <1>18, <1>19 DEF IInv

\* The indexer adds a leaf to the live tree: a local worker is stirred.
LEMMA AcceptLeafKeeps ==
  ASSUME IInv, AcceptLeaf, stirred' = stirred \union Disturbed,
         UNCHANGED <<call, batch, worker, nonces, sched>>
  PROVE  IInv'
<1>1. /\ Len(tree) < Len(leaves) /\ tree' = Append(tree, leaves[Len(tree) + 1])
      /\ req' = req /\ leaves' = leaves /\ bounds' = bounds /\ allowance' = allowance
      /\ earlier' = earlier /\ dep' = dep /\ overtaken' = overtaken /\ missed' = missed
  BY DEF AcceptLeaf
<1>2. /\ TypeOK /\ leaves \in Seq(Int) /\ tree \in Seq(Int) /\ IsPrefix(tree, leaves)
      /\ Len(tree) \in Nat /\ Len(leaves) \in Nat
  BY LenProperties DEF IInv, TypeOK, LeavesInv
<1>3. leaves[Len(tree) + 1] \in Int
  BY <1>1, <1>2, ElementOfSeq, Len(tree) + 1 \in 1 .. Len(leaves)
<1>4. /\ tree' \in Seq(Int) /\ Len(tree') = Len(tree) + 1
      /\ \A j \in 1 .. Len(tree) : tree'[j] = tree[j]
      /\ tree'[Len(tree) + 1] = leaves[Len(tree) + 1]
  BY <1>1, <1>2, <1>3, AppendProperties
<1>5. IsPrefix(tree', leaves)
  <2>1. \A j \in 1 .. Len(tree) : tree[j] = leaves[j]
    BY <1>2, PrefixMeans
  <2>2. ASSUME NEW j \in 1 .. Len(tree') PROVE tree'[j] = leaves[j]
    <3>1. j \in 1 .. Len(tree) \/ j = Len(tree) + 1
      BY <1>2, <1>4
    <3> QED
      BY <1>4, <2>1, <3>1
  <2>3. Len(tree') <= Len(leaves)
    BY <1>1, <1>2, <1>4
  <2> QED
    BY <1>2, <1>4, <2>2, <2>3, PrefixMeans
<1>6. tree' # tree
  BY <1>2, <1>4
<1>7. /\ stirred \subseteq stirred' /\ stirred' \subseteq Recipients
      /\ worker.phase # "idle" => batch.busy \subseteq stirred'
  BY <1>2, <1>6, StirredGrows
<1>8. /\ Landed' <=> Landed
      /\ InFlight' <=> InFlight
  BY <1>1 DEF Landed, InFlight
<1>9. TypeOK'
  BY <1>1, <1>2, <1>4, <1>7, SameRequest DEF TypeOK
<1>10. DepositInv'
  BY <1>1, SameRequest DEF IInv, DepositInv
<1>11. FitInv'
  BY <1>1, <1>8, SameRequest DEF IInv, FitInv, IndexOf
<1>12. LeavesInv'
  BY <1>1, <1>5, <1>8, SameRequest DEF IInv, LeavesInv, LandedAt
<1>13. BatchInv'
  BY <1>1, SameRequest DEF IInv, BatchInv
<1>14. ItemsInv'
  <2>1. ASSUME NEW root, NEW index PROVE Provable(root, index)' <=> Provable(root, index)
    BY <1>1, <1>8, SameRequest DEF Provable, Accepted, IndexOf
  <2>2. ASSUME NEW i, NEW item PROVE Asked(i, item)' <=> Asked(i, item)
    BY <1>1, SameRequest DEF Asked, CalculateTotalFee, OnTron
  <2> QED
    BY <1>1, <1>7, <2>1, <2>2, SameRequest DEF IInv, ItemsInv
<1>15. WorkerInv'
  <2> SUFFICES ASSUME worker.phase # "idle" PROVE WorkerInv'
    BY <1>1 DEF WorkerInv
  <2>1. WorkerInv /\ batch.start \in stirred'
    BY <1>7 DEF IInv, WorkerInv
  <2> QED
    BY <1>1, <1>8, <2>1, SameRequest DEF WorkerInv
<1>16. ScheduleInv'
  BY <1>1, SameRequest DEF IInv, ScheduleInv, NotScheduled
<1>17. DepositLandsOnce'
  BY <1>1 DEF IInv, DepositLandsOnce
<1> QED
  BY <1>9, <1>10, <1>11, <1>12, <1>13, <1>14, <1>15, <1>16, <1>17 DEF IInv

\* When neither the leaves nor the live tree move, nothing is stirred.
LEMMA NotStirred ==
  ASSUME TypeOK, leaves' = leaves \/ dep'.wire # dep.wire, tree' = tree,
         stirred' = stirred \union Disturbed
  PROVE  stirred' = stirred
BY DEF Disturbed

\* A step of the chain that leaves the leaves where they are, and the deposit
\* where its goroutine is.
LEMMA ChainMoves ==
  ASSUME IInv, req' = req, leaves' = leaves, bounds' = bounds, tree' = tree,
         stirred' = stirred \union Disturbed,
         UNCHANGED <<call, batch, worker, nonces, sched>>,
         Landed' <=> Landed, dep'.pc = dep.pc, Len(dep'.wire) = Len(dep.wire),
         TypeOK', DepositInv', FitInv', DepositLandsOnce'
  PROVE  IInv'
<1>1. sendVars' = sendVars
  BY NotStirred DEF sendVars, IInv
<1>2. LeavesInv' /\ ItemsInv' /\ WorkerInv'
  BY <1>1, SameLeaves DEF IInv, sendVars
<1>3. BatchInv'
  BY SameRequest DEF IInv, BatchInv
<1>4. ScheduleInv'
  BY SameRequest DEF IInv, ScheduleInv, NotScheduled
<1> QED
  BY <1>2, <1>3, <1>4 DEF IInv

\* An earlier transaction of the owner takes its part of the allowance: if the
\* deposit looks at it no more, it is overtaken.
LEMMA EarlierKeeps ==
  ASSUME IInv, EarlierLands, stirred' = stirred \union Disturbed,
         UNCHANGED <<call, batch, worker, nonces, sched>>
  PROVE  IInv'
<1>1. /\ earlier' = 0
      /\ allowance' = IF allowance >= earlier THEN allowance - earlier ELSE allowance
      /\ overtaken' = (overtaken \/ PastLastCheck)
      /\ req' = req /\ leaves' = leaves /\ bounds' = bounds /\ tree' = tree
      /\ dep' = dep /\ missed' = missed
  BY DEF EarlierLands
<1>2. /\ Landed' <=> Landed
      /\ InFlight' <=> InFlight
  BY <1>1 DEF Landed, InFlight
<1>3. stirred' = stirred
  BY <1>1, NotStirred DEF IInv
<1>4. TypeOK'
  <2>1. allowance' \in Nat
    BY <1>1, DepositAssumption DEF IInv, TypeOK
  <2>2. overtaken' \in BOOLEAN
    BY <1>1 DEF IInv, TypeOK, PastLastCheck
  <2> QED
    BY <1>1, <1>3, <2>1, <2>2, SameRequest DEF IInv, TypeOK
<1>5. DepositInv'
  BY <1>1, SameRequest DEF IInv, DepositInv
<1>6. FitInv'
  <2>1. InFlight \/ (dep.pc = "send" /\ (dep.gas \/ OnTron)) => PastLastCheck
    BY DEF InFlight, PastLastCheck
  <2>2. overtaken => overtaken'
    BY <1>1
  <2>3. PastLastCheck => overtaken'
    BY <1>1
  <2> QED
    BY <1>1, <1>2, <2>1, <2>2, <2>3, SameRequest DEF IInv, FitInv, IndexOf
<1>7. DepositLandsOnce'
  BY <1>1 DEF IInv, DepositLandsOnce
<1> QED
  BY <1>1, <1>2, <1>4, <1>5, <1>6, <1>7, ChainMoves

\* An approval is executed: only a reset lowers the allowance, and nothing is
\* sent while one is on its way.
LEMMA ApprovalKeeps ==
  ASSUME IInv, ApprovalMined, stirred' = stirred \union Disturbed,
         UNCHANGED <<call, batch, worker, nonces, sched>>
  PROVE  IInv'
<1>1. /\ dep.approval # "none"
      /\ allowance' = IF dep.approval = "reset" THEN 0 ELSE ApprovalAmount
      /\ dep' = [dep EXCEPT !.approval = "none"]
      /\ req' = req /\ leaves' = leaves /\ bounds' = bounds /\ tree' = tree
      /\ earlier' = earlier /\ overtaken' = overtaken /\ missed' = missed
  BY DEF ApprovalMined
<1>2. dep \in Deposits /\ req \in Requests
  BY DEF IInv, TypeOK
<1>3. /\ dep' \in Deposits /\ dep'.approval = "none" /\ dep'.pc = dep.pc
      /\ dep'.wire = dep.wire /\ dep'.gas = dep.gas /\ dep'.polls = dep.polls
      /\ dep'.root = dep.root /\ dep'.index = dep.index /\ dep'.buckets = dep.buckets
      /\ dep'.swapped = dep.swapped /\ dep'.open = dep.open
  BY <1>1, <1>2 DEF Deposits
<1>4. ValidRequest(req) /\ ApprovalAmount \in Nat
  BY <1>1, <1>2, ApprovalNat DEF IInv, DepositInv
<1>5. /\ Landed' <=> Landed
      /\ InFlight' <=> InFlight
  BY <1>3 DEF Landed, InFlight
<1>6. stirred' = stirred
  BY <1>1, NotStirred DEF IInv
<1>7. TypeOK'
  BY <1>1, <1>3, <1>4, <1>6, SameRequest DEF IInv, TypeOK
<1>8. DepositInv'
  BY <1>1, <1>3, SameRequest DEF IInv, DepositInv
<1>9. FitInv'
  <2>1. InFlight \/ dep.pc = "send" => dep.approval # "reset"
    BY DEF IInv, DepositInv, InFlight
  <2>2. InFlight \/ dep.pc = "send" => allowance' = ApprovalAmount
    BY <1>1, <2>1
  <2> QED
    BY <1>1, <1>3, <1>4, <1>5, <2>2, SameRequest DEF IInv, FitInv, IndexOf
<1>10. DepositLandsOnce'
  BY <1>1, <1>3 DEF IInv, DepositLandsOnce
<1> QED
  BY <1>1, <1>3, <1>5, <1>7, <1>8, <1>9, <1>10, ChainMoves

\* One entry of the wire changes.
LEMMA WireMoves ==
  ASSUME dep \in Deposits, NEW a \in DOMAIN dep.wire,
         NEW state \in {"pending", "landed", "reverted", "expired", "dropped"},
         NEW d, d = [dep EXCEPT !.wire[a] = state]
  PROVE  /\ d \in Deposits /\ d.pc = dep.pc /\ d.root = dep.root /\ d.index = dep.index
         /\ d.buckets = dep.buckets /\ d.swapped = dep.swapped
         /\ d.approval = dep.approval /\ d.polls = dep.polls /\ d.gas = dep.gas
         /\ d.open = dep.open
         /\ Len(d.wire) = Len(dep.wire) /\ DOMAIN d.wire = DOMAIN dep.wire
         /\ d.wire # <<>> /\ dep.wire # <<>>
         /\ \A b \in DOMAIN dep.wire : d.wire[b] = IF b = a THEN state ELSE dep.wire[b]
         /\ d.wire[a] = state
<1> DEFINE States == {"pending", "landed", "reverted", "expired", "dropped"}
           w == [dep.wire EXCEPT ![a] = state]
<1>1. dep.wire \in Seq(States) /\ DOMAIN dep.wire = 1 .. Len(dep.wire) /\ Len(dep.wire) \in Nat
  <2>1. dep.wire \in Seq(States)
    BY DEF Deposits
  <2> QED
    BY <2>1, LenProperties
<1>2. /\ w \in Seq(States) /\ Len(w) = Len(dep.wire)
      /\ \A b \in 1 .. Len(dep.wire) : w[b] = IF b = a THEN state ELSE dep.wire[b]
  BY <1>1, ExceptSeq
<1>3. DOMAIN w = DOMAIN dep.wire /\ w # <<>> /\ dep.wire # <<>>
  <2>1. DOMAIN w = DOMAIN dep.wire
    OBVIOUS
  <2>2. DOMAIN <<>> = {}
    OBVIOUS
  <2> QED
    BY <2>1, <2>2
<1>4. d = [dep EXCEPT !.wire = w]
  OBVIOUS
<1> HIDE DEF w
<1>5. /\ d \in Deposits /\ d.pc = dep.pc /\ d.root = dep.root /\ d.index = dep.index
      /\ d.buckets = dep.buckets /\ d.swapped = dep.swapped
      /\ d.approval = dep.approval /\ d.polls = dep.polls /\ d.gas = dep.gas
      /\ d.open = dep.open /\ d.wire = w
  BY <1>1, <1>2, <1>4 DEF Deposits
<1> QED
  BY <1>1, <1>2, <1>3, <1>5

\* A deposit on its way that does not fit was overtaken, or is not the first.
LEMMA PendingFits ==
  ASSUME IInv, NEW a \in DOMAIN dep.wire, dep.wire[a] = "pending", ~overtaken, ~missed
  PROVE  DepositFits /\ ~Landed
<1>1. /\ InFlight /\ dep.wire # <<>> /\ a = Len(dep.wire)
      /\ dep.pc \in {"done", "failed", "confirm"}
  BY DEF IInv, DepositInv, InFlight
<1>2. ~Landed
  BY <1>1 DEF IInv, DepositInv, Landed
<1>3. allowance >= ApprovalAmount
  BY <1>1 DEF IInv, FitInv
<1>4. NeedsProof => Accepted(dep.root, dep.index)
  BY <1>1 DEF IInv, FitInv, Accepted
<1>5. OnTron => ~dep.swapped
  BY <1>1 DEF IInv, FitInv
<1>6. OnSolana => SolanaRootBuckets(Len(leaves)) = dep.buckets
  BY <1>1, <1>2 DEF IInv, FitInv
<1> QED
  BY <1>2, <1>3, <1>4, <1>5, <1>6 DEF DepositFits

\* The deposit reverts.
LEMMA RevertKeeps ==
  ASSUME IInv, NEW a \in DOMAIN dep.wire, DepositLands(a), ~DepositFits,
         stirred' = stirred \union Disturbed,
         UNCHANGED <<call, batch, worker, nonces, sched>>
  PROVE  IInv'
<1>1. /\ dep.wire[a] = "pending" /\ dep' = [dep EXCEPT !.wire[a] = "reverted"]
      /\ req' = req /\ leaves' = leaves /\ bounds' = bounds /\ tree' = tree
      /\ allowance' = allowance /\ earlier' = earlier
      /\ overtaken' = overtaken /\ missed' = missed
  BY DEF DepositLands
<1>2. dep \in Deposits /\ overtaken \in BOOLEAN /\ missed \in BOOLEAN
  BY DEF IInv, TypeOK
<1>3. /\ dep' \in Deposits /\ dep'.pc = dep.pc /\ dep'.root = dep.root
      /\ dep'.index = dep.index /\ dep'.buckets = dep.buckets
      /\ dep'.swapped = dep.swapped /\ dep'.approval = dep.approval
      /\ dep'.polls = dep.polls /\ dep'.gas = dep.gas /\ dep'.open = dep.open
      /\ Len(dep'.wire) = Len(dep.wire) /\ DOMAIN dep'.wire = DOMAIN dep.wire
      /\ dep'.wire # <<>> /\ dep.wire # <<>>
      /\ \A b \in DOMAIN dep.wire : dep'.wire[b] = IF b = a THEN "reverted" ELSE dep.wire[b]
  BY <1>1, <1>2, WireMoves
<1>4. overtaken \/ missed
  BY <1>1, PendingFits
<1>5. /\ Landed' <=> Landed
      /\ InFlight' => InFlight
  BY <1>1, <1>3 DEF Landed, InFlight
<1>6. stirred' = stirred
  BY <1>1, NotStirred DEF IInv
<1>7. TypeOK'
  BY <1>1, <1>3, <1>6, SameRequest DEF IInv, TypeOK
<1>8. DepositInv'
  BY <1>1, <1>3, SameRequest DEF IInv, DepositInv
<1>9. FitInv'
  BY <1>1, <1>3, <1>5, SameRequest DEF IInv, FitInv, IndexOf
<1>10. DepositLandsOnce'
  BY <1>1, <1>3, <1>4 DEF IInv, DepositLandsOnce
<1> QED
  BY <1>1, <1>3, <1>5, <1>7, <1>8, <1>9, <1>10, ChainMoves

\* The deposit lands: the roots that withdrawals were proved on before are
\* roots of the contract now.
LEMMA LandKeeps ==
  ASSUME IInv, NEW a \in DOMAIN dep.wire, DepositLands(a), DepositFits,
         stirred' = stirred \union Disturbed,
         UNCHANGED <<call, batch, worker, nonces, sched>>
  PROVE  IInv'
<1>1. /\ dep.wire[a] = "pending" /\ dep' = [dep EXCEPT !.wire[a] = "landed"]
      /\ Grow(PendingLeaves) /\ allowance' = allowance - ApprovalAmount
      /\ req' = req /\ tree' = tree /\ earlier' = earlier
      /\ overtaken' = overtaken /\ missed' = missed
  BY DEF DepositLands
<1>2. /\ TypeOK /\ LeavesInv /\ dep \in Deposits /\ req \in Requests
      /\ leaves \in Seq(Int) /\ tree \in Seq(Int) /\ bounds \subseteq 1 .. Len(leaves)
      /\ dep.root \in Seq(Int)
  BY DEF IInv, TypeOK, Deposits
<1>3. /\ dep' \in Deposits /\ dep'.pc = dep.pc /\ dep'.root = dep.root
      /\ dep'.index = dep.index /\ dep'.buckets = dep.buckets
      /\ dep'.swapped = dep.swapped /\ dep'.approval = dep.approval
      /\ dep'.polls = dep.polls /\ dep'.gas = dep.gas /\ dep'.open = dep.open
      /\ Len(dep'.wire) = Len(dep.wire) /\ DOMAIN dep'.wire = DOMAIN dep.wire
      /\ dep'.wire # <<>> /\ dep.wire # <<>>
      /\ \A b \in DOMAIN dep.wire : dep'.wire[b] = IF b = a THEN "landed" ELSE dep.wire[b]
      /\ dep'.wire[a] = "landed"
  <2>1. dep' = [dep EXCEPT !.wire[a] = "landed"] /\ dep \in Deposits
    BY <1>1, <1>2
  <2> QED
    BY ONLY <2>1, a \in DOMAIN dep.wire, WireMoves
<1>4. /\ a = Len(dep.wire) /\ ValidRequest(req)
      /\ dep.pc \in {"done", "failed"} \/ (dep.pc = "confirm" /\ dep.open)
  BY <1>1, <1>3 DEF IInv, DepositInv
<1>5. /\ NoteCount(req) \in Nat \ {0} /\ PendingLeaves \in Seq(Int)
      /\ Len(PendingLeaves) = NoteCount(req)
      /\ \A j \in 1 .. NoteCount(req) : PendingLeaves[j] = j
  BY <1>2, <1>4, Pending
<1>6. /\ leaves' \in Seq(Int) /\ Len(leaves') = Len(leaves) + NoteCount(req)
      /\ \A j \in 1 .. Len(leaves) : leaves'[j] = leaves[j]
      /\ \A j \in 1 .. NoteCount(req) : leaves'[Len(leaves) + j] = j
      /\ bounds \subseteq bounds' /\ bounds' \subseteq 1 .. Len(leaves')
      /\ Len(leaves') \in bounds' /\ IsPrefix(tree, leaves')
      /\ \A s \in Seq(Int) : IsPrefix(s, leaves) => IsPrefix(s, leaves')
  <2>1. /\ TypeOK /\ LeavesInv /\ req' = req /\ Grow(PendingLeaves)
        /\ PendingLeaves \in Seq(Int) /\ Len(PendingLeaves) > 0
    BY <1>1, <1>2, <1>5
  <2>2. /\ leaves' \in Seq(Int) /\ Len(leaves') = Len(leaves) + Len(PendingLeaves)
        /\ \A j \in 1 .. Len(leaves) : leaves'[j] = leaves[j]
        /\ \A j \in 1 .. Len(PendingLeaves) : leaves'[Len(leaves) + j] = PendingLeaves[j]
        /\ bounds \subseteq bounds' /\ bounds' \subseteq 1 .. Len(leaves')
        /\ Len(leaves') \in bounds' /\ IsPrefix(tree, leaves')
        /\ \A s \in Seq(Int) : IsPrefix(s, leaves) => IsPrefix(s, leaves')
    BY ONLY <2>1, Grows
  <2> QED
    BY <1>5, <2>2
<1>7. leaves' = leaves \o PendingLeaves
  BY <1>1 DEF Grow
<1>8. ToSet(PendingLeaves) \subseteq ToSet(leaves') /\ IsPrefix(leaves', leaves')
  <2>1. ToSet(PendingLeaves) \subseteq ToSet(leaves \o PendingLeaves)
    BY <1>2, <1>4, WithPending
  <2>2. IsPrefix(leaves', leaves')
    BY <1>6, PrefixSelf
  <2> QED
    BY <1>7, <2>1, <2>2
<1>9. Landed'
  BY <1>3 DEF Landed
<1>10. ~InFlight'
  BY <1>3, <1>4 DEF IInv, DepositInv, InFlight
<1>11. req.flow # "solanaDeposit" => ~Landed
  <2>1. SUFFICES ASSUME req.flow # "solanaDeposit", NEW b \in DOMAIN dep.wire,
                        dep.wire[b] = "landed"
                 PROVE  FALSE
    BY DEF Landed
  <2>2. Len(dep.wire) <= 1 /\ DOMAIN dep.wire = 1 .. Len(dep.wire)
    BY <1>2, <2>1, LenProperties DEF IInv, DepositInv, Deposits
  <2> QED
    BY <1>1, <1>4, <2>1, <2>2
<1>12. stirred' = stirred
  BY <1>1, <1>2, <1>3, NotStirred
<1>13. TypeOK'
  <2>1. allowance' \in Nat
    BY <1>1, <1>2, <1>4, ApprovalNat DEF DepositFits, TypeOK
  <2> QED
    BY <1>1, <1>2, <1>3, <1>6, <1>12, <2>1, SameRequest, SMTT(30) DEF TypeOK
<1>14. DepositInv'
  BY <1>1, <1>3, <1>4, SameRequest DEF IInv, DepositInv
<1>15. FitInv'
  BY <1>1, <1>2, <1>3, <1>4, <1>6, <1>9, <1>10, SameRequest DEF IInv, FitInv, IndexOf
<1>16. LeavesInv'
  <2>1. ASSUME req.flow \in Scheduled PROVE \E n \in 0 .. Len(leaves') : LandedAt(n)'
    <3>1. \A j \in DOMAIN leaves : IsForeign(leaves[j])
      BY <1>2, <1>11, <2>1 DEF LeavesInv, Scheduled
    <3>2. /\ DOMAIN leaves = 1 .. Len(leaves) /\ DOMAIN leaves' = 1 .. Len(leaves')
          /\ Len(leaves) \in Nat
      BY <1>2, <1>6, LenProperties
    <3>3. ASSUME NEW j \in DOMAIN leaves'
          PROVE  \/ j \in Len(leaves) + 1 .. Len(leaves) + NoteCount(req)
                 \/ IsForeign(leaves'[j])
      <4>1. j \in DOMAIN leaves \/ j \in Len(leaves) + 1 .. Len(leaves) + NoteCount(req)
        BY <1>5, <1>6, <3>2
      <4> QED
        BY <1>6, <3>1, <3>2, <4>1
    <3> DEFINE n == Len(leaves)
    <3>4. n \in 0 .. Len(leaves')
      BY <1>5, <1>6, <3>2
    <3> HIDE DEF n
    <3>5. /\ n + NoteCount(req)' \in bounds'
          /\ \A j \in 1 .. NoteCount(req)' : leaves'[n + j] = j
          /\ \A j \in DOMAIN leaves' : j \in n + 1 .. n + NoteCount(req)' \/ IsForeign(leaves'[j])
      BY <1>1, <1>6, <3>3, SameRequest DEF n
    <3> QED
      BY <3>4, <3>5 DEF LandedAt
  <2> QED
    BY <1>1, <1>6, <1>9, <2>1 DEF LeavesInv
<1>17. BatchInv'
  BY <1>1, <1>3, SameRequest DEF IInv, BatchInv
<1>18. batch.pc # "idle" => ~Landed
  BY <1>11 DEF IInv, BatchInv, Scheduled
<1>19. ItemsInv'
  <2> SUFFICES ASSUME NEW i \in Recipients, batch.items[i] # <<>>
               PROVE  /\ Asked(i, batch.items[i][1])'
                      /\ i \notin stirred =>
                           Provable(batch.items[i][1].root, batch.items[i][1].index)'
    BY <1>1, <1>12, SameRequest DEF ItemsInv
  <2> DEFINE item == batch.items[i][1]
  <2>1. ~Landed
    BY <1>18 DEF IInv, BatchInv
  <2>2. Asked(i, item) /\ (i \notin stirred => Provable(item.root, item.index))
    BY DEF IInv, ItemsInv
  <2>3. Asked(i, item)'
    BY <1>1, <2>2, SameRequest DEF Asked, CalculateTotalFee, OnTron
  <2>4. ASSUME i \notin stirred PROVE Provable(item.root, item.index)'
    <3>1. item.root = leaves' /\ item.index = IndexOf(leaves')
      BY <1>7, <2>1, <2>2, <2>4 DEF Provable
    <3> QED
      BY <1>1, <1>6, <1>8, <1>9, <3>1, SameRequest DEF Provable, Accepted, IndexOf
  <2> QED
    BY <2>3, <2>4
<1>20. WorkerInv'
  <2> SUFFICES ASSUME worker.phase # "idle" PROVE WorkerInv'
    BY <1>1 DEF WorkerInv
  <2>1. WorkerInv /\ ~Landed
    BY <1>18 DEF IInv, WorkerInv, BatchInv
  <2>2. /\ Looks(worker.phase)
        /\ batch.start \notin stirred => tree = leaves
    BY <2>1 DEF WorkerInv
  <2> QED
    BY <1>1, <1>6, <1>7, <1>8, <1>9, <1>12, <2>1, <2>2, SameRequest
       DEF WorkerInv, Accepted, IndexOf
<1>21. ScheduleInv'
  BY <1>1, <1>3, SameRequest DEF IInv, ScheduleInv, NotScheduled
<1>22. DepositLandsOnce'
  BY <1>1, <1>3, <1>14 DEF IInv, DepositLandsOnce, DepositInv
<1> QED
  BY <1>13, <1>14, <1>15, <1>16, <1>17, <1>19, <1>20, <1>21, <1>22 DEF IInv

\* The last block passes: what has not landed cannot any more.
LEMMA ExpiryKeeps ==
  ASSUME IInv, BlockHeightPasses, stirred' = stirred \union Disturbed,
         UNCHANGED <<call, batch, worker, nonces, sched>>
  PROVE  IInv'
<1> DEFINE a == Len(dep.wire)
           state == IF dep.wire[a] = "pending" THEN "expired" ELSE dep.wire[a]
<1>1. /\ dep.pc = "confirm" /\ dep.open
      /\ dep' = [dep EXCEPT !.open = FALSE, !.wire[a] = state]
      /\ missed' = (missed \/ dep.wire[a] = "landed")
      /\ req' = req /\ leaves' = leaves /\ bounds' = bounds /\ tree' = tree
      /\ allowance' = allowance /\ earlier' = earlier /\ overtaken' = overtaken
  BY DEF BlockHeightPasses
<1>2. /\ TypeOK /\ dep \in Deposits /\ missed \in BOOLEAN
      /\ req.flow = "solanaDeposit" /\ dep.wire # <<>>
  BY <1>1 DEF IInv, TypeOK, DepositInv
<1>3. a \in DOMAIN dep.wire
        /\ dep.wire[a] \in {"pending", "landed", "reverted", "expired", "dropped"}
  <2>1. dep.wire \in Seq({"pending", "landed", "reverted", "expired", "dropped"})
    BY <1>2 DEF Deposits
  <2> QED
    BY <1>2, <2>1, LenProperties, EmptySeq, ElementOfSeq
<1>4. state \in {"pending", "landed", "reverted", "expired", "dropped"}
  BY <1>3
<1>a. a = Len(dep.wire)
  OBVIOUS
<1> HIDE DEF state, a
<1> DEFINE d == [dep EXCEPT !.wire[a] = state]
<1>5. /\ d \in Deposits /\ d.pc = dep.pc /\ d.root = dep.root /\ d.index = dep.index
      /\ d.buckets = dep.buckets /\ d.swapped = dep.swapped
      /\ d.approval = dep.approval /\ d.polls = dep.polls /\ d.gas = dep.gas
      /\ d.open = dep.open
      /\ Len(d.wire) = Len(dep.wire) /\ DOMAIN d.wire = DOMAIN dep.wire
      /\ d.wire # <<>>
      /\ \A b \in DOMAIN dep.wire : d.wire[b] = IF b = a THEN state ELSE dep.wire[b]
      /\ d.wire[a] = state
  <2>1. dep \in Deposits /\ a \in DOMAIN dep.wire
    BY <1>2, <1>3
  <2>2. d = [dep EXCEPT !.wire[a] = state]
    OBVIOUS
  <2> HIDE DEF d
  <2> QED
    BY ONLY <1>4, <2>1, <2>2, WireMoves
<1>6. dep' = [d EXCEPT !.open = FALSE]
  <2>1. DOMAIN dep = {"pc", "root", "index", "buckets", "swapped", "approval", "polls",
                      "gas", "open", "wire"}
    BY <1>2 DEF Deposits
  <2> QED
    BY <1>1, <2>1
<1> HIDE DEF d
<1>7. /\ dep' \in Deposits /\ dep'.pc = "confirm" /\ dep'.root = dep.root
      /\ dep'.index = dep.index /\ dep'.buckets = dep.buckets
      /\ dep'.swapped = dep.swapped /\ dep'.approval = dep.approval
      /\ dep'.polls = dep.polls /\ dep'.gas = dep.gas /\ dep'.open = FALSE
      /\ dep'.wire = d.wire
  BY <1>1, <1>5, <1>6 DEF Deposits
<1>8. state # "pending" /\ (state = "landed" <=> dep.wire[a] = "landed")
        /\ (state = "reverted" <=> dep.wire[a] = "reverted")
  BY <1>3 DEF state
<1>m. (missed => missed') /\ (dep.wire[a] = "landed" => missed')
  BY <1>1
<1>9. /\ Landed' <=> Landed
      /\ InFlight' => InFlight
  BY <1>3, <1>5, <1>7, <1>8 DEF Landed, InFlight
<1>10. stirred' = stirred
  BY <1>1, <1>2, NotStirred
<1>11. TypeOK'
  BY <1>1, <1>2, <1>5, <1>7, <1>10, SameRequest DEF TypeOK
<1>12. DepositInv'
  <2>1. \A b \in DOMAIN dep'.wire :
          ~(dep'.wire[b] = "pending" \/ (dep'.wire[b] = "landed" /\ ~missed'))
    <3>1. \A b \in DOMAIN dep.wire :
            dep.wire[b] = "pending" \/ (dep.wire[b] = "landed" /\ ~missed) => b = a
      BY <1>a DEF IInv, DepositInv
    <3> QED
      BY <1>5, <1>7, <1>8, <1>m, <3>1
  <2> QED
    BY <1>1, <1>2, <1>5, <1>7, <2>1, SameRequest DEF IInv, DepositInv, Unsent
<1>13. FitInv'
  BY <1>1, <1>2, <1>5, <1>7, <1>9, SameRequest
     DEF IInv, FitInv, IndexOf, NeedsProof, OnTron
<1>14. DepositLandsOnce'
  <2>1. overtaken' = overtaken /\ DepositLandsOnce
    BY <1>1 DEF IInv
  <2>2. \A b \in DOMAIN dep'.wire : /\ dep'.wire[b] = "landed" <=> dep.wire[b] = "landed"
                                    /\ dep'.wire[b] = "reverted" <=> dep.wire[b] = "reverted"
    BY <1>5, <1>7, <1>8
  <2>3. DOMAIN dep'.wire = DOMAIN dep.wire
    BY <1>5, <1>7
  <2> QED
    BY <1>m, <2>1, <2>2, <2>3 DEF DepositLandsOnce
<1> QED
  BY <1>1, <1>5, <1>7, <1>9, <1>11, <1>12, <1>13, <1>14, ChainMoves

\* Whatever the chain and the indexer do.
LEMMA EnvironmentKeeps ==
  ASSUME IInv, Environment
  PROVE  IInv'
<1>1. Chain /\ stirred' = stirred \union Disturbed
      /\ UNCHANGED <<call, batch, worker, nonces, sched>>
  BY DEF Environment
<1>2. ASSUME NEW a \in DOMAIN dep.wire, DepositLands(a) PROVE IInv'
  BY <1>1, <1>2, RevertKeeps, LandKeeps
<1> QED
  BY <1>1, <1>2, OtherLeafKeeps, AcceptLeafKeeps, EarlierKeeps, ApprovalKeeps, ExpiryKeeps
     DEF Chain

-----------------------------------------------------------------------------
(* The deposit *)

\* A step of a deposit that has sent nothing yet.
LEMMA UnsentMoves ==
  ASSUME IInv, ValidRequest(req), chainVars' = chainVars, missed' = missed,
         sendVars' = sendVars, dep.pc \in Unsent, dep.pc # "prepared",
         overtaken' \in BOOLEAN, overtaken => overtaken',
         dep' \in Deposits, dep'.wire = dep.wire,
         dep.pc \in {"start", "index"} => dep'.pc \in {"index", "prepared", "failed"},
         dep.pc \notin {"start", "index"} => dep'.pc \notin {"start", "index", "prepared"},
         dep'.pc \notin {"confirm", "done"},
         dep'.pc \in Unsent => ~dep'.gas,
         dep'.pc \in Unsent \ {"estimate"} => dep'.polls < WaitAttempts,
         dep'.pc = "index" => NeedsProof /\ ~OnTron,
         dep'.pc \notin {"index", "prepared", "failed"} => ~req.returnTx,
         dep'.approval \in {"none", dep.approval} \/ ~req.returnTx,
         dep'.approval = "reset" => dep'.pc \in {"resetWait", "failed"},
         NeedsProof /\ dep'.pc # "failed" =>
           IsPrefix(dep'.root, leaves) /\ Len(dep'.root) \in bounds,
         req.flow \in {"evm", "lifi", "deposit"} /\ dep'.gas =>
           dep'.index = IndexOf(dep'.root),
         OnTron => (dep'.swapped <=> dep'.pc = "prepared"),
         ~overtaken' /\ dep'.pc = "send" /\ (dep'.gas \/ OnTron) =>
           allowance >= ApprovalAmount,
         OnSolana /\ ~overtaken' /\ ~missed /\ dep'.pc # "failed" =>
           dep'.buckets = SolanaRootBuckets(Len(leaves))
  PROVE  IInv'
<1>1. /\ req' = req /\ leaves' = leaves /\ bounds' = bounds /\ tree' = tree
      /\ allowance' = allowance /\ earlier' = earlier
      /\ call' = call /\ batch' = batch /\ worker' = worker /\ nonces' = nonces
      /\ stirred' = stirred
  BY DEF chainVars, sendVars
<1>2. /\ dep.wire = <<>> /\ dep'.wire = <<>> /\ DOMAIN dep'.wire = {}
      /\ Len(dep'.wire) = 0 /\ SendRetries \in Nat \ {0} /\ dep \in Deposits
  BY DepositAssumption DEF IInv, DepositInv, TypeOK
<1>3. ~Landed /\ ~Landed' /\ ~InFlight'
  BY <1>2 DEF Landed, InFlight
<1>4. TypeOK'
  BY <1>1, <1>2, SameRequest DEF IInv, TypeOK
<1>5. DepositInv'
  <2>1. req.returnTx => dep.approval = "none"
    BY DEF IInv, DepositInv
  <2>2. dep'.pc \in Places /\ dep'.pc # "start"
    BY DEF Deposits
  <2> QED
    BY <1>1, <1>2, <2>1, <2>2, SameRequest DEF DepositInv
<1>6. FitInv'
  BY <1>1, <1>2, <1>3, SameRequest DEF FitInv, IndexOf
<1>7. DepositLandsOnce'
  BY <1>2 DEF DepositLandsOnce
<1> QED
  BY <1>3, <1>4, <1>5, <1>6, <1>7, DepositMoves DEF Unsent

\* What is known of a deposit that has sent nothing.
LEMMA UnsentFacts ==
  ASSUME IInv, dep.pc \in Unsent
  PROVE  /\ dep \in Deposits /\ req \in Requests /\ leaves \in Seq(Int)
         /\ Len(leaves) \in Nat \ {0} /\ Len(leaves) \in bounds
         /\ dep.wire = <<>> /\ dep.gas = FALSE /\ dep.polls \in Nat
         /\ dep.pc # "estimate" => dep.polls < WaitAttempts
         /\ dep.approval = "reset" => dep.pc = "resetWait"
         /\ dep.pc \notin {"start", "index", "prepared"} => ~req.returnTx
         /\ NeedsProof /\ dep.pc # "start" =>
              IsPrefix(dep.root, leaves) /\ Len(dep.root) \in bounds
         /\ OnTron => (dep.swapped <=> dep.pc = "prepared")
         /\ OnSolana /\ ~overtaken /\ ~missed /\ dep.pc # "start" =>
              dep.buckets = SolanaRootBuckets(Len(leaves))
         /\ overtaken \in BOOLEAN
<1>1. /\ dep \in Deposits /\ req \in Requests /\ leaves \in Seq(Int) /\ overtaken \in BOOLEAN
      /\ Len(leaves) \in bounds /\ bounds \subseteq 1 .. Len(leaves)
  BY DEF IInv, TypeOK, LeavesInv
<1>2. Len(leaves) \in Nat \ {0}
  BY <1>1, LenProperties
<1>3. dep.wire = <<>> /\ dep.gas = FALSE /\ dep.polls \in Nat
  BY <1>1, DepositAssumption DEF IInv, DepositInv, Deposits
<1>4. /\ dep.pc # "estimate" => dep.polls < WaitAttempts
      /\ dep.approval = "reset" => dep.pc = "resetWait"
      /\ dep.pc \notin {"start", "index", "prepared"} => ~req.returnTx
  BY DEF IInv, DepositInv, Unsent
<1>5. ~Landed
  BY <1>3 DEF Landed
<1>6. dep.pc \notin {"send", "confirm", "done", "failed"}
  BY DEF Unsent
<1>7. /\ NeedsProof /\ dep.pc # "start" =>
           IsPrefix(dep.root, leaves) /\ Len(dep.root) \in bounds
      /\ OnTron => (dep.swapped <=> dep.pc = "prepared")
      /\ OnSolana /\ ~overtaken /\ ~missed /\ dep.pc # "start" =>
           dep.buckets = SolanaRootBuckets(Len(leaves))
  BY <1>5, <1>6 DEF IInv, FitInv
<1> QED
  BY <1>1, <1>2, <1>3, <1>4, <1>7

\* Flows: what needs a proof is not on Solana.
LEMMA FlowKinds ==
  /\ ~(NeedsProof /\ OnSolana)
  /\ ~(OnTron /\ OnSolana)
  /\ OnTron => NeedsProof
  /\ req.flow \in {"evm", "lifi", "deposit"} => NeedsProof /\ ~OnTron
  /\ OnSolana => ApprovalAmount = 0
BY DEF NeedsProof, OnSolana, OnTron, ApprovalAmount

\* Building the deposit.
LEMMA PrepareKeeps ==
  ASSUME IInv, ValidRequest(req), Prepare, UNCHANGED sendVars
  PROVE  IInv'
<1>1. CASE PrepareRemotely
  <2>1. /\ dep.pc = "start" /\ NeedsProof /\ chainVars' = chainVars
        /\ dep' = [dep EXCEPT !.pc = "prepared", !.root = leaves,
                              !.index = IndexOf(leaves), !.swapped = OnTron]
        /\ overtaken' = overtaken /\ missed' = missed /\ dep.pc \in Unsent
    BY <1>1 DEF PrepareRemotely, Quiet, Unsent, Places
  <2>2. dep \in Deposits /\ leaves \in Seq(Int) /\ IndexOf(leaves) \in Int /\ OnTron \in BOOLEAN
    BY <2>1, UnsentFacts DEF IndexOf, OnTron
  <2>3. /\ dep' \in Deposits /\ dep'.pc = "prepared" /\ dep'.root = leaves
        /\ dep'.swapped = OnTron /\ dep'.wire = dep.wire /\ dep'.gas = dep.gas /\ dep'.polls = dep.polls
        /\ dep'.approval = dep.approval
    BY <2>1, <2>2 DEF Deposits, Places
  <2>4. dep.approval # "reset"
    BY <2>1, UnsentFacts
  <2>5. IsPrefix(leaves, leaves)
    BY <2>2, PrefixSelf
  <2> QED
    BY <2>1, <2>3, <2>4, <2>5, UnsentFacts, FlowKinds, UnsentMoves
<1>2. CASE PrepareReadRoot
  <2>1. /\ dep.pc = "start" /\ NeedsProof /\ chainVars' = chainVars
        /\ dep' = [dep EXCEPT !.pc = IF OnTron THEN "prepared" ELSE "index",
                              !.root = leaves, !.swapped = OnTron]
        /\ overtaken' = overtaken /\ missed' = missed /\ dep.pc \in Unsent
    BY <1>2 DEF PrepareReadRoot, Quiet, Unsent, Places
  <2>2. dep \in Deposits /\ leaves \in Seq(Int) /\ OnTron \in BOOLEAN
    BY <2>1, UnsentFacts DEF OnTron
  <2>3. /\ dep' \in Deposits /\ dep'.pc = (IF OnTron THEN "prepared" ELSE "index")
        /\ dep'.root = leaves /\ dep'.swapped = OnTron
        /\ dep'.wire = dep.wire /\ dep'.gas = dep.gas /\ dep'.polls = dep.polls
        /\ dep'.approval = dep.approval
    BY <2>1, <2>2 DEF Deposits, Places
  <2>4. dep.approval # "reset"
    BY <2>1, UnsentFacts
  <2>5. IsPrefix(leaves, leaves)
    BY <2>2, PrefixSelf
  <2>6. /\ leaves \in Seq(Int) /\ Len(leaves) \in bounds
        /\ dep.wire = <<>> /\ dep.gas = FALSE /\ dep.polls < WaitAttempts
        /\ overtaken \in BOOLEAN
    BY <2>1, UnsentFacts
  <2>7. CASE OnTron
    <3>1. dep'.pc = "prepared"
      BY <2>3, <2>7
    <3> QED
      BY <2>1, <2>3, <2>4, <2>5, <2>6, <2>7, <3>1, FlowKinds, UnsentMoves
  <2>8. CASE ~OnTron
    <3>1. dep'.pc = "index"
      BY <2>3, <2>8
    <3> QED
      BY <2>1, <2>3, <2>4, <2>5, <2>6, <2>8, <3>1, FlowKinds, UnsentMoves
  <2> QED
    BY <2>7, <2>8
<1>3. CASE PrepareReadIndex
  <2>1. /\ dep.pc = "index" /\ chainVars' = chainVars
        /\ dep' = [dep EXCEPT !.pc = "prepared", !.index = IndexOf(leaves)]
        /\ overtaken' = overtaken /\ missed' = missed /\ dep.pc \in Unsent
    BY <1>3 DEF PrepareReadIndex, Quiet, Unsent, Places
  <2>2. dep \in Deposits /\ leaves \in Seq(Int) /\ IndexOf(leaves) \in Int
    BY <2>1, UnsentFacts DEF IndexOf
  <2>5. NeedsProof /\ ~OnTron
    BY <2>1 DEF IInv, DepositInv
  <2>3. /\ dep' \in Deposits /\ dep'.pc = "prepared" /\ dep'.root = dep.root
        /\ dep'.wire = dep.wire /\ dep'.gas = dep.gas /\ dep'.polls = dep.polls
        /\ dep'.approval = dep.approval
    BY <2>1, <2>2 DEF Deposits, Places
  <2>4. dep.approval # "reset"
    BY <2>1, UnsentFacts
  <2> QED
    BY <2>1, <2>2, <2>3, <2>4, <2>5, UnsentFacts, FlowKinds, UnsentMoves
<1>4. CASE PrepareProofless
  <2>1. /\ dep.pc = "start" /\ req.flow = "proofless" /\ chainVars' = chainVars
        /\ dep' = [dep EXCEPT !.pc = "prepared"]
        /\ overtaken' = overtaken /\ missed' = missed /\ dep.pc \in Unsent
    BY <1>4 DEF PrepareProofless, Goto, Quiet, Unsent, Places
  <2>2. dep \in Deposits /\ ~NeedsProof /\ ~OnSolana
    BY <2>1, UnsentFacts DEF NeedsProof, OnSolana
  <2>3. /\ dep' \in Deposits /\ dep'.pc = "prepared"
        /\ dep'.wire = dep.wire /\ dep'.gas = dep.gas /\ dep'.polls = dep.polls
        /\ dep'.approval = dep.approval
    BY <2>1, <2>2 DEF Deposits, Places
  <2>4. dep.approval # "reset"
    BY <2>1, UnsentFacts
  <2> QED
    BY <2>1, <2>2, <2>3, <2>4, UnsentFacts, FlowKinds, UnsentMoves
<1>5. CASE PrepareSolana
  <2> DEFINE buckets == SolanaRootBuckets(Len(leaves))
  <2>1. /\ dep.pc = "start" /\ OnSolana /\ chainVars' = chainVars
        /\ dep' = [dep EXCEPT !.pc = "prepared", !.buckets = buckets]
        /\ overtaken' = overtaken /\ missed' = missed /\ dep.pc \in Unsent
    BY <1>5 DEF PrepareSolana, Quiet, Unsent, Places
  <2>2. dep \in Deposits /\ Len(leaves) \in Nat
    BY <2>1, UnsentFacts
  <2>3. buckets \subseteq Nat
    <3>1. BucketCap \in Nat \ {0}
      BY DepositAssumption
    <3>2. Len(leaves) \div BucketCap \in Nat
      BY <2>2, <3>1
    <3> QED
      BY <3>2 DEF SolanaRootBuckets
  <2> HIDE DEF buckets
  <2>4. /\ dep' \in Deposits /\ dep'.pc = "prepared" /\ dep'.buckets = buckets
        /\ dep'.wire = dep.wire /\ dep'.gas = dep.gas /\ dep'.polls = dep.polls
        /\ dep'.approval = dep.approval
    BY <2>1, <2>2, <2>3 DEF Deposits, Places
  <2>5. dep.approval # "reset"
    BY <2>1, UnsentFacts
  <2> QED
    BY <2>1, <2>4, <2>5, UnsentFacts, FlowKinds, UnsentMoves DEF buckets
<1> QED
  BY <1>1, <1>2, <1>3, <1>4, <1>5 DEF Prepare

\* While the token is approved only the place, the approval on its way and the
\* polls change.
LEMMA ApprovalMoves ==
  ASSUME IInv, ValidRequest(req), chainVars' = chainVars, missed' = missed,
         sendVars' = sendVars, dep.pc \in Unsent \ {"start", "index", "prepared"},
         overtaken' \in BOOLEAN, overtaken => overtaken',
         NEW pc \in (Unsent \ {"start", "index", "prepared"}) \union {"send", "failed"},
         NEW kind \in {"none", "reset", "approve"}, NEW n \in 0 .. WaitAttempts,
         dep' = [dep EXCEPT !.pc = pc, !.approval = kind, !.polls = n],
         kind = "reset" => pc \in {"resetWait", "failed"},
         pc \notin {"estimate", "send", "failed"} => n < WaitAttempts,
         ~overtaken' /\ pc = "send" /\ OnTron => allowance >= ApprovalAmount
  PROVE  IInv'
<1>1. dep \in Deposits /\ dep.pc \in Unsent
  BY UnsentFacts
<1>2. pc \in Places /\ pc \notin {"start", "index", "prepared", "confirm", "done"}
  BY DEF Unsent, Places
<1>3. /\ dep' \in Deposits /\ dep'.pc = pc /\ dep'.approval = kind /\ dep'.polls = n
      /\ dep'.root = dep.root /\ dep'.index = dep.index /\ dep'.buckets = dep.buckets
      /\ dep'.swapped = dep.swapped /\ dep'.gas = dep.gas /\ dep'.wire = dep.wire
  BY <1>1, <1>2 DEF Deposits
<1>4. dep.gas = FALSE /\ ~req.returnTx
  BY <1>1, UnsentFacts
<1>5. /\ NeedsProof => IsPrefix(dep.root, leaves) /\ Len(dep.root) \in bounds
      /\ ~(OnTron /\ dep.swapped)
      /\ OnSolana /\ ~overtaken /\ ~missed => dep.buckets = SolanaRootBuckets(Len(leaves))
  BY <1>1, UnsentFacts
<1>6. dep'.pc \in Unsent \ {"estimate"} => dep'.polls < WaitAttempts
  BY <1>3 DEF Unsent
<1> QED
  BY <1>1, <1>2, <1>3, <1>4, <1>5, <1>6, UnsentMoves

\* Approving the token.
LEMMA ApproveKeeps ==
  ASSUME IInv, ValidRequest(req), Approve, UNCHANGED sendVars
  PROVE  IInv'
<1> DEFINE Here == Unsent \ {"start", "index", "prepared"}
<1> DEFINE Moved(pc, kind, n) ==
      /\ dep' = [dep EXCEPT !.pc = pc, !.approval = kind, !.polls = n]
      /\ chainVars' = chainVars /\ missed' = missed
<1>1. TypeOK /\ sendVars' = sendVars
  BY DEF IInv
<1>2. /\ dep \in Deposits /\ dep.approval \in {"none", "reset", "approve"}
      /\ dep.polls \in 0 .. WaitAttempts /\ WaitAttempts \in Nat \ {0}
      /\ overtaken \in BOOLEAN
  BY <1>1, DepositAssumption DEF TypeOK, Deposits
<1>3. dep.pc \in Here =>
        /\ dep.pc # "estimate" => dep.polls < WaitAttempts
        /\ dep.approval = "reset" => dep.pc = "resetWait"
  BY UnsentFacts
<1>4. NextCheck \in {"estimate", "send"}
  BY DEF NextCheck
<1>5. CASE CheckAllowance
  <2>1. PICK pc : /\ pc \in {"poll", "reset", "approve", "estimate", "send"}
                  /\ pc = "send" /\ OnTron => allowance >= ApprovalAmount
                  /\ dep' = [dep EXCEPT !.pc = pc]
    BY <1>4, <1>5 DEF CheckAllowance, Goto
  <2>2. dep.pc = "allow" /\ dep.pc \in Here
    BY <1>5 DEF CheckAllowance, Unsent, Places
  <2>3. dep.approval # "reset" /\ dep.polls < WaitAttempts
    BY <1>3, <2>2
  <2>4. Moved(pc, dep.approval, dep.polls) /\ overtaken' = overtaken
    BY <1>2, <1>5, <2>1 DEF CheckAllowance, Quiet, Deposits
  <2>5. pc \in Here \union {"send", "failed"}
    BY <2>1 DEF Unsent, Places
  <2> QED
    BY <1>1, <1>2, <2>1, <2>2, <2>3, <2>4, <2>5, ApprovalMoves
<1>6. CASE SendApproval("reset", "reset", "resetWait")
  <2>1. /\ dep.pc \in Here /\ dep.pc = "reset"
        /\ "resetWait" \in Here \union {"send", "failed"}
    BY <1>6 DEF SendApproval, Unsent, Places
  <2>2. Moved("resetWait", "reset", dep.polls) /\ overtaken' = overtaken
    BY <1>2, <1>6 DEF SendApproval, Quiet, Deposits
  <2>3. dep.polls \in 0 .. WaitAttempts /\ dep.polls < WaitAttempts
    BY <1>2, <1>3, <2>1
  <2> QED
    BY <1>1, <1>2, <2>1, <2>2, <2>3, ApprovalMoves
<1>7. CASE AwaitApproval("resetWait", "approve")
  <2>1. /\ dep.pc \in Here /\ dep.pc = "resetWait"
        /\ "approve" \in Here \union {"send", "failed"}
    BY <1>7 DEF AwaitApproval, Unsent, Places
  <2>2. Moved("approve", "none", dep.polls) /\ overtaken' = overtaken
    BY <1>2, <1>7 DEF AwaitApproval, Goto, Quiet, Deposits
  <2>3. dep.polls \in 0 .. WaitAttempts /\ dep.polls < WaitAttempts
    BY <1>2, <1>3, <2>1
  <2> QED
    BY <1>1, <1>2, <2>1, <2>2, <2>3, ApprovalMoves
<1>8. CASE SendApproval("approve", "approve", IF OnTron THEN "poll" ELSE "approveWait")
  <2>1. PICK pc \in {"poll", "approveWait"} : SendApproval("approve", "approve", pc)
    BY <1>8
  <2>2. /\ dep.pc \in Here /\ dep.pc = "approve"
        /\ pc \in Here \union {"send", "failed"}
    BY <2>1 DEF SendApproval, Unsent, Places
  <2>3. Moved(pc, "approve", dep.polls) /\ overtaken' = overtaken
    BY <1>2, <2>1 DEF SendApproval, Quiet, Deposits
  <2>4. dep.polls \in 0 .. WaitAttempts /\ dep.polls < WaitAttempts
    BY <1>2, <1>3, <2>2
  <2> QED
    BY <1>1, <1>2, <2>1, <2>2, <2>3, <2>4, ApprovalMoves
<1>9. CASE AwaitApproval("approveWait", "poll")
  <2>1. /\ dep.pc \in Here /\ dep.pc = "approveWait"
        /\ "poll" \in Here \union {"send", "failed"}
    BY <1>9 DEF AwaitApproval, Unsent, Places
  <2>2. Moved("poll", "none", dep.polls) /\ overtaken' = overtaken
    BY <1>2, <1>9 DEF AwaitApproval, Goto, Quiet, Deposits
  <2>3. dep.polls \in 0 .. WaitAttempts /\ dep.polls < WaitAttempts
    BY <1>2, <1>3, <2>1
  <2> QED
    BY <1>1, <1>2, <2>1, <2>2, <2>3, ApprovalMoves
<1>10. CASE PollAllowance
  <2> DEFINE enough == allowance >= ApprovalAmount
             last   == dep.polls + 1 >= WaitAttempts
             pc     == IF enough \/ last THEN NextCheck ELSE dep.pc
  <2>1. dep.pc \in Here /\ dep.pc = "poll"
    BY <1>10 DEF PollAllowance, Unsent, Places
  <2>2. dep.approval # "reset" /\ dep.polls < WaitAttempts
    BY <1>3, <2>1
  <2>3. Moved(pc, dep.approval, dep.polls + 1)
    BY <1>2, <1>10 DEF PollAllowance, Deposits
  <2>4. overtaken' = (overtaken \/ (OnTron /\ ~req.pre /\ ~enough /\ last))
    BY <1>10 DEF PollAllowance
  <2>5. overtaken' \in BOOLEAN /\ (overtaken => overtaken')
    BY <2>4
  <2>6. dep.polls + 1 \in 0 .. WaitAttempts /\ (~last => dep.polls + 1 < WaitAttempts)
    BY <1>2, <2>2
  <2>7. pc \in Here \union {"send", "failed"} /\ pc # "resetWait"
    BY <1>4, <2>1 DEF Unsent, Places
  <2>8. ~overtaken' /\ pc = "send" /\ OnTron => enough
    BY <2>1, <2>4 DEF NextCheck
  <2>9. pc \notin {"estimate", "send", "failed"} => dep.polls + 1 < WaitAttempts
    BY <1>4, <2>6
  <2> HIDE DEF enough, last, pc
  <2> QED
    BY <1>1, <1>2, <2>1, <2>2, <2>3, <2>5, <2>6, <2>7, <2>8, <2>9, ApprovalMoves DEF enough
<1> QED
  BY <1>5, <1>6, <1>7, <1>8, <1>9, <1>10 DEF Approve

\* The estimate: gas is set only when the deposit would go through.
LEMMA PreEstimateKeeps ==
  ASSUME IInv, ValidRequest(req), PreEstimate, UNCHANGED sendVars
  PROVE  IInv'
<1> DEFINE pc == IF OnTron /\ ~DepositFits THEN "failed" ELSE "send"
<1>1. /\ dep.pc = "estimate" /\ chainVars' = chainVars /\ sendVars' = sendVars
      /\ dep' = [dep EXCEPT !.pc = pc, !.gas = DepositFits]
      /\ overtaken' = overtaken /\ missed' = missed /\ dep.pc \in Unsent
  BY DEF PreEstimate, Quiet, Unsent, Places
<1>2. dep \in Deposits /\ DepositFits \in BOOLEAN /\ overtaken \in BOOLEAN
  BY <1>1, UnsentFacts DEF DepositFits
<1>3. /\ dep' \in Deposits /\ dep'.pc = pc /\ dep'.gas = DepositFits
      /\ dep'.root = dep.root /\ dep'.index = dep.index /\ dep'.buckets = dep.buckets
      /\ dep'.swapped = dep.swapped /\ dep'.approval = dep.approval
      /\ dep'.wire = dep.wire
  BY <1>1, <1>2 DEF Deposits, Places
<1>4. dep.approval # "reset" /\ ~req.returnTx
  BY <1>1, UnsentFacts
<1>5. /\ NeedsProof => IsPrefix(dep.root, leaves) /\ Len(dep.root) \in bounds
      /\ ~(OnTron /\ dep.swapped)
      /\ OnSolana /\ ~overtaken /\ ~missed => dep.buckets = SolanaRootBuckets(Len(leaves))
  BY <1>1, UnsentFacts
<1>6. DepositFits =>
        /\ allowance >= ApprovalAmount
        /\ req.flow \in {"evm", "lifi", "deposit"} => dep.index = IndexOf(dep.root)
  BY FlowKinds DEF DepositFits, Accepted
<1>7. /\ pc \in {"failed", "send"} /\ pc \notin Unsent
      /\ pc = "send" /\ (dep'.gas \/ OnTron) => DepositFits
  BY <1>3 DEF Unsent
<1> HIDE DEF pc
<1> QED
  BY <1>1, <1>2, <1>3, <1>4, <1>5, <1>6, <1>7, UnsentMoves

\* One more attempt.
LEMMA WireGrows ==
  ASSUME dep \in Deposits,
         NEW state \in {"pending", "landed", "reverted", "expired", "dropped"}
  PROVE  LET wire == Append(dep.wire, state)
         IN  /\ wire \in Seq({"pending", "landed", "reverted", "expired", "dropped"})
             /\ Len(dep.wire) \in Nat /\ DOMAIN dep.wire = 1 .. Len(dep.wire)
             /\ Len(wire) = Len(dep.wire) + 1 /\ DOMAIN wire = 1 .. Len(dep.wire) + 1
             /\ \A b \in DOMAIN dep.wire : wire[b] = dep.wire[b]
             /\ wire[Len(dep.wire) + 1] = state /\ wire # <<>>
<1>1. dep.wire \in Seq({"pending", "landed", "reverted", "expired", "dropped"})
  BY DEF Deposits
<1> QED
  BY <1>1

\* What is known of a deposit that is being sent.
LEMMA SendFacts ==
  ASSUME IInv, dep.pc \in {"send", "confirm"}
  PROVE  /\ dep \in Deposits /\ req \in Requests /\ SendRetries \in Nat \ {0}
         /\ Len(dep.wire) <= SendRetries /\ allowance \in Nat
         /\ ~req.returnTx /\ dep.approval # "reset" /\ ValidRequest(req)
         /\ dep.pc = "confirm" => req.flow = "solanaDeposit" /\ dep.wire # <<>>
         /\ dep.pc = "send" => /\ Len(dep.wire) < SendRetries
                               /\ req.flow # "solanaDeposit" => dep.wire = <<>>
         /\ ~(dep.pc = "confirm" /\ dep.open) =>
              \A a \in DOMAIN dep.wire : /\ dep.wire[a] # "pending"
                                         /\ dep.wire[a] = "landed" => missed
         /\ ~(OnTron /\ dep.swapped)
         /\ NeedsProof => IsPrefix(dep.root, leaves) /\ Len(dep.root) \in bounds
         /\ OnSolana /\ ~overtaken /\ ~missed /\ ~Landed =>
              dep.buckets = SolanaRootBuckets(Len(leaves))
<1>1. /\ dep \in Deposits /\ req \in Requests /\ SendRetries \in Nat \ {0}
      /\ Len(dep.wire) <= SendRetries /\ allowance \in Nat
  BY DepositAssumption DEF IInv, TypeOK
<1>2. /\ ~req.returnTx /\ dep.approval # "reset" /\ ValidRequest(req)
      /\ dep.pc = "confirm" => req.flow = "solanaDeposit" /\ dep.wire # <<>>
      /\ dep.pc = "send" => Len(dep.wire) < SendRetries
      /\ dep.pc = "send" /\ req.flow # "solanaDeposit" => dep.wire = <<>>
  BY DEF IInv, DepositInv
<1>3. ASSUME ~(dep.pc = "confirm" /\ dep.open), NEW a \in DOMAIN dep.wire
      PROVE  dep.wire[a] # "pending" /\ (dep.wire[a] = "landed" => missed)
  BY <1>3 DEF IInv, DepositInv
<1>4. /\ ~(OnTron /\ dep.swapped)
      /\ NeedsProof => IsPrefix(dep.root, leaves) /\ Len(dep.root) \in bounds
      /\ OnSolana /\ ~overtaken /\ ~missed /\ ~Landed =>
           dep.buckets = SolanaRootBuckets(Len(leaves))
  BY DEF IInv, FitInv
<1> QED
  BY <1>1, <1>2, <1>3, <1>4

\* Where a deposit that is sent stands after an attempt.
LEMMA AttemptKeeps ==
  ASSUME IInv, chainVars' = chainVars, overtaken' = overtaken, missed' = missed,
         sendVars' = sendVars, dep.pc = "send", ~EstimateRefuses,
         NEW state \in {"pending", "dropped"},
         NEW pc \in {"send", "confirm", "done", "failed"}, NEW open \in BOOLEAN,
         dep' = [dep EXCEPT !.wire = Append(@, state), !.open = open, !.pc = pc],
         pc = "confirm" => req.flow = "solanaDeposit",
         pc = "send" => /\ req.flow = "solanaDeposit"
                        /\ Len(dep.wire) + 1 < SendRetries,
         state = "pending" => pc \in {"done", "failed"} \/ (pc = "confirm" /\ open)
  PROVE  IInv'
<1> DEFINE wire == Append(dep.wire, state)
<1>1. /\ dep \in Deposits /\ req \in Requests /\ SendRetries \in Nat \ {0}
      /\ allowance \in Nat
      /\ ~req.returnTx /\ dep.approval # "reset" /\ ValidRequest(req)
      /\ Len(dep.wire) < SendRetries
      /\ req.flow # "solanaDeposit" => dep.wire = <<>>
      /\ ~(OnTron /\ dep.swapped)
      /\ NeedsProof => IsPrefix(dep.root, leaves) /\ Len(dep.root) \in bounds
      /\ OnSolana /\ ~overtaken /\ ~missed /\ ~Landed =>
           dep.buckets = SolanaRootBuckets(Len(leaves))
  BY SendFacts
<1>2. \A a \in DOMAIN dep.wire : /\ dep.wire[a] # "pending"
                                 /\ dep.wire[a] = "landed" => missed
  BY SendFacts
<1>3. /\ wire \in Seq({"pending", "landed", "reverted", "expired", "dropped"})
      /\ Len(dep.wire) \in Nat /\ DOMAIN dep.wire = 1 .. Len(dep.wire)
      /\ Len(wire) = Len(dep.wire) + 1 /\ DOMAIN wire = 1 .. Len(dep.wire) + 1
      /\ \A b \in DOMAIN dep.wire : wire[b] = dep.wire[b]
      /\ wire[Len(dep.wire) + 1] = state /\ wire # <<>>
  BY <1>1, WireGrows
<1> HIDE DEF wire
<1>4. /\ dep' \in Deposits /\ dep'.wire = wire /\ dep'.open = open /\ dep'.pc = pc
      /\ dep'.root = dep.root /\ dep'.index = dep.index /\ dep'.buckets = dep.buckets
      /\ dep'.swapped = dep.swapped /\ dep'.approval = dep.approval
      /\ dep'.polls = dep.polls /\ dep'.gas = dep.gas
  BY <1>1, <1>3 DEF Deposits, Places, wire
<1>5. \A b \in DOMAIN wire : b \in DOMAIN dep.wire \/ b = Len(dep.wire) + 1
  BY <1>3
<1>6. Landed' <=> Landed
  BY <1>3, <1>4, <1>5 DEF Landed
<1>7. ~overtaken => allowance >= ApprovalAmount
  <2>1. CASE OnSolana
    BY <2>1, <1>1, FlowKinds
  <2>2. CASE OnTron
    BY <2>2 DEF IInv, FitInv
  <2>3. CASE ~OnSolana /\ ~OnTron
    BY <2>3 DEF EstimateRefuses, DepositFits, IInv, FitInv
  <2> QED
    BY <2>1, <2>2, <2>3
<1>8. req.flow \in {"evm", "lifi", "deposit"} => dep.index = IndexOf(dep.root)
  <2> SUFFICES ASSUME req.flow \in {"evm", "lifi", "deposit"}
               PROVE  dep.index = IndexOf(dep.root)
    OBVIOUS
  <2>1. ~OnTron /\ ~OnSolana /\ NeedsProof
    BY FlowKinds
  <2>2. CASE dep.gas
    BY <2>2 DEF IInv, FitInv
  <2>3. CASE ~dep.gas
    BY <2>1, <2>3 DEF EstimateRefuses, DepositFits, Accepted
  <2> QED
    BY <2>2, <2>3
<1>9. /\ req' = req /\ ApprovalAmount' = ApprovalAmount
      /\ allowance' = allowance /\ leaves' = leaves /\ bounds' = bounds
      /\ (OnSolana' <=> OnSolana) /\ (OnTron' <=> OnTron) /\ (NeedsProof' <=> NeedsProof)
      /\ (ValidRequest(req)' <=> ValidRequest(req))
      /\ \A c : SolanaRootBuckets(c)' = SolanaRootBuckets(c)
  BY SameRequest DEF chainVars
<1>10. TypeOK'
  <2>1. Len(dep'.wire) <= SendRetries
    BY <1>1, <1>3, <1>4
  <2> QED
    BY <1>4, <2>1 DEF IInv, TypeOK, chainVars, sendVars, Withdrawals, Recipients
<1>11. DepositInv'
  <2>1. ASSUME NEW a \in DOMAIN wire, wire[a] = "pending" \/ (wire[a] = "landed" /\ ~missed)
        PROVE  a = Len(wire) /\ (pc \in {"done", "failed"} \/ (pc = "confirm" /\ open))
    <3>1. a = Len(dep.wire) + 1
      BY <1>2, <1>3, <1>5, <2>1
    <3> QED
      BY <1>3, <2>1, <3>1
  <2>2. pc \notin Unsent
    BY DEF Unsent
  <2>3. req.flow # "solanaDeposit" => Len(wire) <= 1 /\ pc # "send"
    BY <1>1, <1>3
  <2>4. pc = "send" => Len(wire) < SendRetries
    BY <1>3
  <2> QED
    BY <1>1, <1>3, <1>4, <1>9, <2>1, <2>2, <2>3, <2>4 DEF DepositInv
<1>12. FitInv'
  <2>1. IndexOf(dep.root)' = IndexOf(dep.root)
    BY <1>4 DEF IndexOf
  <2>2. /\ NeedsProof' => IsPrefix(dep'.root, leaves') /\ Len(dep'.root) \in bounds'
        /\ ~(OnTron' /\ dep'.swapped)
        /\ ~overtaken' => allowance' >= ApprovalAmount'
    BY <1>1, <1>4, <1>7, <1>9
  <2>3. req'.flow \in {"evm", "lifi", "deposit"} => dep'.index = IndexOf(dep.root)'
    BY <1>4, <1>8, <1>9, <2>1
  <2>4. OnSolana' /\ ~overtaken' /\ ~missed' /\ ~Landed' =>
          dep'.buckets = SolanaRootBuckets(Len(leaves))'
    BY <1>1, <1>4, <1>6, <1>9
  <2> QED
    BY <2>2, <2>3, <2>4 DEF FitInv
<1>13. DepositLandsOnce'
  <2>1. \A a \in DOMAIN wire : wire[a] = "reverted" => a \in DOMAIN dep.wire /\ dep.wire[a] = "reverted"
    BY <1>3, <1>5
  <2>2. \A a \in DOMAIN wire : wire[a] = "landed" => missed
    BY <1>2, <1>3, <1>5
  <2> QED
    BY <1>4, <2>1, <2>2 DEF IInv, DepositLandsOnce
<1> QED
  BY <1>4, <1>6, <1>10, <1>11, <1>12, <1>13, DepositMoves

\* What a send or a round of its confirmation comes to.
LEMMA OutcomeKeeps ==
  ASSUME IInv, chainVars' = chainVars, overtaken' = overtaken, missed' = missed,
         sendVars' = sendVars, dep.pc \in {"send", "confirm"},
         NEW pc \in {"send", "confirm", "done", "failed"},
         dep' = [dep EXCEPT !.pc = pc],
         pc = "confirm" => dep.pc = "confirm",
         pc = "send" => dep.pc = "confirm" /\ ~dep.open /\ Len(dep.wire) < SendRetries,
         pc = "done" => dep.pc = "confirm"
  PROVE  IInv'
<1>1. /\ dep \in Deposits /\ req \in Requests /\ SendRetries \in Nat \ {0}
      /\ Len(dep.wire) <= SendRetries /\ allowance \in Nat
      /\ ~req.returnTx /\ dep.approval # "reset" /\ ValidRequest(req)
      /\ dep.pc = "confirm" => req.flow = "solanaDeposit" /\ dep.wire # <<>>
      /\ dep.pc = "send" => /\ Len(dep.wire) < SendRetries
                            /\ req.flow # "solanaDeposit" => dep.wire = <<>>
      /\ ~(OnTron /\ dep.swapped)
      /\ NeedsProof => IsPrefix(dep.root, leaves) /\ Len(dep.root) \in bounds
      /\ OnSolana /\ ~overtaken /\ ~missed /\ ~Landed =>
           dep.buckets = SolanaRootBuckets(Len(leaves))
  BY SendFacts
<1>2. ~(dep.pc = "confirm" /\ dep.open) =>
        \A a \in DOMAIN dep.wire : /\ dep.wire[a] # "pending"
                                   /\ dep.wire[a] = "landed" => missed
  BY SendFacts
<1>3. /\ dep' \in Deposits /\ dep'.wire = dep.wire /\ dep'.open = dep.open /\ dep'.pc = pc
      /\ dep'.root = dep.root /\ dep'.index = dep.index /\ dep'.buckets = dep.buckets
      /\ dep'.swapped = dep.swapped /\ dep'.approval = dep.approval
      /\ dep'.polls = dep.polls /\ dep'.gas = dep.gas
  BY <1>1 DEF Deposits, Places
<1>4. (Landed' <=> Landed) /\ (InFlight' <=> InFlight)
  BY <1>3 DEF Landed, InFlight
<1>5. /\ req' = req /\ ApprovalAmount' = ApprovalAmount
      /\ allowance' = allowance /\ leaves' = leaves /\ bounds' = bounds
      /\ (OnSolana' <=> OnSolana) /\ (OnTron' <=> OnTron) /\ (NeedsProof' <=> NeedsProof)
      /\ (ValidRequest(req)' <=> ValidRequest(req))
      /\ \A c : SolanaRootBuckets(c)' = SolanaRootBuckets(c)
  BY SameRequest DEF chainVars
<1>6. TypeOK'
  BY <1>1, <1>3 DEF IInv, TypeOK, chainVars, sendVars, Withdrawals, Recipients
<1>7. DepositInv'
  <2>1. ASSUME NEW a \in DOMAIN dep.wire,
               dep.wire[a] = "pending" \/ (dep.wire[a] = "landed" /\ ~missed)
        PROVE  a = Len(dep.wire) /\ (pc \in {"done", "failed"} \/ (pc = "confirm" /\ dep.open))
    <3>1. dep.pc = "confirm" /\ dep.open
      BY <1>2, <2>1
    <3>2. a = Len(dep.wire)
      BY <2>1 DEF IInv, DepositInv
    <3> QED
      BY <3>1, <3>2
  <2>2. pc \notin Unsent
    BY DEF Unsent
  <2>3. req.flow # "solanaDeposit" => Len(dep.wire) <= 1 /\ pc # "send"
    BY <1>1 DEF IInv, DepositInv
  <2> QED
    BY <1>1, <1>3, <1>5, <2>1, <2>2, <2>3 DEF DepositInv
<1>8. FitInv'
  <2>1. IndexOf(dep.root)' = IndexOf(dep.root)
    BY <1>3 DEF IndexOf
  <2>2. ~overtaken /\ (InFlight \/ (pc = "send" /\ (dep.gas \/ OnTron))) =>
          allowance >= ApprovalAmount
    <3>1. CASE pc = "send"
      <4>1. OnSolana
        BY <1>1, <3>1 DEF OnSolana
      <4> QED
        BY <1>1, <4>1, FlowKinds
    <3>2. CASE pc # "send"
      BY <3>2 DEF IInv, FitInv
    <3> QED
      BY <3>1, <3>2
  <2>3. req.flow \in {"evm", "lifi", "deposit"} /\ (dep.gas \/ dep.wire # <<>>) =>
          dep.index = IndexOf(dep.root)
    BY DEF IInv, FitInv
  <2>4. OnSolana' /\ ~overtaken' /\ ~missed' /\ ~Landed' =>
          dep'.buckets = SolanaRootBuckets(Len(leaves))'
    BY <1>1, <1>3, <1>4, <1>5
  <2> QED
    BY <1>1, <1>3, <1>4, <1>5, <2>1, <2>2, <2>3, <2>4 DEF FitInv
<1>9. DepositLandsOnce'
  BY <1>3 DEF IInv, DepositLandsOnce
<1> QED
  BY <1>3, <1>4, <1>6, <1>7, <1>8, <1>9, DepositMoves

\* Sending the deposit.
LEMMA SendKeeps ==
  ASSUME IInv, ValidRequest(req), Send, UNCHANGED sendVars
  PROVE  IInv'
<1>1. CASE PreEstimate
  BY <1>1, PreEstimateKeeps
<1>2. CASE Broadcast
  <2>1. PICK answered \in BOOLEAN :
          dep' = [dep EXCEPT !.wire = Append(@, "pending"), !.open = TRUE,
                    !.pc = IF ~answered THEN "failed"
                           ELSE IF req.flow = "solanaDeposit" THEN "confirm" ELSE "done"]
    BY <1>2 DEF Broadcast
  <2>2. PICK pc \in {"failed", "confirm", "done"} :
          /\ dep' = [dep EXCEPT !.wire = Append(@, "pending"), !.open = TRUE, !.pc = pc]
          /\ pc = "confirm" => req.flow = "solanaDeposit"
    BY <2>1
  <2>3. /\ dep.pc = "send" /\ ~EstimateRefuses /\ chainVars' = chainVars
        /\ overtaken' = overtaken /\ missed' = missed /\ sendVars' = sendVars
    BY <1>2 DEF Broadcast, Quiet
  <2> QED
    BY <2>2, <2>3, AttemptKeeps
<1>3. CASE SolanaSendRefused
  <2>1. PICK reason \in {"blockhash", "refused"} :
          dep' = [dep EXCEPT !.wire = Append(@, "dropped"),
                             !.pc = AfterFailure(reason, Len(dep.wire) + 1)]
    BY <1>3 DEF SolanaSendRefused
  <2>2. /\ dep.pc = "send" /\ req.flow = "solanaDeposit" /\ chainVars' = chainVars
        /\ overtaken' = overtaken /\ missed' = missed /\ sendVars' = sendVars
    BY <1>3 DEF SolanaSendRefused, Quiet
  <2>3. PICK pc \in {"send", "failed"} :
          /\ pc = AfterFailure(reason, Len(dep.wire) + 1)
          /\ pc = "send" => Len(dep.wire) + 1 < SendRetries
    BY DEF AfterFailure
  <2>4. dep \in Deposits /\ ~EstimateRefuses
    BY <2>2, SendFacts DEF EstimateRefuses, OnSolana
  <2>5. dep.open \in BOOLEAN
    BY <2>4 DEF Deposits
  <2>6. dep' = [dep EXCEPT !.wire = Append(@, "dropped"), !.open = dep.open, !.pc = pc]
    BY <2>1, <2>3, <2>4 DEF Deposits
  <2> QED
    BY <2>2, <2>3, <2>4, <2>5, <2>6, AttemptKeeps
<1>4. CASE SolanaAnswerLost
  <2>1. /\ dep.pc = "send" /\ req.flow = "solanaDeposit" /\ chainVars' = chainVars
        /\ overtaken' = overtaken /\ missed' = missed /\ sendVars' = sendVars
        /\ dep' = [dep EXCEPT !.wire = Append(@, "pending"), !.open = TRUE, !.pc = "failed"]
    BY <1>4 DEF SolanaAnswerLost, AfterFailure, Retryable, Quiet
  <2>2. ~EstimateRefuses
    BY <2>1 DEF EstimateRefuses, OnSolana
  <2> QED
    BY <2>1, <2>2, AttemptKeeps
<1>5. CASE WaitForConfirmation
  <2> DEFINE seen == CASE dep.wire[Len(dep.wire)] = "landed"   -> "done"
                       [] dep.wire[Len(dep.wire)] = "reverted" -> "failed"
                       [] OTHER                                -> "confirm"
             pc   == IF ~dep.open THEN AfterFailure("timeout", Len(dep.wire)) ELSE seen
  <2>1. /\ dep.pc = "confirm" /\ chainVars' = chainVars
        /\ overtaken' = overtaken /\ missed' = missed /\ sendVars' = sendVars
        /\ dep' = [dep EXCEPT !.pc = pc]
    BY <1>5 DEF WaitForConfirmation, Quiet
  <2>2. CASE ~dep.open
    <3>1. /\ pc \in {"send", "failed"}
          /\ pc = "send" => Len(dep.wire) < SendRetries
      BY <2>2 DEF AfterFailure
    <3> HIDE DEF pc
    <3> QED
      BY <2>1, <2>2, <3>1, OutcomeKeeps
  <2>3. CASE dep.open
    <3>1. pc \in {"done", "failed", "confirm"}
      BY <2>3
    <3> HIDE DEF pc
    <3> QED
      BY <2>1, <3>1, OutcomeKeeps
  <2>4. dep.open \in BOOLEAN
    BY <2>1, SendFacts DEF Deposits
  <2> QED
    BY <2>2, <2>3, <2>4
<1> QED
  BY <1>1, <1>2, <1>3, <1>4, <1>5 DEF Send

\* A call of the deposit fails.
LEMMA FailureKeeps ==
  ASSUME IInv, ValidRequest(req), DepositErrs, UNCHANGED sendVars
  PROVE  IInv'
<1>1. /\ dep.pc \notin {"confirm", "prepared", "done", "failed"}
      /\ dep' = [dep EXCEPT !.pc = "failed"] /\ chainVars' = chainVars
      /\ overtaken' = overtaken /\ missed' = missed /\ sendVars' = sendVars
  BY DEF DepositErrs, Goto, Quiet
<1>2. dep \in Deposits /\ dep.pc \in Places
  BY DEF IInv, TypeOK, Deposits
<1>3. CASE dep.pc = "send"
  BY <1>1, <1>3, OutcomeKeeps
<1>4. CASE dep.pc # "send"
  <2>1. dep.pc \in Unsent /\ "failed" \notin Unsent
    BY <1>1, <1>2, <1>4 DEF Unsent
  <2>2. /\ dep' \in Deposits /\ dep'.pc = "failed"
        /\ dep'.root = dep.root /\ dep'.index = dep.index /\ dep'.buckets = dep.buckets
        /\ dep'.swapped = dep.swapped /\ dep'.approval = dep.approval
        /\ dep'.gas = dep.gas /\ dep'.wire = dep.wire
    BY <1>1, <1>2 DEF Deposits, Places
  <2>3. dep.gas = FALSE /\ overtaken \in BOOLEAN /\ ~(OnTron /\ dep.swapped)
    BY <1>1, <2>1, UnsentFacts
  <2> QED
    BY <1>1, <2>1, <2>2, <2>3, UnsentMoves
<1> QED
  BY <1>3, <1>4

\* Every step of the deposit's goroutine keeps the invariant.
LEMMA DepositKeeps ==
  ASSUME IInv, Deposit
  PROVE  IInv'
BY PrepareKeeps, ApproveKeeps, SendKeeps, FailureKeeps DEF Deposit

-----------------------------------------------------------------------------
(* The batch.                                                                 *)

Batches == [pc : {"idle", "next", "group", "done", "failed"}, start : Nat \ {0},
            busy : SUBSET Recipients, failed : BOOLEAN,
            items : [Recipients -> Seq(Withdrawals)]]

Workers == [phase : {"idle", "scan", "clone", "root", "index", "path"},
            k : Nat, present : Nat, root : Seq(Int), index : Int]

\* What a step of the batch leaves alone.
LEMMA BatchFrame ==
  ASSUME batchFrame' = batchFrame
  PROVE  /\ req' = req /\ leaves' = leaves /\ bounds' = bounds /\ tree' = tree
         /\ dep' = dep /\ call' = call /\ sched' = sched
         /\ Landed' <=> Landed
         /\ \A root, index : Provable(root, index)' <=> Provable(root, index)
         /\ \A root, index : Accepted(root, index)' <=> Accepted(root, index)
         /\ PendingLeaves' = PendingLeaves /\ NoteCount(req)' = NoteCount(req)
         /\ Recipients' = Recipients /\ proofBatchSize' = proofBatchSize
         /\ ValidRequest(req)' <=> ValidRequest(req)
<1>1. /\ req' = req /\ leaves' = leaves /\ bounds' = bounds /\ tree' = tree
      /\ dep' = dep /\ call' = call /\ sched' = sched
  BY DEF batchFrame, depVars
<1>2. Landed' <=> Landed
  BY <1>1 DEF Landed
<1>3. ASSUME NEW root, NEW index PROVE Provable(root, index)' <=> Provable(root, index)
  BY <1>1, <1>2, SameRequest DEF Provable, Accepted, IndexOf
<1>4. ASSUME NEW root, NEW index PROVE Accepted(root, index)' <=> Accepted(root, index)
  BY <1>1 DEF Accepted, IndexOf
<1> QED
  BY <1>1, <1>2, <1>3, <1>4, SameRequest

\* What the types of the batch need: the rest is the deposit's and stays.
LEMMA BatchTypes ==
  ASSUME TypeOK, batchFrame' = batchFrame, batch' \in Batches, worker' \in Workers,
         nonces' \subseteq Recipients, stirred' \subseteq Recipients
  PROVE  TypeOK'
<1>1. /\ depVars' = depVars /\ call' = call /\ Recipients' = Recipients
  BY BatchFrame DEF batchFrame
<1> QED
  BY <1>1 DEF TypeOK, depVars, Batches, Workers, Deposits, Withdrawals

\* A worker is one of a group of a batch that was asked for properly, and alone
\* when proofs are built locally.
LEMMA GroupFacts ==
  ASSUME IInv, NEW i \in batch.busy
  PROVE  /\ batch \in Batches /\ worker \in Workers /\ req \in Requests
         /\ i \in Recipients /\ batch.pc = "group"
         /\ req.flow \in Scheduled /\ ValidRequest(req)
         /\ ~req.remote => batch.busy = {batch.start} /\ i = batch.start
         /\ leaves \in Seq(Int) /\ tree \in Seq(Int) /\ bounds \subseteq 1 .. Len(leaves)
         /\ nonces \subseteq Recipients /\ stirred \subseteq Recipients
<1>1. /\ batch \in Batches /\ worker \in Workers /\ req \in Requests
      /\ leaves \in Seq(Int) /\ tree \in Seq(Int) /\ bounds \subseteq 1 .. Len(leaves)
      /\ nonces \subseteq Recipients /\ stirred \subseteq Recipients
  BY DEF IInv, TypeOK, Batches, Workers
<1>2. i \in Recipients
  BY <1>1 DEF Batches
<1>3. batch.pc = "group"
  BY DEF IInv, BatchInv
<1>4. req.flow \in Scheduled /\ ValidRequest(req)
  BY <1>3 DEF IInv, BatchInv
<1>5. ASSUME ~req.remote PROVE batch.busy = {batch.start} /\ i = batch.start
  <2>1. proofBatchSize = 1
    BY <1>5 DEF proofBatchSize
  <2>2. batch.busy \subseteq batch.start .. batch.start + 1 - 1
    BY <1>3, <2>1 DEF IInv, BatchInv
  <2>3. batch.start \in Nat
    BY <1>1 DEF Batches
  <2>4. \A j \in batch.busy : j = batch.start
    BY <2>2, <2>3
  <2> QED
    BY <2>4
<1> QED
  BY <1>1, <1>2, <1>3, <1>4, <1>5

\* Without a worker of its own no proof is under way.
LEMMA NoWorker ==
  ASSUME IInv, batch.busy = {}
  PROVE  worker.phase = "idle"
BY DEF IInv, WorkerInv

\* The withdrawals stay what was asked for and provable.
LEMMA ItemsKeep ==
  ASSUME batchFrame' = batchFrame, nonces \subseteq nonces',
         \A i \in Recipients : batch'.items[i] # <<>> =>
           LET item == batch'.items[i][1]
           IN  /\ Asked(i, item)
               /\ i \notin stirred' => Provable(item.root, item.index)
  PROVE  ItemsInv'
<1>1. ASSUME NEW i, NEW item, Asked(i, item) PROVE Asked(i, item)'
  BY <1>1, BatchFrame, SameRequest DEF Asked, CalculateTotalFee, OnTron
<1>2. ASSUME NEW root, NEW index PROVE Provable(root, index)' <=> Provable(root, index)
  BY BatchFrame
<1> QED
  BY <1>1, <1>2, BatchFrame DEF ItemsInv

\* A withdrawal that is recorded is the one asked for, and its root is provable
\* unless its tree moved.
LEMMA RecordKeeps ==
  ASSUME IInv, batchFrame' = batchFrame, nonces' = nonces, stirred' = stirred,
         NEW i \in batch.busy, NEW root \in Seq(Int), NEW index \in Int,
         Record(i, Withdrawal(i, root, index)),
         req.flow = "lifi" => i \in nonces,
         i \notin stirred => Provable(root, index)
  PROVE  IInv'
<1> DEFINE item == Withdrawal(i, root, index)
<1>1. /\ batch \in Batches /\ worker \in Workers /\ req \in Requests
      /\ i \in Recipients /\ batch.pc = "group" /\ ValidRequest(req)
      /\ nonces \subseteq Recipients /\ stirred \subseteq Recipients
  BY GroupFacts
<1>2. /\ Recipients = 1 .. Len(req.amounts) /\ Len(req.amounts) \in Nat
      /\ req.amounts[i] \in Int
  BY <1>1, RequestTypes
<1>3. AbsoluteIndex(batch.start, i - batch.start) = i
  BY <1>1, <1>2 DEF AbsoluteIndex, Batches
<1>4. /\ item = [note |-> i, recipient |-> i, amount |-> req.amounts[i],
                 native |-> IF NativeNotes(req) THEN {Len(req.amounts) + i} ELSE {},
                 fee |-> CalculateTotalFee(req.amounts[i], req.fee),
                 root |-> root, index |-> index, swapped |-> OnTron]
  BY <1>3 DEF Withdrawal
<1>5. item \in Withdrawals
  <2>1. CalculateTotalFee(req.amounts[i], req.fee) \in Int
    BY <1>1, <1>2, FeeTypes
  <2>2. i \in Nat /\ Len(req.amounts) + i \in Nat /\ OnTron \in BOOLEAN
    BY <1>1, <1>2 DEF OnTron
  <2> QED
    BY <1>2, <1>4, <2>1, <2>2 DEF Withdrawals
<1>6. Asked(i, item)
  BY <1>4 DEF Asked
<1>7. item.root = root /\ item.index = index
  BY <1>4
<1> HIDE DEF item
<1>8. /\ batch' = [batch EXCEPT !.items = [batch.items EXCEPT ![i] = <<item>>],
                                !.busy = batch.busy \ {i}]
      /\ worker' = Idle
  BY DEF Record, item
<1>9. /\ batch' \in Batches /\ batch'.pc = batch.pc /\ batch'.start = batch.start
      /\ batch'.failed = batch.failed /\ batch'.busy = batch.busy \ {i}
      /\ batch'.items[i] = <<item>>
      /\ \A j \in Recipients : j # i => batch'.items[j] = batch.items[j]
  <2>1. /\ batch.items \in [Recipients -> Seq(Withdrawals)] /\ <<item>> \in Seq(Withdrawals)
        /\ batch.busy \ {i} \in SUBSET Recipients
    BY <1>1, <1>5 DEF Batches
  <2> DEFINE items == [batch.items EXCEPT ![i] = <<item>>]
  <2>2. /\ items \in [Recipients -> Seq(Withdrawals)] /\ items[i] = <<item>>
        /\ \A j \in Recipients : j # i => items[j] = batch.items[j]
    BY <1>1, <2>1
  <2>3. batch' = [batch EXCEPT !.items = items, !.busy = batch.busy \ {i}]
    BY <1>8
  <2> HIDE DEF items
  <2> QED
    BY <1>1, <2>1, <2>2, <2>3 DEF Batches
<1>10. worker' \in Workers /\ worker'.phase = "idle"
  BY <1>8 DEF Idle, Workers
<1>11. TypeOK'
  BY <1>1, <1>9, <1>10, BatchTypes DEF IInv
<1>12. BatchInv'
  <2>1. <<item>> # <<>>
    OBVIOUS
  <2>2. batch.busy \subseteq batch.start .. batch.start + proofBatchSize - 1
    BY <1>1 DEF IInv, BatchInv
  <2>3. ~batch.failed => \A j \in Recipients : j < batch.start + proofBatchSize =>
                           j \in batch.busy \/ batch.items[j] # <<>>
    BY <1>1 DEF IInv, BatchInv
  <2>4. ~batch'.failed => \A j \in Recipients : j < batch.start + proofBatchSize =>
                            j \in batch'.busy \/ batch'.items[j] # <<>>
    BY <1>9, <2>1, <2>3
  <2>5. req.flow \in Scheduled /\ dep.pc \notin {"start", "index", "prepared"}
    BY <1>1 DEF IInv, BatchInv
  <2> QED
    BY <1>1, <1>9, <2>2, <2>4, <2>5, BatchFrame DEF BatchInv
<1>13. ItemsInv'
  <2>1. ASSUME NEW j \in Recipients, batch'.items[j] # <<>>
        PROVE  /\ Asked(j, batch'.items[j][1])
               /\ j \notin stirred' => Provable(batch'.items[j][1].root, batch'.items[j][1].index)
    <3>1. CASE j = i
      <4>1. batch'.items[j][1] = item
        BY <1>9, <3>1
      <4> QED
        BY <1>6, <1>7, <3>1, <4>1
    <3>2. CASE j # i
      <4>1. batch'.items[j] = batch.items[j]
        BY <1>9, <3>2
      <4> QED
        BY <2>1, <4>1 DEF IInv, ItemsInv
    <3> QED
      BY <3>1, <3>2
  <2> QED
    BY <2>1, ItemsKeep
<1>14. WorkerInv'
  BY <1>10 DEF WorkerInv
<1> QED
  BY <1>1, <1>11, <1>12, <1>13, <1>14, BatchMoves

\* A worker fails: its group fails with it.
LEMMA WorkerErrsKeeps ==
  ASSUME IInv, NEW i, WorkerErrs(i)
  PROVE  IInv'
<1>1. /\ i \in batch.busy /\ batchFrame' = batchFrame
      /\ batch' = [batch EXCEPT !.failed = TRUE, !.busy = batch.busy \ {i}]
      /\ worker' = Idle /\ nonces' = nonces /\ stirred' = stirred
  BY DEF WorkerErrs
<1>2. /\ batch \in Batches /\ batch.pc = "group"
      /\ nonces \subseteq Recipients /\ stirred \subseteq Recipients
  BY <1>1, GroupFacts
<1>3. /\ batch' \in Batches /\ batch'.pc = batch.pc /\ batch'.start = batch.start
      /\ batch'.failed = TRUE /\ batch'.busy = batch.busy \ {i}
      /\ batch'.items = batch.items
  BY <1>1, <1>2 DEF Batches
<1>4. worker' \in Workers /\ worker'.phase = "idle"
  BY <1>1 DEF Idle, Workers
<1>5. TypeOK'
  BY <1>1, <1>2, <1>3, <1>4, BatchTypes DEF IInv
<1>6. BatchInv'
  <2>1. /\ req.flow \in Scheduled /\ ValidRequest(req)
        /\ dep.pc \notin {"start", "index", "prepared"}
        /\ batch.busy \subseteq batch.start .. batch.start + proofBatchSize - 1
    BY <1>2 DEF IInv, BatchInv
  <2> QED
    BY <1>1, <1>2, <1>3, <2>1, BatchFrame DEF BatchInv
<1>7. ItemsInv'
  BY <1>1, <1>3, ItemsKeep DEF IInv, ItemsInv
<1>8. WorkerInv'
  BY <1>4 DEF WorkerInv
<1> QED
  BY <1>1, <1>2, <1>5, <1>6, <1>7, <1>8, BatchMoves

\* A step of a worker within its proof.
LEMMA WorkerMoves ==
  ASSUME IInv, batchFrame' = batchFrame, batch' = batch, NEW i \in batch.busy,
         worker' \in Workers, nonces \subseteq nonces', nonces' \subseteq Recipients,
         stirred \subseteq stirred', stirred' \subseteq Recipients, WorkerInv'
  PROVE  IInv'
<1>1. batch \in Batches /\ batch.pc = "group"
  BY GroupFacts
<1>2. TypeOK'
  BY <1>1, BatchTypes DEF IInv
<1>3. BatchInv'
  BY BatchFrame DEF IInv, BatchInv
<1>4. ItemsInv'
  <2>1. ASSUME NEW j \in Recipients, batch.items[j] # <<>>
        PROVE  /\ Asked(j, batch.items[j][1])
               /\ j \notin stirred' => Provable(batch.items[j][1].root, batch.items[j][1].index)
    BY <2>1 DEF IInv, ItemsInv
  <2> QED
    BY <2>1, ItemsKeep
<1> QED
  BY <1>1, <1>2, <1>3, <1>4, BatchMoves

\* The chain's tree, once the deposit has landed, is one to prove on.
LEMMA LandedProvable ==
  ASSUME IInv, Landed, req.flow \in Scheduled, ValidRequest(req)
  PROVE  Provable(leaves, IndexOf(leaves))
<1>1. /\ req \in Requests /\ leaves \in Seq(Int) /\ bounds \subseteq 1 .. Len(leaves)
      /\ Len(leaves) \in bounds
  BY DEF IInv, TypeOK, LeavesInv
<1>2. PICK n \in 0 .. Len(leaves) : LandedAt(n)
  BY DEF IInv, LeavesInv
<1>3. NoteCount(req) \in Nat \ {0} /\ ToSet(PendingLeaves) = 1 .. NoteCount(req)
  BY <1>1, Pending
<1>4. ASSUME NEW j \in 1 .. NoteCount(req) PROVE j \in ToSet(leaves)
  <2>1. leaves[n + j] = j /\ n + NoteCount(req) \in 1 .. Len(leaves)
    BY <1>1, <1>2 DEF LandedAt
  <2>2. n + j \in 1 .. Len(leaves)
    BY <1>1, <1>3, <2>1
  <2> QED
    BY <1>1, <2>1, <2>2, Elements
<1>5. Accepted(leaves, IndexOf(leaves))
  BY <1>1, PrefixSelf DEF Accepted
<1> QED
  BY <1>3, <1>4, <1>5 DEF Provable

\* A tree that lacks no leaf of another user is the chain's until the deposit
\* lands, and then the chain's as it was before or one with the deposit's leaves.
LEMMA UpToDate ==
  ASSUME IInv, ~Lags, req.flow \in Scheduled, ValidRequest(req)
  PROVE  IF Landed
         THEN \/ 1 \in ToSet(tree)
              \/ Accepted(tree \o PendingLeaves, IndexOf(tree \o PendingLeaves))
         ELSE tree = leaves
<1>1. /\ req \in Requests /\ leaves \in Seq(Int) /\ tree \in Seq(Int)
      /\ bounds \subseteq 1 .. Len(leaves) /\ Len(leaves) \in Nat /\ Len(tree) \in Nat
  BY DEF IInv, TypeOK
<1>2. IsPrefix(tree, leaves)
  BY DEF IInv, LeavesInv
<1>3. Len(tree) <= Len(leaves) /\ \A j \in 1 .. Len(tree) : tree[j] = leaves[j]
  BY <1>1, <1>2, PrefixMeans
<1>4. \A j \in Len(tree) + 1 .. Len(leaves) : ~IsForeign(leaves[j])
  BY DEF Lags
<1>5. CASE ~Landed
  <2>1. \A j \in 1 .. Len(leaves) : IsForeign(leaves[j])
    BY <1>1, <1>5 DEF IInv, LeavesInv
  <2>2. Len(tree) = Len(leaves)
    <3>1. ASSUME Len(tree) < Len(leaves) PROVE FALSE
      <4>1. /\ Len(tree) + 1 \in 1 .. Len(leaves)
            /\ Len(tree) + 1 \in Len(tree) + 1 .. Len(leaves)
        BY <1>1, <3>1
      <4> QED
        BY <1>4, <2>1, <4>1
    <3> QED
      BY <1>1, <1>3, <3>1
  <2>3. tree = leaves
    BY <1>1, <1>3, <2>2
  <2> QED
    BY <1>5, <2>3
<1>6. CASE Landed
  <2>1. PICK n \in 0 .. Len(leaves) : LandedAt(n)
    BY <1>6 DEF IInv, LeavesInv
  <2> DEFINE count == NoteCount(req)
  <2>2. count \in Nat \ {0}
    BY <1>1, Pending
  <2>3. /\ n \in Nat /\ n + count \in bounds /\ n + count <= Len(leaves)
        /\ \A j \in 1 .. count : leaves[n + j] = j
        /\ \A j \in 1 .. Len(leaves) : j \in n + 1 .. n + count \/ IsForeign(leaves[j])
    <3>1. /\ n \in Nat /\ n + count \in bounds
          /\ \A j \in 1 .. count : leaves[n + j] = j
      BY <1>1, <2>1 DEF LandedAt
    <3>2. n + count <= Len(leaves)
      <4>1. n + count \in 1 .. Len(leaves)
        BY <1>1, <3>1
      <4> HIDE DEF count
      <4> QED
        BY <1>1, <4>1
    <3>3. DOMAIN leaves = 1 .. Len(leaves)
      BY <1>1
    <3>4. \A j \in 1 .. Len(leaves) : j \in n + 1 .. n + count \/ IsForeign(leaves[j])
      BY <2>1, <3>3 DEF LandedAt
    <3> QED
      BY <3>1, <3>2, <3>4
  <2> HIDE DEF count
  <2>4. Len(tree) >= n
    <3>1. ASSUME Len(tree) < n PROVE FALSE
      <4>1. /\ Len(tree) + 1 \in 1 .. Len(leaves) /\ Len(tree) + 1 \notin n + 1 .. n + count
            /\ Len(tree) + 1 \in Len(tree) + 1 .. Len(leaves)
        BY <1>1, <2>2, <2>3, <3>1
      <4> QED
        BY <1>4, <2>3, <4>1
    <3> QED
      BY <1>1, <2>3, <3>1
  <2>5. CASE Len(tree) > n
    <3>1. n + 1 \in 1 .. Len(tree)
      BY <1>1, <2>3, <2>5
    <3>2. 1 \in 1 .. count
      BY <2>2
    <3>3. tree[n + 1] = 1
      BY <1>3, <2>3, <3>1, <3>2
    <3> QED
      BY <1>1, <1>6, <3>1, <3>3, Elements
  <2>6. CASE Len(tree) = n
    <3> DEFINE root == tree \o PendingLeaves
    <3>1. /\ root \in Seq(Int) /\ Len(root) = n + count
          /\ \A j \in 1 .. Len(tree) : root[j] = tree[j]
          /\ \A j \in 1 .. count : root[n + j] = j
      BY <1>1, <2>6, WithPending DEF count
    <3> HIDE DEF root
    <3>2. ASSUME NEW j \in 1 .. n + count PROVE root[j] = leaves[j]
      <4>1. CASE j <= n
        <5>1. j \in 1 .. Len(tree)
          BY <2>3, <2>6, <4>1
        <5> QED
          BY <1>3, <3>1, <5>1
      <4>2. CASE j > n
        <5>1. j - n \in 1 .. count /\ n + (j - n) = j
          BY <2>2, <2>3, <4>2
        <5>2. root[n + (j - n)] = j - n /\ leaves[n + (j - n)] = j - n
          BY <2>3, <3>1, <5>1
        <5> QED
          BY <5>1, <5>2
      <4> QED
        BY <2>2, <2>3, <4>1, <4>2
    <3>3. IsPrefix(root, leaves)
      BY <1>1, <2>3, <3>1, <3>2, PrefixMeans
    <3>4. Accepted(root, IndexOf(root))
      BY <2>3, <3>1, <3>3 DEF Accepted
    <3> QED
      BY <1>6, <3>4 DEF root
  <2> QED
    BY <1>1, <2>3, <2>4, <2>5, <2>6
<1> QED
  BY <1>5, <1>6

\* The worker's proof, when one is under way.
LEMMA WorkerFacts ==
  ASSUME IInv, NEW i \in batch.busy, worker.phase # "idle"
  PROVE  /\ ~req.remote /\ i = batch.start /\ batch.busy = {batch.start}
         /\ req.flow = "lifi" => i \in nonces
         /\ NoteCount(req) \in Nat \ {0} /\ Len(PendingLeaves) = NoteCount(req)
         /\ worker.k \in 1 .. NoteCount(req) + 1 /\ worker.present < worker.k
         /\ worker.present \in Nat /\ worker.root \in Seq(Int) /\ worker.index \in Int
         /\ worker.present > 0 => Landed
         /\ ~Looks(worker.phase) => Landed
         /\ worker.phase = "clone" => /\ worker.present = 0
                                      /\ worker.k = NoteCount(req) + 1
         /\ i \notin stirred =>
              /\ Looks(worker.phase) =>
                   /\ worker.present = 0 => \A j \in 1 .. worker.k - 1 : j \notin ToSet(tree)
                   /\ IF Landed
                      THEN \/ 1 \in ToSet(tree)
                           \/ LET root == tree \o PendingLeaves
                              IN  Accepted(root, IndexOf(root))
                      ELSE tree = leaves
              /\ ~Looks(worker.phase) => Provable(tree, IndexOf(tree))
              /\ worker.phase \in {"clone", "index", "path"} => worker.root = tree
              /\ worker.phase = "path" => worker.index = IndexOf(tree)
<1>1. ~req.remote
  BY DEF IInv, WorkerInv
<1>2. /\ i = batch.start /\ batch.busy = {batch.start} /\ worker \in Workers
      /\ req \in Requests /\ ValidRequest(req)
  BY <1>1, GroupFacts
<1>3. NoteCount(req) \in Nat \ {0} /\ Len(PendingLeaves) = NoteCount(req)
  BY <1>2, Pending
<1>4. worker.present \in Nat /\ worker.root \in Seq(Int) /\ worker.index \in Int
  BY <1>2 DEF Workers
<1> QED
  BY <1>1, <1>2, <1>3, <1>4 DEF IInv, WorkerInv

\* The server of the temporary wallets learns of one.
LEMMA NonceKeeps ==
  ASSUME IInv, NEW i, AddTemporaryWalletNonce(i)
  PROVE  IInv'
<1>1. /\ i \in batch.busy /\ nonces' = nonces \union {i} /\ batchFrame' = batchFrame
      /\ batch' = batch /\ worker' = worker /\ stirred' = stirred
  BY DEF AddTemporaryWalletNonce
<1>2. /\ i \in Recipients /\ worker \in Workers /\ nonces \subseteq Recipients
      /\ stirred \subseteq Recipients
  BY <1>1, GroupFacts
<1>3. WorkerInv'
  <2>1. /\ req' = req /\ leaves' = leaves /\ tree' = tree /\ PendingLeaves' = PendingLeaves
        /\ NoteCount(req)' = NoteCount(req) /\ (Landed' <=> Landed)
    BY <1>1, BatchFrame
  <2>2. /\ (Provable(tree, IndexOf(tree)))' <=> Provable(tree, IndexOf(tree))
        /\ (Accepted(tree \o PendingLeaves, IndexOf(tree \o PendingLeaves)))'
             <=> Accepted(tree \o PendingLeaves, IndexOf(tree \o PendingLeaves))
    BY <1>1, <2>1, BatchFrame DEF IndexOf, Provable, Accepted
  <2> QED
    BY <1>1, <2>1, <2>2 DEF IInv, WorkerInv, IndexOf
<1> QED
  BY <1>1, <1>2, <1>3, WorkerMoves

\* The enclave's tree is the chain's with the deposit's leaves in it.
LEMMA RemoteKeeps ==
  ASSUME IInv, NEW i, ProveRemotely(i)
  PROVE  IInv'
<1> DEFINE root == IF Landed THEN leaves ELSE leaves \o PendingLeaves
<1>1. /\ i \in batch.busy /\ (req.flow = "lifi" => i \in nonces)
      /\ Record(i, Withdrawal(i, root, IndexOf(root)))
      /\ batchFrame' = batchFrame /\ nonces' = nonces /\ stirred' = stirred
  BY DEF ProveRemotely, MayProve
<1>2. /\ req \in Requests /\ leaves \in Seq(Int) /\ req.flow \in Scheduled
      /\ ValidRequest(req)
  BY <1>1, GroupFacts
<1>3. root \in Seq(Int)
  BY <1>2, WithPending
<1>4. IndexOf(root) \in Int
  BY <1>3 DEF IndexOf
<1>5. Provable(root, IndexOf(root))
  <2>1. CASE Landed
    BY <1>2, <2>1, LandedProvable
  <2>2. CASE ~Landed
    BY <2>2 DEF Provable
  <2> QED
    BY <2>1, <2>2
<1> HIDE DEF root
<1> QED
  BY <1>1, <1>3, <1>4, <1>5, RecordKeeps

\* A local proof begins.
LEMMA BeginProofKeeps ==
  ASSUME IInv, NEW i, BeginProof(i)
  PROVE  IInv'
<1>1. /\ i \in batch.busy /\ (req.flow = "lifi" => i \in nonces) /\ ~req.remote
      /\ worker' = [Idle EXCEPT !.phase = "scan", !.k = 1]
      /\ stirred' = (IF Lags THEN stirred \union {i} ELSE stirred)
      /\ batchFrame' = batchFrame /\ batch' = batch /\ nonces' = nonces
  BY DEF BeginProof, MayProve
<1>2. /\ i \in Recipients /\ i = batch.start /\ batch.busy = {batch.start}
      /\ req \in Requests /\ req.flow \in Scheduled /\ ValidRequest(req)
      /\ nonces \subseteq Recipients /\ stirred \subseteq Recipients
  BY <1>1, GroupFacts
<1>3. worker' = [phase |-> "scan", k |-> 1, present |-> 0, root |-> <<>>, index |-> 0]
  BY <1>1 DEF Idle
<1>4. worker' \in Workers
  BY <1>3 DEF Workers
<1>5. stirred \subseteq stirred' /\ stirred' \subseteq Recipients /\ (Lags => i \in stirred')
  BY <1>1, <1>2
<1>6. NoteCount(req) \in Nat \ {0}
  BY <1>2, Pending
<1>7. i \notin stirred' =>
        IF Landed
        THEN \/ 1 \in ToSet(tree)
             \/ Accepted(tree \o PendingLeaves, IndexOf(tree \o PendingLeaves))
        ELSE tree = leaves
  BY <1>2, <1>5, UpToDate
<1>8. WorkerInv'
  <2>1. /\ req' = req /\ leaves' = leaves /\ tree' = tree /\ PendingLeaves' = PendingLeaves
        /\ NoteCount(req)' = NoteCount(req) /\ (Landed' <=> Landed)
    BY <1>1, BatchFrame
  <2>2. (Accepted(tree \o PendingLeaves, IndexOf(tree \o PendingLeaves)))'
           <=> Accepted(tree \o PendingLeaves, IndexOf(tree \o PendingLeaves))
    BY <1>1, <2>1, BatchFrame DEF IndexOf, Accepted
  <2>3. worker'.k \in 1 .. NoteCount(req) + 1 /\ worker'.present < worker'.k
    BY <1>3, <1>6
  <2>4. \A j \in 1 .. worker'.k - 1 : j \notin ToSet(tree)
    BY <1>3
  <2>5. worker'.phase = "scan" /\ worker'.present = 0 /\ ~(worker'.present > 0)
    BY <1>3
  <2>6. /\ batch'.start = i /\ batch'.busy = {batch'.start} /\ ~req'.remote
        /\ req'.flow = "lifi" => i \in nonces'
    BY <1>1, <1>2, <2>1
  <2> QED
    BY <1>7, <2>1, <2>2, <2>3, <2>4, <2>5, <2>6 DEF WorkerInv, Looks
<1> QED
  BY <1>1, <1>4, <1>5, <1>2, <1>8, WorkerMoves

\* The live tree is asked for the next pending leaf.
LEMMA ScanKeeps ==
  ASSUME IInv, NEW i, ScanLeaf(i)
  PROVE  IInv'
<1> DEFINE found == IF Contains(tree, PendingLeaves[worker.k]) THEN 1 ELSE 0
<1>1. /\ i \in batch.busy /\ worker.phase = "scan" /\ worker.k <= Len(PendingLeaves)
      /\ worker' = [worker EXCEPT !.k = worker.k + 1, !.present = worker.present + found]
      /\ batchFrame' = batchFrame /\ batch' = batch /\ nonces' = nonces
      /\ stirred' = stirred
  BY DEF ScanLeaf, Working
<1>2. /\ i \in Recipients /\ worker \in Workers /\ req \in Requests /\ ValidRequest(req)
      /\ tree \in Seq(Int) /\ leaves \in Seq(Int)
      /\ nonces \subseteq Recipients /\ stirred \subseteq Recipients
  BY <1>1, GroupFacts
<1>3. /\ ~req.remote /\ i = batch.start /\ batch.busy = {batch.start}
      /\ req.flow = "lifi" => i \in nonces
      /\ NoteCount(req) \in Nat \ {0} /\ Len(PendingLeaves) = NoteCount(req)
      /\ worker.k \in 1 .. NoteCount(req) + 1 /\ worker.present < worker.k
      /\ worker.present \in Nat
      /\ worker.present > 0 => Landed
      /\ i \notin stirred =>
           /\ worker.present = 0 => \A j \in 1 .. worker.k - 1 : j \notin ToSet(tree)
           /\ IF Landed
              THEN \/ 1 \in ToSet(tree)
                   \/ Accepted(tree \o PendingLeaves, IndexOf(tree \o PendingLeaves))
              ELSE tree = leaves
  BY <1>1, WorkerFacts DEF Looks
<1>4. worker.k \in 1 .. NoteCount(req) /\ PendingLeaves[worker.k] = worker.k
  BY <1>1, <1>2, <1>3, Pending
<1>5. found \in {0, 1} /\ (found = 1 <=> worker.k \in ToSet(tree))
  <2>1. Contains(tree, worker.k) <=> worker.k \in ToSet(tree)
    BY <1>2, Elements DEF Contains
  <2> QED
    BY <1>4, <2>1
<1> HIDE DEF found
<1>6. /\ worker' \in Workers /\ worker'.phase = "scan" /\ worker'.k = worker.k + 1
      /\ worker'.present = worker.present + found
  <2>1. worker.k + 1 \in Nat /\ worker.present + found \in Nat
    BY <1>3, <1>5
  <2> QED
    BY <1>1, <1>2, <2>1 DEF Workers
<1>7. found = 1 => Landed
  <2> SUFFICES ASSUME worker.k \in ToSet(tree), ~Landed PROVE FALSE
    BY <1>5
  <2>1. PICK j \in 1 .. Len(tree) : tree[j] = worker.k
    BY <1>2, Elements
  <2>2. /\ Len(tree) <= Len(leaves) /\ Len(tree) \in Nat /\ Len(leaves) \in Nat
        /\ tree[j] = leaves[j]
    BY <1>2, PrefixMeans, Elements DEF IInv, LeavesInv
  <2>3. IsForeign(leaves[j])
    BY <1>2, <2>2, Elements DEF IInv, LeavesInv
  <2> QED
    BY <1>3, <2>1, <2>2, <2>3 DEF IsForeign
<1>8. WorkerInv'
  <2>1. /\ req' = req /\ leaves' = leaves /\ tree' = tree /\ PendingLeaves' = PendingLeaves
        /\ NoteCount(req)' = NoteCount(req) /\ (Landed' <=> Landed)
    BY <1>1, BatchFrame
  <2>2. (Accepted(tree \o PendingLeaves, IndexOf(tree \o PendingLeaves)))'
           <=> Accepted(tree \o PendingLeaves, IndexOf(tree \o PendingLeaves))
    BY <1>1, <2>1, BatchFrame DEF IndexOf, Accepted
  <2>3. worker'.k \in 1 .. NoteCount(req) + 1 /\ worker'.present < worker'.k
    <3>1. worker.k + 1 \in 1 .. NoteCount(req) + 1
      BY <1>3, <1>4
    <3>2. worker.present + found < worker.k + 1
      BY <1>3, <1>4, <1>5
    <3> QED
      BY <1>6, <3>1, <3>2
  <2>4. worker'.present > 0 => Landed
    BY <1>3, <1>5, <1>6, <1>7
  <2>5. i \notin stirred /\ worker'.present = 0 =>
          \A j \in 1 .. worker'.k - 1 : j \notin ToSet(tree)
    <3> SUFFICES ASSUME i \notin stirred, worker'.present = 0, NEW j \in 1 .. worker'.k - 1
                 PROVE  j \notin ToSet(tree)
      OBVIOUS
    <3>1. worker.present = 0 /\ found = 0
      BY <1>3, <1>5, <1>6
    <3>2. j \in 1 .. worker.k - 1 \/ j = worker.k
      BY <1>3, <1>6
    <3> QED
      BY <1>3, <1>5, <3>1, <3>2
  <2> QED
    BY <1>1, <1>3, <1>6, <2>1, <2>2, <2>3, <2>4, <2>5 DEF WorkerInv, Looks
<1> QED
  BY <1>1, <1>2, <1>6, <1>8, WorkerMoves

\* The copying begins: what the scan saw still holds.
LEMMA BeginCloneKeeps ==
  ASSUME IInv, NEW i, BeginClone(i)
  PROVE  IInv'
<1>1. /\ i \in batch.busy /\ worker.phase = "scan" /\ worker.k > Len(PendingLeaves)
      /\ worker.present = 0 /\ worker' = [worker EXCEPT !.phase = "clone", !.root = tree]
      /\ batchFrame' = batchFrame /\ batch' = batch /\ nonces' = nonces
      /\ stirred' = stirred
  BY DEF BeginClone, Scanned, Working
<1>2. /\ i \in Recipients /\ worker \in Workers /\ req \in Requests /\ ValidRequest(req)
      /\ tree \in Seq(Int) /\ leaves \in Seq(Int)
      /\ nonces \subseteq Recipients /\ stirred \subseteq Recipients
  BY <1>1, GroupFacts
<1>3. /\ ~req.remote /\ i = batch.start /\ batch.busy = {batch.start}
      /\ req.flow = "lifi" => i \in nonces
      /\ NoteCount(req) \in Nat \ {0} /\ Len(PendingLeaves) = NoteCount(req)
      /\ worker.k \in 1 .. NoteCount(req) + 1
      /\ i \notin stirred =>
           /\ \A j \in 1 .. worker.k - 1 : j \notin ToSet(tree)
           /\ IF Landed
              THEN \/ 1 \in ToSet(tree)
                   \/ Accepted(tree \o PendingLeaves, IndexOf(tree \o PendingLeaves))
              ELSE tree = leaves
  BY <1>1, WorkerFacts DEF Looks
<1>4. worker.k = NoteCount(req) + 1
  BY <1>1, <1>3
<1>5. /\ worker' \in Workers /\ worker'.phase = "clone" /\ worker'.k = worker.k
      /\ worker'.present = 0 /\ worker'.root = tree
  BY <1>1, <1>2 DEF Workers
<1>6. WorkerInv'
  <2>1. /\ req' = req /\ leaves' = leaves /\ tree' = tree /\ PendingLeaves' = PendingLeaves
        /\ NoteCount(req)' = NoteCount(req) /\ (Landed' <=> Landed)
    BY <1>1, BatchFrame
  <2>2. (Accepted(tree \o PendingLeaves, IndexOf(tree \o PendingLeaves)))'
           <=> Accepted(tree \o PendingLeaves, IndexOf(tree \o PendingLeaves))
    BY <1>1, <2>1, BatchFrame DEF IndexOf, Accepted
  <2>3. /\ batch'.start = i /\ batch'.busy = {batch'.start} /\ ~req'.remote
        /\ req'.flow = "lifi" => i \in nonces'
    BY <1>1, <1>3, <2>1
  <2>4. worker'.present < worker'.k /\ ~(worker'.present > 0)
    BY <1>3, <1>4, <1>5
  <2> QED
    BY <1>1, <1>3, <1>4, <1>5, <2>1, <2>2, <2>3, <2>4 DEF WorkerInv, Looks
<1> QED
  BY <1>1, <1>2, <1>5, <1>6, WorkerMoves

\* The clone: a tree of the worker's own, with the pending leaves at its end.
\* If the live tree stood still, it is that tree.
LEMMA CloneKeeps ==
  ASSUME IInv, NEW i, CloneTree(i)
  PROVE  IInv'
<1>1. PICK copy \in Copies(worker.root, tree) :
        Record(i, Withdrawal(i, copy \o PendingLeaves, IndexOf(copy \o PendingLeaves)))
  BY DEF CloneTree
<1>2. /\ i \in batch.busy /\ worker.phase = "clone"
      /\ batchFrame' = batchFrame /\ nonces' = nonces /\ stirred' = stirred
  BY DEF CloneTree, Working
<1>3. req \in Requests /\ ValidRequest(req) /\ tree \in Seq(Int) /\ leaves \in Seq(Int)
  BY <1>2, GroupFacts
<1>4. worker.root \in Seq(Int)
  BY <1>2, WorkerFacts
<1>5. copy \in Seq(Int)
  <2>1. CASE copy \in {worker.root, tree}
    BY <1>3, <1>4, <2>1
  <2>2. CASE copy = [j \in DOMAIN tree |-> IF j \in DOMAIN worker.root THEN tree[j] ELSE 0]
    <3>1. DOMAIN tree = 1 .. Len(tree) /\ Len(tree) \in Nat
      BY <1>3, LenProperties
    <3>2. \A j \in 1 .. Len(tree) : tree[j] \in Int
      BY <1>3, ElementOfSeq
    <3> QED
      BY <2>2, <3>1, <3>2
  <2> QED
    BY <2>1, <2>2 DEF Copies
<1> DEFINE root == copy \o PendingLeaves
<1>6. /\ root \in Seq(Int) /\ ToSet(PendingLeaves) \subseteq ToSet(root)
  BY <1>3, <1>5, WithPending
<1>7. IndexOf(root) \in Int
  BY <1>6 DEF IndexOf
<1>8. ASSUME i \notin stirred PROVE Provable(root, IndexOf(root))
  <2>1. /\ NoteCount(req) \in Nat \ {0} /\ worker.k = NoteCount(req) + 1
        /\ worker.root = tree
        /\ \A j \in 1 .. worker.k - 1 : j \notin ToSet(tree)
        /\ IF Landed
           THEN \/ 1 \in ToSet(tree)
                \/ Accepted(tree \o PendingLeaves, IndexOf(tree \o PendingLeaves))
           ELSE tree = leaves
    BY <1>2, <1>8, WorkerFacts DEF Looks
  <2>2. copy = tree
    <3>1. tree = [j \in DOMAIN tree |-> tree[j]]
      BY <1>3
    <3> QED
      BY <2>1, <3>1 DEF Copies
  <2>3. 1 \notin ToSet(tree)
    BY <2>1, 1 \in 1 .. worker.k - 1
  <2>4. CASE Landed
    BY <1>6, <2>1, <2>2, <2>3, <2>4 DEF Provable
  <2>5. CASE ~Landed
    BY <2>1, <2>2, <2>5 DEF Provable
  <2> QED
    BY <2>4, <2>5
<1>9. req.flow = "lifi" => i \in nonces
  BY <1>2, WorkerFacts
<1> HIDE DEF root
<1> QED
  BY <1>1, <1>2, <1>6, <1>7, <1>8, <1>9, RecordKeeps DEF root

\* A local proof on the live tree, once it holds the deposit's leaves.
LEMMA ReadingKeeps ==
  ASSUME IInv, NEW i \in batch.busy, worker.phase # "idle", Landed,
         batchFrame' = batchFrame, batch' = batch, nonces' = nonces, stirred' = stirred,
         NEW phase \in {"root", "index", "path"}, NEW root \in Seq(Int), NEW index \in Int,
         worker' = [worker EXCEPT !.phase = phase, !.root = root, !.index = index],
         i \notin stirred =>
           /\ Provable(tree, IndexOf(tree))
           /\ phase # "root" => root = tree
           /\ phase = "path" => index = IndexOf(tree)
  PROVE  IInv'
<1>1. /\ worker \in Workers /\ i \in Recipients
      /\ nonces \subseteq Recipients /\ stirred \subseteq Recipients
  BY GroupFacts
<1>2. /\ ~req.remote /\ i = batch.start /\ batch.busy = {batch.start}
      /\ req.flow = "lifi" => i \in nonces
      /\ worker.k \in 1 .. NoteCount(req) + 1 /\ worker.present < worker.k
  BY WorkerFacts
<1>3. /\ worker' \in Workers /\ worker'.phase = phase /\ worker'.k = worker.k
      /\ worker'.present = worker.present /\ worker'.root = root /\ worker'.index = index
  BY <1>1 DEF Workers
<1>4. WorkerInv'
  <2>1. /\ req' = req /\ tree' = tree /\ NoteCount(req)' = NoteCount(req)
        /\ (Landed' <=> Landed) /\ IndexOf(tree)' = IndexOf(tree)
    BY BatchFrame DEF IndexOf
  <2>2. (Provable(tree, IndexOf(tree)))' <=> Provable(tree, IndexOf(tree))
    BY <2>1, BatchFrame DEF IndexOf, Provable, Accepted
  <2>3. ~Looks(phase) /\ phase # "idle" /\ phase # "clone"
    BY DEF Looks
  <2> QED
    BY <1>2, <1>3, <2>1, <2>2, <2>3 DEF WorkerInv
<1> QED
  BY <1>1, <1>3, <1>4, WorkerMoves

\* The live tree holds the pending leaves: it is used when its root is the
\* chain's, the server's siblings when it is not.
LEMMA CompareKeeps ==
  ASSUME IInv, NEW i, CompareRoots(i)
  PROVE  IInv'
<1>1. /\ i \in batch.busy /\ worker.phase = "scan" /\ worker.phase # "idle"
      /\ worker.present = Len(PendingLeaves)
      /\ batchFrame' = batchFrame /\ nonces' = nonces /\ stirred' = stirred
  BY DEF CompareRoots, Scanned, Working
<1>2. /\ req \in Requests /\ req.flow \in Scheduled /\ ValidRequest(req)
      /\ leaves \in Seq(Int) /\ worker \in Workers
  BY <1>1, GroupFacts
<1>3. /\ NoteCount(req) \in Nat \ {0} /\ Len(PendingLeaves) = NoteCount(req)
      /\ worker.present > 0 => Landed
      /\ worker.root \in Seq(Int) /\ worker.index \in Int
      /\ req.flow = "lifi" => i \in nonces
  BY <1>1, WorkerFacts
<1>4. Landed
  BY <1>1, <1>3
<1>5. Provable(leaves, IndexOf(leaves))
  BY <1>2, <1>4, LandedProvable
<1>6. CASE tree = leaves
  <2>1. worker' = [worker EXCEPT !.phase = "root"] /\ batch' = batch
    BY <1>6 DEF CompareRoots
  <2>2. worker' = [worker EXCEPT !.phase = "root", !.root = worker.root,
                                 !.index = worker.index]
    BY <1>2, <2>1 DEF Workers
  <2>3. Provable(tree, IndexOf(tree))
    BY <1>5, <1>6
  <2>4. /\ worker.root \in Seq(Int) /\ worker.index \in Int
        /\ i \in batch.busy /\ worker.phase # "idle"
        /\ batchFrame' = batchFrame /\ nonces' = nonces /\ stirred' = stirred
    BY <1>1, <1>3
  <2> QED
    BY ONLY IInv, <1>4, <2>1, <2>2, <2>3, <2>4, ReadingKeeps
<1>7. CASE tree # leaves
  <2>1. Record(i, Withdrawal(i, leaves, IndexOf(leaves)))
    BY <1>7 DEF CompareRoots
  <2>2. IndexOf(leaves) \in Int
    BY <1>2 DEF IndexOf
  <2> QED
    BY <1>1, <1>2, <1>3, <1>5, <2>1, <2>2, RecordKeeps
<1> QED
  BY <1>6, <1>7

\* The root, the index and the paths are read one after the other.
LEMMA RootHashKeeps ==
  ASSUME IInv, NEW i, ReadRootHash(i)
  PROVE  IInv'
<1>1. /\ i \in batch.busy /\ worker.phase = "root" /\ worker.phase # "idle"
      /\ worker' = [worker EXCEPT !.phase = "index", !.root = tree]
      /\ batchFrame' = batchFrame /\ batch' = batch /\ nonces' = nonces
      /\ stirred' = stirred
  BY DEF ReadRootHash, Working
<1>2. worker \in Workers /\ tree \in Seq(Int)
  BY <1>1, GroupFacts
<1>3. /\ Landed /\ worker.index \in Int
      /\ i \notin stirred => Provable(tree, IndexOf(tree))
  BY <1>1, WorkerFacts DEF Looks
<1>4. worker' = [worker EXCEPT !.phase = "index", !.root = tree, !.index = worker.index]
  BY <1>1, <1>2 DEF Workers
<1> QED
  BY <1>1, <1>2, <1>3, <1>4, ReadingKeeps

\* A worker reads the index of the root it has read.
LEMMA RootIndexKeeps ==
  ASSUME IInv, NEW i, ReadRootIndex(i)
  PROVE  IInv'
<1>1. /\ i \in batch.busy /\ worker.phase = "index" /\ worker.phase # "idle"
      /\ worker' = [worker EXCEPT !.phase = "path", !.index = IndexOf(tree)]
      /\ batchFrame' = batchFrame /\ batch' = batch /\ nonces' = nonces
      /\ stirred' = stirred
  BY DEF ReadRootIndex, Working
<1>2. worker \in Workers /\ IndexOf(tree) \in Int
  BY <1>1, GroupFacts DEF IndexOf
<1>3. /\ Landed /\ worker.root \in Seq(Int)
      /\ i \notin stirred => Provable(tree, IndexOf(tree)) /\ worker.root = tree
  BY <1>1, WorkerFacts DEF Looks
<1>4. worker' = [worker EXCEPT !.phase = "path", !.root = worker.root, !.index = IndexOf(tree)]
  BY <1>1, <1>2 DEF Workers
<1> QED
  BY <1>1, <1>2, <1>3, <1>4, ReadingKeeps

\* A worker reads the paths, and gives up when the tree no longer has its root.
LEMMA PathsKeep ==
  ASSUME IInv, NEW i, ReadPaths(i)
  PROVE  IInv'
<1>1. i \in batch.busy /\ worker.phase = "path" /\ worker.phase # "idle"
  BY DEF ReadPaths, Working
<1>2. CASE tree = worker.root
  <2>1. /\ Record(i, Withdrawal(i, worker.root, worker.index))
        /\ batchFrame' = batchFrame /\ nonces' = nonces /\ stirred' = stirred
    BY <1>2 DEF ReadPaths
  <2>2. /\ worker.root \in Seq(Int) /\ worker.index \in Int
        /\ req.flow = "lifi" => i \in nonces
        /\ i \notin stirred => Provable(worker.root, worker.index)
    BY <1>1, WorkerFacts DEF Looks
  <2> QED
    BY <1>1, <2>1, <2>2, RecordKeeps
<1>3. CASE tree # worker.root
  BY <1>3, WorkerErrsKeeps DEF ReadPaths
<1> QED
  BY <1>2, <1>3

\* A group begins, ends, and the batch ends after the last.
LEMMA GroupsKeep ==
  ASSUME IInv, BeginGroup \/ EndGroup \/ EndBatch
  PROVE  IInv'
<1>1. /\ batchFrame' = batchFrame /\ worker' = worker /\ nonces' = nonces
      /\ stirred' = stirred /\ batch.busy = {} /\ batch.pc \in {"next", "group"}
  <2>1. batch.pc = "next" => batch.busy = {}
    BY DEF IInv, BatchInv
  <2> QED
    BY <2>1 DEF BeginGroup, EndGroup, EndBatch
<1>2. /\ batch \in Batches /\ worker \in Workers /\ req \in Requests
      /\ nonces \subseteq Recipients /\ stirred \subseteq Recipients
  BY DEF IInv, TypeOK, Batches, Workers
<1>3. worker'.phase = "idle" /\ worker' \in Workers
  BY <1>1, <1>2, NoWorker
<1>4. /\ req.flow \in Scheduled /\ ValidRequest(req)
      /\ dep.pc \notin {"start", "index", "prepared"}
  BY <1>1 DEF IInv, BatchInv
<1>5. /\ Recipients = 1 .. Len(req.amounts) /\ Len(req.amounts) \in Nat
  BY <1>2, RequestTypes
<1>6. batch.start \in Nat \ {0} /\ proofBatchSize \in Nat \ {0}
  BY <1>2, BatchAssumption DEF Batches, proofBatchSize
<1>7. batch' \in Batches /\ batch'.items = batch.items /\ BatchInv'
  <2>1. CASE BeginGroup
    <3> DEFINE busy == (batch.start .. batch.start + proofBatchSize - 1) \cap Recipients
    <3>1. batch.pc = "next" /\ batch' = [batch EXCEPT !.pc = "group", !.busy = busy]
      BY <2>1 DEF BeginGroup
    <3>2. /\ batch' \in Batches /\ batch'.items = batch.items /\ batch'.pc = "group"
          /\ batch'.busy = busy /\ batch'.start = batch.start
          /\ batch'.failed = batch.failed
      BY <1>2, <3>1 DEF Batches
    <3>3. \A i \in Recipients : i < batch.start => batch.items[i] # <<>>
      BY <3>1 DEF IInv, BatchInv
    <3>4. \A i \in Recipients : i < batch.start + proofBatchSize =>
            i < batch.start \/ i \in busy
      BY <1>5, <1>6
    <3>5. busy \subseteq batch.start .. batch.start + proofBatchSize - 1
      OBVIOUS
    <3> HIDE DEF busy
    <3> QED
      BY <1>1, <1>4, <3>2, <3>3, <3>4, <3>5, BatchFrame DEF BatchInv
  <2>2. CASE EndGroup
    <3>1. /\ batch.pc = "group"
          /\ batch' = [batch EXCEPT !.pc = IF batch.failed THEN "failed" ELSE "next",
                                    !.start = batch.start + proofBatchSize]
      BY <2>2 DEF EndGroup
    <3>2. batch.start + proofBatchSize \in Nat \ {0}
      BY <1>6
    <3>3. /\ batch' \in Batches /\ batch'.items = batch.items
          /\ batch'.pc = (IF batch.failed THEN "failed" ELSE "next")
          /\ batch'.busy = {} /\ batch'.start = batch.start + proofBatchSize
          /\ batch'.failed = batch.failed
      BY <1>1, <1>2, <3>1, <3>2 DEF Batches
    <3>4. ~batch.failed => \A i \in Recipients : i < batch.start + proofBatchSize =>
                             batch.items[i] # <<>>
      BY <1>1, <3>1 DEF IInv, BatchInv
    <3> QED
      BY <1>1, <1>4, <3>3, <3>4, BatchFrame DEF BatchInv
  <2>3. CASE EndBatch
    <3>1. /\ batch.pc = "next" /\ batch.start > Len(req.amounts)
          /\ batch' = [batch EXCEPT !.pc = "done"]
      BY <2>3 DEF EndBatch
    <3>2. /\ batch' \in Batches /\ batch'.items = batch.items /\ batch'.pc = "done"
          /\ batch'.busy = {} /\ batch'.start = batch.start
          /\ batch'.failed = batch.failed
      BY <1>1, <1>2, <3>1 DEF Batches
    <3>3. ~batch.failed /\ \A i \in Recipients : i < batch.start => batch.items[i] # <<>>
      BY <3>1 DEF IInv, BatchInv
    <3> QED
      BY <1>1, <1>4, <3>1, <3>2, <3>3, BatchFrame DEF BatchInv
  <2> QED
    BY <2>1, <2>2, <2>3
<1>8. TypeOK'
  BY <1>1, <1>2, <1>3, <1>7, BatchTypes DEF IInv
<1>9. ItemsInv'
  BY <1>1, <1>7, ItemsKeep DEF IInv, ItemsInv
<1>10. WorkerInv'
  BY <1>3 DEF WorkerInv
<1> QED
  BY <1>1, <1>7, <1>8, <1>9, <1>10, BatchMoves

\* Every step of the batch's goroutine keeps the invariant.
LEMMA BatchKeeps ==
  ASSUME IInv, Batch
  PROVE  IInv'
<1>1. CASE BeginGroup \/ EndGroup \/ EndBatch
  BY <1>1, GroupsKeep
<1>2. ASSUME NEW i \in Recipients, Work(i) PROVE IInv'
  <2>1. CASE WorkerErrs(i) \/ PartialLeaves(i)
    BY <2>1, WorkerErrsKeeps DEF PartialLeaves
  <2>2. CASE \/ AddTemporaryWalletNonce(i) \/ ProveRemotely(i) \/ BeginProof(i)
             \/ ScanLeaf(i) \/ BeginClone(i) \/ CloneTree(i)
    BY <2>2, NonceKeeps, RemoteKeeps, BeginProofKeeps, ScanKeeps, BeginCloneKeeps,
       CloneKeeps
  <2>3. CASE CompareRoots(i) \/ ReadRootHash(i) \/ ReadRootIndex(i) \/ ReadPaths(i)
    BY <2>3, CompareKeeps, RootHashKeeps, RootIndexKeeps, PathsKeep
  <2> QED
    BY <1>2, <2>1, <2>2, <2>3 DEF Work
<1> QED
  BY <1>1, <1>2 DEF Batch

-----------------------------------------------------------------------------
(* The call.                                                                  *)

\* Only what the caller knows and what is scheduled change.
LEMMA CallMoves ==
  ASSUME IInv, depVars' = depVars, batch' = batch, worker' = worker,
         nonces' = nonces, stirred' = stirred,
         call' \in {"running", "ok", "error"}, ScheduleInv'
  PROVE  IInv'
<1>1. /\ req' = req /\ leaves' = leaves /\ bounds' = bounds /\ tree' = tree /\ dep' = dep
  BY DEF depVars
<1>2. Landed' <=> Landed
  BY <1>1 DEF Landed
<1>3. DepositInv' /\ FitInv' /\ DepositLandsOnce'
  BY SameDeposit DEF IInv
<1>4. LeavesInv' /\ ItemsInv' /\ WorkerInv'
  BY <1>1, <1>2, SameLeaves DEF IInv
<1>5. BatchInv'
  BY <1>1, SameRequest DEF IInv, BatchInv
<1>6. TypeOK'
  BY SameRequest DEF IInv, TypeOK, depVars, Deposits, Withdrawals
<1> QED
  BY <1>3, <1>4, <1>5, <1>6 DEF IInv

\* While the call runs nothing is scheduled.
LEMMA Unscheduled ==
  ASSUME IInv, call = "running"
  PROVE  sched = NotScheduled
BY DEF IInv, ScheduleInv

\* A request that is refused ends before anything is built.
LEMMA RejectKeeps ==
  ASSUME IInv, Reject
  PROVE  IInv'
<1>1. /\ call = "running" /\ dep.pc = "start" /\ ~ValidRequest(req) /\ call' = "error"
      /\ dep' = [dep EXCEPT !.pc = "failed"]
      /\ req' = req /\ leaves' = leaves /\ bounds' = bounds /\ tree' = tree
      /\ allowance' = allowance /\ earlier' = earlier
      /\ overtaken' = overtaken /\ missed' = missed
      /\ batch' = batch /\ worker' = worker /\ nonces' = nonces
      /\ stirred' = stirred /\ sched' = sched
  BY DEF Reject, Quiet
<1>2. dep \in Deposits
  BY DEF IInv, TypeOK
<1>3. /\ dep' \in Deposits /\ dep'.pc = "failed" /\ dep'.root = dep.root
      /\ dep'.index = dep.index /\ dep'.buckets = dep.buckets
      /\ dep'.swapped = dep.swapped /\ dep'.approval = dep.approval
      /\ dep'.polls = dep.polls /\ dep'.gas = dep.gas /\ dep'.wire = dep.wire
  BY <1>1, <1>2 DEF Deposits, Places
<1>4. /\ dep.wire = <<>> /\ dep.approval = "none" /\ ~dep.gas
  BY <1>1 DEF IInv, DepositInv, Unsent, Places
<1>5. /\ ~Landed /\ (Landed' <=> Landed) /\ ~InFlight'
  BY <1>3, <1>4 DEF Landed, InFlight
<1>6. TypeOK'
  BY <1>1, <1>3, SameRequest DEF IInv, TypeOK, Withdrawals
<1>7. DepositInv'
  BY <1>1, <1>3, <1>4, SameRequest DEF IInv, DepositInv, Unsent
<1>8. FitInv'
  <2>1. OnTron => ~dep.swapped
    BY <1>1 DEF IInv, FitInv
  <2> QED
    BY <1>1, <1>3, <1>4, <1>5, <2>1, SameRequest DEF FitInv
<1>9. LeavesInv' /\ ItemsInv' /\ WorkerInv'
  BY <1>1, <1>5, SameLeaves DEF IInv
<1>10. BatchInv'
  BY <1>1, <1>3, SameRequest DEF IInv, BatchInv
<1>11. ScheduleInv'
  BY <1>1, Unscheduled DEF ScheduleInv
<1>12. DepositLandsOnce'
  BY <1>1, <1>3, <1>4 DEF DepositLandsOnce
<1> QED
  BY <1>6, <1>7, <1>8, <1>9, <1>10, <1>11, <1>12 DEF IInv

\* The deposit is built: it is submitted, and the batch begins beside it.
LEMMA SpawnKeeps ==
  ASSUME IInv, Spawn
  PROVE  IInv'
<1> DEFINE pc == IF req.returnTx THEN "done" ELSE IF OnSolana THEN "send" ELSE "allow"
           swapped == IF OnTron THEN ~dep.swapped ELSE dep.swapped
<1>1. /\ dep.pc = "prepared" /\ dep' = [dep EXCEPT !.pc = pc, !.swapped = swapped]
      /\ batch' = (IF req.flow \in Scheduled THEN [batch EXCEPT !.pc = "next"] ELSE batch)
      /\ req' = req /\ leaves' = leaves /\ bounds' = bounds /\ tree' = tree
      /\ allowance' = allowance /\ earlier' = earlier
      /\ overtaken' = overtaken /\ missed' = missed
      /\ call' = call /\ worker' = worker /\ nonces' = nonces
      /\ stirred' = stirred /\ sched' = sched
  BY DEF Spawn, BeginSubmit, chainVars, Quiet
<1>2. dep \in Deposits /\ batch \in Batches /\ req \in Requests
  BY DEF IInv, TypeOK, Batches
<1>3. /\ dep.wire = <<>> /\ ~dep.gas /\ dep.polls < WaitAttempts
      /\ dep.approval # "reset" /\ ValidRequest(req)
      /\ req.returnTx => dep.approval = "none"
  BY <1>1 DEF IInv, DepositInv, Unsent, Places
<1>4. /\ batch.pc = "idle" /\ batch.start = 1 /\ batch.busy = {} /\ ~batch.failed
      /\ \A i \in Recipients : batch.items[i] = <<>>
  BY <1>1 DEF IInv, BatchInv
<1>5. swapped \in BOOLEAN /\ (OnTron => ~swapped)
  <2>1. dep.swapped \in BOOLEAN
    BY <1>2 DEF Deposits
  <2>2. OnTron => dep.swapped
    BY <1>1 DEF IInv, FitInv
  <2> QED
    BY <2>1, <2>2
<1>6. /\ pc \in {"done", "send", "allow"} /\ (pc = "done" => req.returnTx)
      /\ (req.returnTx => pc = "done") /\ (pc = "send" => OnSolana)
  OBVIOUS
<1> HIDE DEF pc, swapped
<1>7. /\ dep' \in Deposits /\ dep'.pc = pc /\ dep'.root = dep.root
      /\ dep'.index = dep.index /\ dep'.buckets = dep.buckets
      /\ dep'.swapped = swapped /\ dep'.approval = dep.approval
      /\ dep'.polls = dep.polls /\ dep'.gas = dep.gas /\ dep'.wire = dep.wire
  BY <1>1, <1>2, <1>5, <1>6 DEF Deposits, Places
<1>8. /\ batch' \in Batches /\ batch'.start = 1 /\ batch'.busy = {} /\ ~batch'.failed
      /\ \A i \in Recipients : batch'.items[i] = <<>>
      /\ batch'.pc = IF req.flow \in Scheduled THEN "next" ELSE "idle"
  BY <1>1, <1>2, <1>4 DEF Batches
<1>9. /\ ~Landed /\ ~Landed' /\ ~InFlight'
  BY <1>3, <1>7 DEF Landed, InFlight
<1>10. TypeOK'
  BY <1>1, <1>7, <1>8, SameRequest DEF IInv, TypeOK, Batches, Withdrawals
<1>11. DepositInv'
  <2>1. SendRetries \in Nat \ {0} /\ Len(dep.wire) = 0 /\ DOMAIN dep.wire = {}
    BY <1>3, DepositAssumption
  <2> QED
    BY <1>1, <1>3, <1>6, <1>7, <2>1, SameRequest DEF DepositInv, Unsent
<1>12. FitInv'
  <2>1. /\ NeedsProof => IsPrefix(dep.root, leaves) /\ Len(dep.root) \in bounds
        /\ OnSolana /\ ~overtaken /\ ~missed =>
             dep.buckets = SolanaRootBuckets(Len(leaves))
    BY <1>1, <1>9 DEF IInv, FitInv
  <2>2. ~(pc = "send" /\ (dep.gas \/ OnTron)) /\ pc # "prepared"
    BY <1>3, <1>6, FlowKinds
  <2> QED
    BY <1>1, <1>3, <1>5, <1>7, <1>9, <2>1, <2>2, SameRequest DEF FitInv
<1>13. LeavesInv'
  BY <1>1, <1>9, SameRequest DEF IInv, LeavesInv
<1>14. BatchInv'
  <2>1. dep'.pc \notin {"start", "index", "prepared"}
    BY <1>6, <1>7
  <2>2. \A i \in Recipients : i < 1 => FALSE
    BY <1>2, RequestTypes
  <2> QED
    BY <1>1, <1>3, <1>8, <2>1, <2>2, SameRequest DEF BatchInv
<1>15. ItemsInv'
  BY <1>1, <1>8, SameRequest DEF ItemsInv
<1>16. WorkerInv'
  BY <1>1, <1>4, NoWorker DEF WorkerInv
<1>17. ScheduleInv'
  <2>1. sched = NotScheduled /\ call # "ok"
    BY <1>1 DEF IInv, ScheduleInv
  <2> QED
    BY <1>1, <2>1 DEF ScheduleInv
<1>18. DepositLandsOnce'
  <2>1. DOMAIN dep'.wire = {}
    BY <1>3, <1>7
  <2> QED
    BY <2>1 DEF DepositLandsOnce
<1> QED
  BY <1>10, <1>11, <1>12, <1>13, <1>14, <1>15, <1>16, <1>17, <1>18 DEF IInv

\* The call returns without a batch, or because a goroutine failed.
LEMMA EndKeeps ==
  ASSUME IInv, Return \/ WaitFails
  PROVE  IInv'
<1>1. /\ call = "running" /\ depVars' = depVars /\ batch' = batch /\ worker' = worker
      /\ nonces' = nonces /\ stirred' = stirred /\ sched' = sched
      /\ call' \in {"ok", "error"}
      /\ call' = "ok" => dep.pc = "done" /\ batch.pc = "idle"
  BY DEF Return, WaitFails
<1>2. sched = NotScheduled
  BY <1>1, Unscheduled
<1>3. req' = req /\ dep' = dep
  BY <1>1 DEF depVars
<1>4. call' = "ok" => req.flow \notin Scheduled
  BY <1>1 DEF IInv, BatchInv
<1>5. ScheduleInv'
  BY <1>1, <1>2, <1>3, <1>4 DEF ScheduleInv
<1> QED
  BY <1>1, <1>5, CallMoves

\* The batch is handed to the relayer, behind the deposit.
LEMMA ScheduleKeeps ==
  ASSUME IInv, Schedule
  PROVE  IInv'
<1> DEFINE what == [items |-> [i \in Recipients |-> batch.items[i][1]],
                    dependsOn |-> Len(dep.wire)]
<1>1. PICK scheduled, answered \in BOOLEAN :
        /\ sched' = IF scheduled THEN what ELSE sched
        /\ call' = IF scheduled /\ answered THEN "ok" ELSE "error"
  BY DEF Schedule
<1>2. /\ call = "running" /\ dep.pc = "done" /\ batch.pc = "done"
      /\ depVars' = depVars /\ batch' = batch /\ worker' = worker
      /\ nonces' = nonces /\ stirred' = stirred
  BY DEF Schedule
<1>3. sched = NotScheduled
  BY <1>2, Unscheduled
<1>4. req' = req /\ dep' = dep /\ Recipients' = Recipients
  BY <1>2, SameRequest DEF depVars
<1>5. what # NotScheduled
  <2>1. req.flow \in Scheduled /\ req \in Requests /\ dep \in Deposits
    BY <1>2 DEF IInv, BatchInv, TypeOK
  <2>2. ~req.returnTx
    BY <2>1, RequestTypes DEF Scheduled
  <2>3. dep.wire # <<>>
    BY <1>2, <2>2 DEF IInv, DepositInv
  <2>4. dep.wire \in Seq({"pending", "landed", "reverted", "expired", "dropped"})
    BY <2>1 DEF Deposits
  <2>5. Len(dep.wire) # 0
    BY <2>3, <2>4, EmptySeq
  <2>6. what.dependsOn # NotScheduled.dependsOn
    BY <2>5 DEF NotScheduled
  <2> QED
    BY <2>6
<1>6. what' = what
  BY <1>2, <1>4
<1> HIDE DEF what
<1>7. ScheduleInv'
  <2>1. sched' \in {what, NotScheduled} /\ call' # "running"
    BY <1>1, <1>3
  <2>2. call' = "ok" => sched' = what
    BY <1>1
  <2> QED
    BY <1>2, <1>4, <1>5, <1>6, <2>1, <2>2 DEF ScheduleInv, what
<1>8. call' \in {"running", "ok", "error"}
  BY <1>1
<1> QED
  BY <1>2, <1>7, <1>8, CallMoves

\* A step in which nothing moves.
LEMMA StutterKeeps ==
  ASSUME IInv, UNCHANGED vars
  PROVE  IInv'
<1>1. /\ depVars' = depVars /\ batch' = batch /\ worker' = worker /\ nonces' = nonces
      /\ stirred' = stirred /\ call' = call /\ sched' = sched
  BY DEF vars, sendVars
<1>2. call' \in {"running", "ok", "error"}
  BY <1>1 DEF IInv, TypeOK
<1>3. ScheduleInv'
  <2>1. req' = req /\ dep' = dep /\ Recipients' = Recipients
    BY <1>1, SameRequest DEF depVars
  <2> QED
    BY <1>1, <2>1 DEF IInv, ScheduleInv
<1> QED
  BY <1>1, <1>2, <1>3, CallMoves

-----------------------------------------------------------------------------
(* The theorems.                                                              *)

\* The inductive invariant holds in every state of a deposit with or without a
\* send, for every set of requests, number of polls, attempts and recipients.
THEOREM Inductive == Spec => []IInv
<1>1. Init => IInv
  BY Starts
<1>2. IInv /\ [Next]_vars => IInv'
  <2> SUFFICES ASSUME IInv, [Next]_vars PROVE IInv'
    OBVIOUS
  <2>1. CASE Environment
    BY <2>1, EnvironmentKeeps
  <2>2. CASE Deposit
    BY <2>2, DepositKeeps
  <2>3. CASE Batch
    BY <2>3, BatchKeeps
  <2>4. CASE Call
    BY <2>4, RejectKeeps, SpawnKeeps, EndKeeps, ScheduleKeeps DEF Call
  <2>5. CASE UNCHANGED vars
    BY <2>5, StutterKeeps
  <2> QED
    BY <2>1, <2>2, <2>3, <2>4, <2>5 DEF Next
<1> QED
  BY <1>1, <1>2, PTL DEF Spec

\* The types of the state of a deposit and of its batch.
THEOREM TypeCorrect == Spec => []TypeOK
<1>1. IInv => TypeOK
  BY DEF IInv
<1> QED
  BY <1>1, Inductive, PTL

\* A deposit that is sent lands unless the chain moved after the last look at it,
\* and lands once unless the confirmation loop missed it (SignAndConfirm).
THEOREM LandsOnce == Spec => []DepositLandsOnce
<1>1. IInv => DepositLandsOnce
  BY DEF IInv
<1> QED
  BY <1>1, Inductive, PTL

\* What the relayer is given: a batch that is done, built item by item.
LEMMA ScheduledItems ==
  ASSUME IInv, sched # NotScheduled
  PROVE  /\ req \in Requests /\ req.flow \in Scheduled /\ ValidRequest(req)
         /\ dep.pc = "done" /\ sched.dependsOn = Len(dep.wire) /\ dep.wire # <<>>
         /\ DOMAIN sched.items = Recipients
         /\ \A i \in Recipients : /\ sched.items[i] = batch.items[i][1]
                                  /\ batch.items[i] # <<>>
                                  /\ Asked(i, sched.items[i])
<1>1. /\ sched = [items |-> [i \in Recipients |-> batch.items[i][1]],
                  dependsOn |-> Len(dep.wire)]
      /\ dep.pc = "done" /\ batch.pc = "done"
  BY DEF IInv, ScheduleInv
<1>2. req.flow \in Scheduled /\ ValidRequest(req) /\ req \in Requests
  BY <1>1 DEF IInv, BatchInv, TypeOK
<1>3. ~req.returnTx
  BY <1>2, RequestTypes DEF Scheduled
<1>4. dep.wire # <<>>
  BY <1>1, <1>3 DEF IInv, DepositInv
<1>5. /\ sched.dependsOn = Len(dep.wire) /\ DOMAIN sched.items = Recipients
      /\ \A i \in Recipients : sched.items[i] = batch.items[i][1]
  BY <1>1
<1>6. ASSUME NEW i \in Recipients PROVE batch.items[i] # <<>>
  <2>1. /\ batch.start > Len(req.amounts)
        /\ \A j \in Recipients : j < batch.start => batch.items[j] # <<>>
    BY <1>1 DEF IInv, BatchInv
  <2>2. i \in 1 .. Len(req.amounts) /\ Len(req.amounts) \in Nat
    BY <1>2, RequestTypes
  <2>3. batch.start \in Nat
    BY DEF IInv, TypeOK
  <2> QED
    BY <2>1, <2>2, <2>3
<1>7. ASSUME NEW i \in Recipients PROVE Asked(i, sched.items[i])
  BY <1>5, <1>6 DEF IInv, ItemsInv
<1> QED
  BY <1>1, <1>2, <1>4, <1>5, <1>6, <1>7

\* Proving before the deposit has landed is sound: the instance's tree is always
\* the beginning of the chain's, and what is scheduled is proved on a root that
\* the contract keeps, under its index and with the notes it spends, unless the
\* tree moved while it was built (SpeculativeMerkleTree, handleLocalMerkleTrees).
THEOREM Speculation == Spec => []SpeculationSound
<1>1. IInv => SpeculationSound
  <2> SUFFICES ASSUME IInv PROVE SpeculationSound
    OBVIOUS
  <2>1. IsPrefix(tree, leaves)
    BY DEF IInv, LeavesInv
  <2>2. ASSUME Landed, NEW i \in DOMAIN sched.items \ stirred
        PROVE  /\ Accepted(sched.items[i].root, sched.items[i].index)
               /\ {sched.items[i].note} \union sched.items[i].native
                    \subseteq ToSet(sched.items[i].root)
    <3>1. sched # NotScheduled
      <4> SUFFICES ASSUME sched = NotScheduled PROVE FALSE
        OBVIOUS
      <4>1. sched.items = <<>>
        BY DEF NotScheduled
      <4> QED
        BY <2>2, <4>1
    <3>2. /\ i \in Recipients /\ sched.items[i] = batch.items[i][1]
          /\ batch.items[i] # <<>> /\ Asked(i, sched.items[i])
          /\ req \in Requests /\ ValidRequest(req)
      BY <2>2, <3>1, ScheduledItems
    <3> DEFINE item == sched.items[i]
    <3>3. Provable(item.root, item.index)
      BY <2>2, <3>2 DEF IInv, ItemsInv
    <3>4. /\ Accepted(item.root, item.index)
          /\ ToSet(PendingLeaves) \subseteq ToSet(item.root)
      BY <2>2, <3>3 DEF Provable
    <3>5. /\ ToSet(PendingLeaves) = 1 .. NoteCount(req) /\ NoteCount(req) \in Nat
          /\ Len(req.amounts) <= NoteCount(req)
          /\ NativeNotes(req) => NoteCount(req) = 2 * Len(req.amounts)
      BY <3>2, Pending
    <3>6. i \in 1 .. Len(req.amounts) /\ Len(req.amounts) \in Nat
      BY <3>2, RequestTypes
    <3>7. /\ item.note = i
          /\ item.native = IF NativeNotes(req) THEN {Len(req.amounts) + i} ELSE {}
      BY <3>2 DEF Asked
    <3>8. i \in 1 .. NoteCount(req)
      BY <3>5, <3>6
    <3>9. NativeNotes(req) => Len(req.amounts) + i \in 1 .. NoteCount(req)
      BY <3>5, <3>6
    <3> QED
      BY <3>4, <3>5, <3>7, <3>8, <3>9
  <2> QED
    BY <2>1, <2>2 DEF SpeculationSound
<1> QED
  BY <1>1, Inductive, PTL

\* What is scheduled is what was asked for: each recipient once, with a note of
\* his own that covers his amount after every fee, behind the deposit; a success
\* means that it was; and nothing is sent for who asked for the data only.
THEOREM Honoured == Spec => []ScheduleHonoursRequest
<1>1. IInv => ScheduleHonoursRequest
  <2> SUFFICES ASSUME IInv PROVE ScheduleHonoursRequest
    OBVIOUS
  <2>1. ASSUME sched # NotScheduled, NEW i \in Recipients
        PROVE  /\ sched.items[i].note = i /\ sched.items[i].recipient = i
               /\ sched.items[i].native \subseteq ToSet(PendingLeaves)
               /\ Net(sched.items[i]) >= req.amounts[i]
               /\ req.flow = "lifi" => i \in nonces
               /\ OnTron => sched.items[i].swapped
    <3> DEFINE item == sched.items[i]
    <3>1. /\ Asked(i, item) /\ req \in Requests /\ ValidRequest(req)
          /\ req.flow \in Scheduled
      BY <2>1, ScheduledItems
    <3>2. /\ item.note = i /\ item.recipient = i /\ item.swapped = OnTron
          /\ item.native = IF NativeNotes(req) THEN {Len(req.amounts) + i} ELSE {}
          /\ item.fee = CalculateTotalFee(req.amounts[i], req.fee)
          /\ req.flow = "lifi" => i \in nonces
      BY <3>1 DEF Asked
    <3>3. Net(item) >= req.amounts[i]
      BY <3>1, <3>2, NetCovers
    <3>4. /\ ToSet(PendingLeaves) = 1 .. NoteCount(req)
          /\ NativeNotes(req) => NoteCount(req) = 2 * Len(req.amounts)
      BY <3>1, Pending
    <3>5. i \in 1 .. Len(req.amounts) /\ Len(req.amounts) \in Nat
      BY <3>1, RequestTypes
    <3>6. NativeNotes(req) => Len(req.amounts) + i \in 1 .. NoteCount(req)
      BY <3>4, <3>5
    <3> QED
      BY <3>2, <3>3, <3>4, <3>6
  <2>2. ASSUME sched # NotScheduled
        PROVE  /\ DOMAIN sched.items = Recipients
               /\ dep.pc = "done" /\ sched.dependsOn \in DOMAIN dep.wire
    <3>1. /\ DOMAIN sched.items = Recipients /\ dep.pc = "done"
          /\ sched.dependsOn = Len(dep.wire) /\ dep.wire # <<>>
      BY <2>2, ScheduledItems
    <3>2. dep.wire \in Seq({"pending", "landed", "reverted", "expired", "dropped"})
      BY DEF IInv, TypeOK, Deposits
    <3>3. Len(dep.wire) \in DOMAIN dep.wire
      BY <3>1, <3>2, LenProperties, EmptySeq
    <3> QED
      BY <3>1, <3>3
  <2>3. req.returnTx => dep.wire = <<>> /\ dep.approval = "none"
    BY DEF IInv, DepositInv
  <2>4. call = "ok" => dep.pc = "done" /\ (req.flow \in Scheduled => sched # NotScheduled)
    BY DEF IInv, ScheduleInv
  <2> QED
    BY <2>1, <2>2, <2>3, <2>4 DEF ScheduleHonoursRequest
<1> QED
  BY <1>1, Inductive, PTL
=============================================================================
