------------------------- MODULE NearIntentsProofs -------------------------
(***************************************************************************)
(* Proofs about NearIntents, for any claims, accounts, refunds, fees and   *)
(* rotations of the salt, and any limits on attempts, polls and errors.    *)
(***************************************************************************)
EXTENDS NearIntents, SumTheorems

-----------------------------------------------------------------------------
(* What the intents of a payload take *)

\* The greater of two numbers.
LEMMA MaxOfTwo ==
  ASSUME NEW a \in Int, NEW b \in Int
  PROVE  Max({a, b}) = IF a >= b THEN a ELSE b
<1> DEFINE m == IF a >= b THEN a ELSE b
<1>1. m \in {a, b} /\ \A y \in {a, b} : m >= y
  OBVIOUS
<1>2. ASSUME NEW x \in {a, b}, \A y \in {a, b} : x >= y PROVE x = m
  BY <1>2
<1>3. Max({a, b}) = CHOOSE x \in {a, b} : \A y \in {a, b} : x >= y
  BY DEF Max
<1> HIDE DEF m
<1>4. Max({a, b}) = m
  BY <1>1, <1>2, <1>3
<1> QED
  BY <1>4 DEF m

\* The intents of a payload.
Ops == {"token_diff", "storage_deposit", "ft_withdraw", "mt_withdraw", "native_withdraw"}
Intents == [op : Ops, asset : Nat, native : Nat, buys : Nat]

Parts == {"asset", "native", "buys"}

\* What an intent moves.
LEMMA IntentParts ==
  \A op \in Ops : \A a, n, b \in Nat :
         /\ Intent(op, a, n, b) \in Intents /\ Intent(op, a, n, b).op = op
         /\ Intent(op, a, n, b)["asset"] = a
         /\ Intent(op, a, n, b)["native"] = n
         /\ Intent(op, a, n, b)["buys"] = b
BY DEF Intent, Intents

\* No intents move nothing.
LEMMA MovedNone ==
  ASSUME NEW part
  PROVE  Moved({}, part) = 0
BY SumEmpty DEF Moved, SumFunction

\* One intent moves what it says.
LEMMA MovedOne ==
  ASSUME NEW i \in Intents, NEW part \in Parts
  PROVE  Moved({i}, part) = i[part]
<1> DEFINE h == [j \in {i} |-> j[part]]
<1>1. i[part] \in Nat
  BY DEF Intents, Parts
<1>2. IsFiniteSet({i}) /\ {i} \ {i} = {}
  BY FS_Singleton
<1>3. SumFunctionOnSet(h, {i}) = h[i] + SumFunctionOnSet(h, {i} \ {i})
  <2>1. \A x \in {i} : h[x] \in Nat
    BY <1>1
  <2> HIDE DEF h
  <2> QED
    BY <1>2, <2>1, SumRemove
<1>4. SumFunctionOnSet(h, {}) = 0
  BY SumEmpty
<1> QED
  BY <1>1, <1>2, <1>3, <1>4 DEF Moved, SumFunction

\* Disjoint sets of intents add up.
LEMMA MovedUnion ==
  ASSUME NEW S \in SUBSET Intents, NEW T \in SUBSET Intents, IsFiniteSet(S), IsFiniteSet(T),
         S \cap T = {}, NEW part \in Parts
  PROVE  Moved(S \cup T, part) = Moved(S, part) + Moved(T, part)
<1> DEFINE f == [i \in S |-> i[part]]
           g == [i \in T |-> i[part]]
           h == [i \in S \cup T |-> i[part]]
<1>1. ASSUME NEW i \in S \cup T PROVE i[part] \in Nat
  BY DEF Intents, Parts
<1>2. \A i \in S \cup T : h[i] \in Nat
  BY <1>1
<1>3. (\A i \in S : h[i] = f[i]) /\ (\A i \in T : h[i] = g[i])
  OBVIOUS
<1>4. DOMAIN f = S /\ DOMAIN g = T /\ DOMAIN h = S \cup T
  OBVIOUS
<1> HIDE DEF f, g, h
<1>5. SumFunctionOnSet(h, S \cup T) = SumFunctionOnSet(h, S) + SumFunctionOnSet(h, T)
  BY <1>2, SumUnion
<1>6. SumFunctionOnSet(h, S) = SumFunctionOnSet(f, S) /\ SumFunctionOnSet(h, T) = SumFunctionOnSet(g, T)
  BY <1>3, SumAgree
<1> QED
  BY <1>4, <1>5, <1>6 DEF Moved, SumFunction, f, g, h

\* A payload of two intents.
LEMMA MovedTwo ==
  ASSUME NEW i \in Intents, NEW j \in Intents, i # j, NEW part \in Parts
  PROVE  Moved({i, j}, part) = i[part] + j[part]
<1>1. Moved({i} \cup {j}, part) = Moved({i}, part) + Moved({j}, part)
  <2>1. IsFiniteSet({i}) /\ IsFiniteSet({j}) /\ {i} \cap {j} = {}
    BY FS_Singleton
  <2>2. {i} \in SUBSET Intents /\ {j} \in SUBSET Intents
    OBVIOUS
  <2> QED
    BY <2>1, <2>2, MovedUnion
<1>2. {i} \cup {j} = {i, j}
  OBVIOUS
<1> QED
  BY <1>1, <1>2, MovedOne

\* A payload of three intents.
LEMMA MovedThree ==
  ASSUME NEW i \in Intents, NEW j \in Intents, NEW k \in Intents, i # j, i # k, j # k,
         NEW part \in Parts
  PROVE  Moved({i, j, k}, part) = i[part] + j[part] + k[part]
<1>1. IsFiniteSet({i, j}) /\ IsFiniteSet({k})
  <2>1. IsFiniteSet({i}) /\ IsFiniteSet({k})
    BY FS_Singleton
  <2>2. {i} \cup {j} = {i, j}
    OBVIOUS
  <2> QED
    BY <2>1, <2>2, FS_AddElement
<1>2. Moved({i, j} \cup {k}, part) = Moved({i, j}, part) + Moved({k}, part)
  BY <1>1, MovedUnion
<1>3. {i, j} \cup {k} = {i, j, k}
  OBVIOUS
<1> QED
  BY <1>2, <1>3, MovedTwo, MovedOne

-----------------------------------------------------------------------------
(* The fees *)

\* A quote buys the fee it is asked for, at a price.
LEMMA FeeQuotesSound ==
  ASSUME NEW need \in Nat \ {0}, NEW q \in FeeQuotes(need)
  PROVE  q.in \in Nat \ {0} /\ q.out \in Nat /\ q.out >= need
<1>1. ExactAmountIn(need) \in Nat \ {0}
  <2>1. CeilDiv(need * 12, 10) \in Int
    BY DEF CeilDiv
  <2>2. Max({1, CeilDiv(need * 12, 10)}) = IF 1 >= CeilDiv(need * 12, 10) THEN 1 ELSE CeilDiv(need * 12, 10)
    BY <2>1, MaxOfTwo
  <2> QED
    BY <2>1, <2>2 DEF ExactAmountIn
<1>2. CASE q \in [in : need..(need + 1), out : {need}]
  BY <1>2
<1>3. CASE q \in [in : {ExactAmountIn(need)}, out : 0..(2 * need)] /\ AcceptedFallback(need, q.out)
  <2>1. q.in = ExactAmountIn(need) /\ q.out \in 0..(2 * need)
    BY <1>3
  <2> QED
    BY <1>1, <1>3, <2>1 DEF AcceptedFallback
<1> QED
  BY <1>2, <1>3 DEF FeeQuotes

\* A fee that is paid with a quote is what the quote takes and the gas; the quote covers the
\* relayer and the storage, or there is nothing to cover and no quote.
Covered(fee) ==
  /\ fee.relayer \in Nat /\ fee.storage \in Nat /\ fee.gas \in Nat
  /\ fee.quote.in \in Nat /\ fee.quote.out \in Nat
  /\ fee.amount = fee.quote.in + fee.gas
  /\ fee.quote.out >= fee.relayer + fee.storage
  /\ fee.quote = NoQuote => fee.relayer = 0 /\ fee.storage = 0 /\ fee.quote.in = 0

\* Every quoted fee is covered.
LEMMA QuotedCovered ==
  ASSUME NEW relayer \in Nat, NEW storage \in Nat, NEW gas \in Nat,
         NEW fee \in Quoted(relayer + storage, relayer, storage, gas)
  PROVE  Covered(fee) /\ fee.relayer = relayer /\ fee.storage = storage /\ fee.gas = gas
<1> DEFINE need == relayer + storage
<1>1. CASE need = 0
  <2>1. fee = FeeOf(gas, NoQuote, relayer, storage, gas)
    BY <1>1 DEF Quoted
  <2> QED
    BY <1>1, <2>1 DEF FeeOf, NoQuote, Covered
<1>2. CASE need # 0
  <2>1. need \in Nat \ {0}
    BY <1>2
  <2>2. PICK q \in FeeQuotes(need) : fee = FeeOf(q.in + gas, q, relayer, storage, gas)
    BY <1>2 DEF Quoted
  <2> HIDE DEF need
  <2>3. q.in \in Nat \ {0} /\ q.out \in Nat /\ q.out >= need
    BY <2>1, <2>2, FeeQuotesSound
  <2>4. q # NoQuote
    BY <2>3 DEF NoQuote
  <2>5. /\ fee.amount = q.in + gas /\ fee.quote = q /\ fee.relayer = relayer
        /\ fee.storage = storage /\ fee.gas = gas
    BY <2>2 DEF FeeOf
  <2> QED
    BY <2>3, <2>4, <2>5 DEF Covered, need
<1> QED
  BY <1>1, <1>2

\* The storage fees are numbers.
LEMMA StorageNat ==
  ASSUME NEW storage \in StorageFees
  PROVE  storage \in Nat
<1>0. MaxFee \in Nat
  BY NearIntentsAssumption
<1>1. PICK minimum \in 0..MaxFee, balance \in 0..MaxFee : storage = Max({0, minimum - balance})
  BY DEF StorageFees
<1>2. minimum - balance \in Int
  BY <1>0
<1>3. storage = IF 0 >= minimum - balance THEN 0 ELSE minimum - balance
  BY <1>1, <1>2, MaxOfTwo
<1> QED
  BY <1>2, <1>3

-----------------------------------------------------------------------------
(* The intents take the claimed amount *)

\* What an exact set of intents moves.
Takes(intents, amount) == DebitOf(intents) = [asset |-> amount, native |-> 0]

\* From the three sums to the debit.
LEMMA TakesFromSums ==
  ASSUME NEW intents, NEW amount \in Nat, Moved(intents, "asset") = amount,
         Moved(intents, "native") \in Nat, Moved(intents, "buys") \in Nat,
         Moved(intents, "native") <= Moved(intents, "buys")
  PROVE  Takes(intents, amount)
<1>1. Max({0, Moved(intents, "native") - Moved(intents, "buys")}) = 0
  <2>1. Moved(intents, "native") - Moved(intents, "buys") \in Int
    OBVIOUS
  <2>2. 0 >= Moved(intents, "native") - Moved(intents, "buys")
    OBVIOUS
  <2> QED
    BY <2>1, <2>2, MaxOfTwo
<1> QED
  BY <1>1 DEF Takes, DebitOf

\* The POA bridge: one intent, the relayer's fee added to the amount.
LEMMA PoaExact ==
  ASSUME NEW amount \in Nat, NEW fee \in PoaFees, ~FeeTooHigh(amount, fee)
  PROVE  Takes(PoaIntents(amount - fee.amount, fee), amount)
<1>1. PICK f \in 1..MaxFee : fee = FeeOf(f, NoQuote, f, 0, 0)
  BY DEF PoaFees
<1>2. fee.amount = f /\ fee.relayer = f /\ f \in Nat
  BY <1>1, NearIntentsAssumption DEF FeeOf
<1>3. amount - f \in Nat
  BY <1>2 DEF FeeTooHigh
<1> DEFINE i == Intent("ft_withdraw", amount - f + f, 0, 0)
<1>4. i \in Intents /\ i["asset"] = amount /\ i["native"] = 0 /\ i["buys"] = 0
  <2>1. amount - f + f = amount
    BY <1>2, <1>3
  <2>2. i = Intent("ft_withdraw", amount, 0, 0)
    BY <2>1
  <2>3. "ft_withdraw" \in Ops /\ 0 \in Nat
    BY DEF Ops
  <2> HIDE DEF i
  <2> QED
    BY <2>2, <2>3, IntentParts
<1>5. PoaIntents(amount - fee.amount, fee) = {i}
  BY <1>2 DEF PoaIntents
<1> HIDE DEF i
<1>6. Moved({i}, "asset") = amount /\ Moved({i}, "native") = 0 /\ Moved({i}, "buys") = 0
  BY <1>4, MovedOne DEF Parts
<1> QED
  BY <1>5, <1>6, TakesFromSums

\* A swap for the fee's tokens, a storage deposit that pays the relayer, and the withdrawal:
\* whatever of them a payload needs, together they take what is asked of the account.
LEMMA SwapAndWithdraw ==
  ASSUME NEW fee, Covered(fee), NEW amount \in Nat, amount > fee.amount,
         NEW op \in Ops \ {"token_diff", "storage_deposit"},
         NEW relayer \in {fee.relayer, 0}, NEW native \in Nat,
         relayer + native <= fee.quote.out
  PROVE  LET withdrawal == Intent(op, amount - fee.quote.in, native, 0)
             deposit == {Intent("storage_deposit", 0, r, 0) : r \in {relayer} \ {0}}
         IN  /\ Takes(TokenDiff(fee) \cup deposit \cup {withdrawal}, amount)
             /\ relayer = 0 => Takes(TokenDiff(fee) \cup {withdrawal}, amount)
<1> DEFINE q == fee.quote
           rest == amount - q.in
           w == Intent(op, rest, native, 0)
           d == Intent("storage_deposit", 0, relayer, 0)
           t == Intent("token_diff", q.in, 0, q.out)
           deposit == {Intent("storage_deposit", 0, r, 0) : r \in {relayer} \ {0}}
<1>0. /\ q.in \in Nat /\ q.out \in Nat /\ relayer \in Nat /\ rest \in Nat
  BY DEF Covered
<1>ops. op \in Ops /\ "token_diff" \in Ops /\ "storage_deposit" \in Ops /\ 0 \in Nat
  BY DEF Ops
<1>1. /\ w \in Intents /\ w.op = op
      /\ w["asset"] = rest /\ w["native"] = native /\ w["buys"] = 0
  <2>1. op \in Ops /\ rest \in Nat /\ native \in Nat /\ 0 \in Nat
    BY <1>0, <1>ops
  <2> HIDE DEF q, rest
  <2> QED
    BY ONLY <2>1, IntentParts
<1>2. /\ d \in Intents /\ d.op = "storage_deposit"
      /\ d["asset"] = 0 /\ d["native"] = relayer /\ d["buys"] = 0
  <2> HIDE DEF q, rest
  <2> QED
    BY <1>0, <1>ops, IntentParts
<1>3. /\ t \in Intents /\ t.op = "token_diff"
      /\ t["asset"] = q.in /\ t["native"] = 0 /\ t["buys"] = q.out
  <2> HIDE DEF q, rest
  <2> QED
    BY <1>0, <1>ops, IntentParts, SMTT(30)
<1>4. deposit = IF relayer = 0 THEN {} ELSE {d}
  OBVIOUS
<1>5. TokenDiff(fee) = IF q = NoQuote THEN {} ELSE {t}
  BY DEF TokenDiff
<1>6. q = NoQuote => q.in = 0 /\ q.out = 0
  BY DEF NoQuote
<1> HIDE DEF w, d, t, deposit
<1>r. rest = amount - q.in
  OBVIOUS
<1> HIDE DEF q, rest
<1>7. w # d /\ w # t /\ d # t
  BY <1>1, <1>2, <1>3
<1>8. ASSUME relayer = 0, q = NoQuote PROVE Takes({w}, amount)
  <2>1. Moved({w}, "asset") = amount /\ Moved({w}, "native") = 0 /\ Moved({w}, "buys") = 0
    BY <1>0, <1>r, <1>1, <1>6, <1>8, MovedOne DEF Parts, q
  <2> QED
    BY <2>1, TakesFromSums
<1>9. ASSUME relayer = 0, q # NoQuote PROVE Takes({t, w}, amount)
  <2>1. /\ Moved({t, w}, "asset") = q.in + rest
        /\ Moved({t, w}, "native") = 0 + native /\ Moved({t, w}, "buys") = q.out + 0
    BY <1>1, <1>3, <1>7, MovedTwo DEF Parts
  <2>2. native <= q.out
    BY <1>9 DEF q
  <2>3. /\ Moved({t, w}, "asset") = amount /\ Moved({t, w}, "native") = native
        /\ Moved({t, w}, "buys") = q.out
    BY <1>0, <1>r, <2>1
  <2> QED
    BY <1>0, <2>2, <2>3, TakesFromSums
<1>10. ASSUME relayer # 0 PROVE q # NoQuote /\ Takes({t, d, w}, amount)
  <2>1. q # NoQuote
    BY <1>0, <1>6, <1>10 DEF q
  <2>2. /\ Moved({t, d, w}, "asset") = q.in + 0 + rest
        /\ Moved({t, d, w}, "native") = 0 + relayer + native
        /\ Moved({t, d, w}, "buys") = q.out + 0 + 0
    <3>1. \A part \in Parts : Moved({t, d, w}, part) = t[part] + d[part] + w[part]
      BY <1>1, <1>2, <1>3, <1>7, MovedThree
    <3> QED
      BY <1>1, <1>2, <1>3, <3>1 DEF Parts
  <2>3. relayer + native <= q.out
    BY DEF q
  <2>4. /\ Moved({t, d, w}, "asset") = amount /\ Moved({t, d, w}, "native") = relayer + native
        /\ Moved({t, d, w}, "buys") = q.out
    BY <1>0, <1>r, <2>2
  <2>5. relayer + native \in Nat
    BY <1>0
  <2> QED
    BY <1>0, <2>1, <2>3, <2>4, <2>5, TakesFromSums
<1>11. CASE relayer = 0
  <2>1. CASE q = NoQuote
    <3>1. TokenDiff(fee) \cup deposit \cup {w} = {w} /\ TokenDiff(fee) \cup {w} = {w}
      BY <1>4, <1>5, <1>11, <2>1
    <3> QED
      BY <1>8, <1>11, <2>1, <3>1 DEF w, q, rest, deposit
  <2>2. CASE q # NoQuote
    <3>1. TokenDiff(fee) \cup deposit \cup {w} = {t, w} /\ TokenDiff(fee) \cup {w} = {t, w}
      BY <1>4, <1>5, <1>11, <2>2
    <3> QED
      BY <1>9, <1>11, <2>2, <3>1 DEF w, q, rest, deposit
  <2> QED
    BY <2>1, <2>2
<1>12. CASE relayer # 0
  <2>1. TokenDiff(fee) \cup deposit \cup {w} = {t, d, w}
    BY <1>4, <1>5, <1>10, <1>12
  <2> QED
    BY <1>10, <1>12, <2>1 DEF w, q, rest, deposit
<1> QED
  BY <1>11, <1>12

\* The omni bridge.
LEMMA OmniExact ==
  ASSUME NEW a \in Assets, NEW amount \in Nat, NEW fee \in OmniFees(a), ~FeeTooHigh(amount, fee)
  PROVE  Takes(OmniIntents(amount - fee.amount, fee), amount)
<1>0. MaxFee \in Nat
  BY NearIntentsAssumption
<1>1. PICK relayer \in 0..MaxFee, storage \in StorageFees,
           gas \in (IF a = "omniBtc" THEN 2..MaxFee ELSE {0}) :
        fee \in Quoted(relayer + storage, relayer, storage, gas)
  BY DEF OmniFees
<1>2. relayer \in Nat /\ storage \in Nat /\ gas \in Nat
  BY <1>0, StorageNat
<1>3. Covered(fee) /\ fee.relayer = relayer /\ fee.storage = storage /\ fee.gas = gas
  BY <1>1, <1>2, QuotedCovered
<1>4. /\ fee.quote.in \in Nat /\ fee.quote.out \in Nat /\ fee.amount = fee.quote.in + gas
      /\ relayer + storage <= fee.quote.out
  BY <1>2, <1>3 DEF Covered
<1>5. amount > fee.amount
  BY <1>2, <1>4 DEF FeeTooHigh
<1>6. amount - fee.amount + fee.gas = amount - fee.quote.in
  BY <1>2, <1>3, <1>4
<1>7. "ft_withdraw" \in Ops \ {"token_diff", "storage_deposit"}
  BY DEF Ops
<1>8. OmniIntents(amount - fee.amount, fee)
        = TokenDiff(fee) \cup {Intent("storage_deposit", 0, r, 0) : r \in {relayer} \ {0}}
          \cup {Intent("ft_withdraw", amount - fee.quote.in, storage, 0)}
  BY <1>3, <1>6 DEF OmniIntents
<1>9. relayer \in {fee.relayer, 0}
  BY <1>3
<1>10. Takes(TokenDiff(fee) \cup {Intent("storage_deposit", 0, r, 0) : r \in {relayer} \ {0}}
             \cup {Intent("ft_withdraw", amount - fee.quote.in, storage, 0)}, amount)
  BY ONLY <1>2, <1>3, <1>4, <1>5, <1>7, <1>9, amount \in Nat, SwapAndWithdraw
<1> QED
  BY <1>8, <1>10

\* A withdrawal alone, with the native token it needs bought first.
LEMMA WithdrawExact ==
  ASSUME NEW fee, Covered(fee), fee.gas = 0, NEW amount \in Nat, ~FeeTooHigh(amount, fee),
         NEW op \in {"ft_withdraw", "mt_withdraw", "native_withdraw"},
         NEW native \in Nat, native <= fee.quote.out
  PROVE  Takes(TokenDiff(fee) \cup {Intent(op, amount - fee.amount, native, 0)}, amount)
<1>1. /\ fee.quote.in \in Nat /\ fee.quote.out \in Nat /\ fee.amount = fee.quote.in + 0
  BY DEF Covered
<1>2. amount > fee.amount /\ amount - fee.amount = amount - fee.quote.in
  BY <1>1 DEF FeeTooHigh
<1>3. op \in Ops \ {"token_diff", "storage_deposit"}
  BY DEF Ops
<1>4. 0 \in {fee.relayer, 0} /\ 0 + native <= fee.quote.out
  BY <1>1
<1>5. Takes(TokenDiff(fee) \cup {Intent(op, amount - fee.quote.in, native, 0)}, amount)
  BY <1>2, <1>3, <1>4, SwapAndWithdraw
<1> QED
  BY <1>2, <1>5

\* The HOT bridge: the native token pays its own relayer.
LEMMA HotExact ==
  ASSUME NEW a \in Assets, NEW amount \in Nat, NEW fee \in HotFees(a), ~FeeTooHigh(amount, fee)
  PROVE  Takes(HotIntents(a, amount - fee.amount, fee), amount)
<1>0. MaxFee \in Nat
  BY NearIntentsAssumption
<1>1. CASE a = "hotNative"
  <2>1. PICK f \in 0..MaxFee : fee = FeeOf(f, NoQuote, f, 0, 0)
    BY <1>1 DEF HotFees
  <2>2. fee.amount = f /\ fee.relayer = f /\ fee.quote = NoQuote /\ f \in Nat
    BY <1>0, <2>1 DEF FeeOf
  <2>3. amount - f \in Nat /\ amount - f + f = amount
    BY <2>2 DEF FeeTooHigh
  <2>4. HotIntents(a, amount - fee.amount, fee) = {Intent("mt_withdraw", amount, 0, 0)}
    BY <1>1, <2>2, <2>3 DEF HotIntents, TokenDiff
  <2> DEFINE i == Intent("mt_withdraw", amount, 0, 0)
  <2>5. i \in Intents /\ i["asset"] = amount /\ i["native"] = 0 /\ i["buys"] = 0
    <3>1. "mt_withdraw" \in Ops /\ 0 \in Nat
      BY DEF Ops
    <3> QED
      BY <3>1, IntentParts
  <2> HIDE DEF i
  <2>6. Moved({i}, "asset") = amount /\ Moved({i}, "native") = 0 /\ Moved({i}, "buys") = 0
    BY <2>5, MovedOne DEF Parts
  <2>7. Takes({i}, amount)
    BY <2>6, TakesFromSums
  <2> QED
    BY <2>4, <2>7 DEF i
<1>2. CASE a # "hotNative"
  <2>1. PICK f \in 0..MaxFee : fee \in Quoted(f, f, 0, 0)
    BY <1>2 DEF HotFees
  <2>2. f \in Nat /\ f + 0 = f
    BY <1>0
  <2>3. Covered(fee) /\ fee.relayer = f /\ fee.gas = 0
    BY <2>1, <2>2, QuotedCovered
  <2>4. f <= fee.quote.out
    BY <2>2, <2>3 DEF Covered
  <2>5. HotIntents(a, amount - fee.amount, fee)
          = TokenDiff(fee) \cup {Intent("mt_withdraw", amount - fee.amount, f, 0)}
    BY <1>2, <2>3 DEF HotIntents
  <2>6. "mt_withdraw" \in {"ft_withdraw", "mt_withdraw", "native_withdraw"} /\ amount \in Nat
    OBVIOUS
  <2>7. ~FeeTooHigh(amount, fee)
    OBVIOUS
  <2>8. Takes(TokenDiff(fee) \cup {Intent("mt_withdraw", amount - fee.amount, f, 0)}, amount)
    BY ONLY <2>2, <2>3, <2>4, <2>6, <2>7, WithdrawExact
  <2> QED
    BY ONLY <2>5, <2>8
<1> QED
  BY <1>1, <1>2

\* The direct withdrawal to a NEAR account.
LEMMA DirectExact ==
  ASSUME NEW a \in Assets, NEW amount \in Nat, NEW fee \in DirectFees(a), ~FeeTooHigh(amount, fee)
  PROVE  Takes(DirectIntents(a, amount - fee.amount, fee), amount)
<1>1. CASE a = "wrapNear"
  <2>1. fee = FeeOf(0, NoQuote, 0, 0, 0)
    BY <1>1 DEF DirectFees
  <2>2. Covered(fee) /\ fee.gas = 0 /\ 0 <= fee.quote.out
    BY <2>1 DEF FeeOf, NoQuote, Covered
  <2>3. DirectIntents(a, amount - fee.amount, fee)
          = TokenDiff(fee) \cup {Intent("native_withdraw", amount - fee.amount, 0, 0)}
    BY <1>1 DEF DirectIntents
  <2>4. "native_withdraw" \in {"ft_withdraw", "mt_withdraw", "native_withdraw"} /\ amount \in Nat
        /\ 0 \in Nat
    OBVIOUS
  <2>5. ~FeeTooHigh(amount, fee)
    OBVIOUS
  <2>6. Takes(TokenDiff(fee) \cup {Intent("native_withdraw", amount - fee.amount, 0, 0)}, amount)
    BY ONLY <2>2, <2>4, <2>5, WithdrawExact
  <2> QED
    BY ONLY <2>3, <2>6
<1>2. CASE a # "wrapNear"
  <2>1. PICK storage \in StorageFees : fee \in Quoted(storage, 0, storage, 0)
    BY <1>2 DEF DirectFees
  <2>2. storage \in Nat /\ 0 + storage = storage
    BY StorageNat
  <2>3. Covered(fee) /\ fee.relayer = 0 /\ fee.storage = storage /\ fee.gas = 0
    BY <2>1, <2>2, QuotedCovered
  <2>4. storage <= fee.quote.out
    BY <2>2, <2>3 DEF Covered
  <2>5. DirectIntents(a, amount - fee.amount, fee)
          = TokenDiff(fee) \cup {Intent("ft_withdraw", amount - fee.amount, storage, 0)}
    BY <1>2, <2>3 DEF DirectIntents
  <2>6. "ft_withdraw" \in {"ft_withdraw", "mt_withdraw", "native_withdraw"} /\ amount \in Nat
    OBVIOUS
  <2>7. ~FeeTooHigh(amount, fee)
    OBVIOUS
  <2>8. Takes(TokenDiff(fee) \cup {Intent("ft_withdraw", amount - fee.amount, storage, 0)}, amount)
    BY ONLY <2>2, <2>3, <2>4, <2>6, <2>7, WithdrawExact
  <2> QED
    BY ONLY <2>5, <2>8
<1> QED
  BY <1>1, <1>2

\* Every asset has a bridge, or findBridge fails.
LEMMA FindBridgeRange ==
  ASSUME NEW a \in Assets
  PROVE  FindBridge(a) \in {"poa", "hot", "omni", "direct", "error"}
<1> DEFINE IsFirst(i) == /\ Supports(Bridges[i], a) # "no"
                         /\ \A j \in 1..(i - 1) : Supports(Bridges[j], a) = "no"
           first == CHOOSE i \in 1..Len(Bridges) : IsFirst(i)
<1>0. /\ Len(Bridges) = 4 /\ Bridges[1] = "poa" /\ Bridges[2] = "hot"
      /\ Bridges[3] = "omni" /\ Bridges[4] = "direct"
  BY DEF Bridges
<1>1. /\ Supports("poa", a) = PoaSupports(a) /\ Supports("hot", a) = HotSupports(a)
      /\ Supports("omni", a) = OmniSupports(a) /\ Supports("direct", a) = DirectSupports(a)
  BY DEF Supports
<1>2. \E i \in 1..4 : IsFirst(i)
  <2>1. CASE a = "poa"
    <3>1. IsFirst(1)
      BY <1>0, <1>1, <2>1 DEF PoaSupports
    <3> QED
      BY <3>1
  <2>2. CASE a \in {"hotNative", "hotToken", "hotTon"}
    <3>1. IsFirst(2)
      BY <1>0, <1>1, <2>2 DEF PoaSupports, HotSupports
    <3> QED
      BY <3>1
  <2>3. CASE a \in {"omniEvm", "omniBtc"}
    <3>1. IsFirst(3)
      BY <1>0, <1>1, <2>3 DEF PoaSupports, HotSupports, OmniSupports
    <3> QED
      BY <3>1
  <2>4. CASE a \in {"near", "wrapNear"}
    <3>1. IsFirst(4)
      BY <1>0, <1>1, <2>4 DEF PoaSupports, HotSupports, OmniSupports, DirectSupports
    <3> QED
      BY <3>1
  <2> QED
    BY <2>1, <2>2, <2>3, <2>4 DEF Assets
<1>3. first \in 1..4
  BY <1>0, <1>2
<1>4. FindBridge(a) = IF Supports(Bridges[first], a) = "yes" THEN Bridges[first] ELSE "error"
  BY DEF FindBridge
<1> HIDE DEF first
<1> QED
  BY <1>0, <1>3, <1>4

\* Whatever the bridge, the asset and the fee, the intents take the claimed amount.
LEMMA IntentsExact ==
  ASSUME NEW a \in Assets, NEW route \in {"poa", "hot", "omni", "direct"}, NEW amount \in Nat,
         NEW fee \in EstimateWithdrawalFee(route, a), ~FeeTooHigh(amount, fee)
  PROVE  DebitOf(CreateWithdrawalIntents(route, a, amount - fee.amount, fee))
           = [asset |-> amount, native |-> 0]
<1>1. CASE route = "poa"
  BY <1>1, PoaExact DEF EstimateWithdrawalFee, CreateWithdrawalIntents, Takes
<1>2. CASE route = "omni"
  BY <1>2, OmniExact DEF EstimateWithdrawalFee, CreateWithdrawalIntents, Takes
<1>3. CASE route = "hot"
  BY <1>3, HotExact DEF EstimateWithdrawalFee, CreateWithdrawalIntents, Takes
<1>4. CASE route = "direct"
  BY <1>4, DirectExact DEF EstimateWithdrawalFee, CreateWithdrawalIntents, Takes
<1> QED
  BY <1>1, <1>2, <1>3, <1>4

-----------------------------------------------------------------------------
(* The parts of the inductive invariant, one by one *)

\* What the constants give the proofs.
LEMMA ConstantsFacts ==
  /\ PublishAttempts \in Nat \ {0} /\ MaxPolls \in Nat \ {0} /\ MaxWatchErrors \in Nat \ {0}
  /\ Amounts \subseteq Nat \ {0} /\ MaxFunds \in Nat /\ MaxRotations \in Nat
  /\ Refunded \subseteq Assets /\ NoSalt = -1
  /\ \A c \in Claims : <<c, 1>> \in Payloads /\ <<c, 2>> \in Payloads
BY NearIntentsAssumption DEF Assets, NoSalt, Payloads

\* Before any claim, the invariant holds.
LEMMA IInvInit == Init => IInv
<1> SUFFICES ASSUME Init PROVE IInv
  OBVIOUS
<1> USE ConstantsFacts
<1>1. TypeOK
  BY DEF Init, TypeOK
<1>2. \A c \in Claims :
        /\ pc[c] = "idle" /\ attempt[c] = 0 /\ current[c] = 1 /\ refusedAt[c] = NoSalt
        /\ bridge[c] = "none" /\ errors[c] = 0
        /\ \A i \in {1, 2} : salt[<<c, i>>] = NoSalt /\ relay[<<c, i>>] = "none"
  BY DEF Init
<1>3. ClaimInv
  <2>1. ASSUME NEW c \in Claims
        PROVE  pc[c] = "idle" /\ attempt[c] < PublishAttempts /\ errors[c] < MaxWatchErrors
               /\ \A i \in {1, 2} : salt[<<c, i>>] = NoSalt
    BY <1>2
  <2> QED
    BY <2>1 DEF ClaimInv, ClaimOK, Built
<1>4. SaltInv
  <2>1. \A p \in Payloads : salt[p] = NoSalt
    BY DEF Init
  <2>2. cachedSalt = NoSalt /\ saltLock.read = NoSalt /\ chainSalt = 0
    BY DEF Init, Free
  <2> QED
    <3>1. /\ \A p \in Payloads : salt[p] <= chainSalt
          /\ cachedSalt <= chainSalt /\ saltLock.read <= chainSalt
      BY <2>1, <2>2
    <3>2. ASSUME NEW c \in Claims
          PROVE  /\ refusedAt[c] <= chainSalt /\ pc[c] # "read"
                 /\ salt[<<c, 2>>] = NoSalt /\ current[c] # 2
      <4>1. pc[c] = "idle" /\ current[c] = 1 /\ refusedAt[c] = NoSalt
        BY <1>2
      <4>2. salt[<<c, 2>>] = NoSalt
        BY <2>1
      <4>3. refusedAt[c] <= chainSalt
        BY <2>2, <4>1
      <4> QED
        BY <4>1, <4>2, <4>3
    <3> QED
      BY <3>1, <3>2 DEF SaltInv, SaltOK
<1>5. RelayInv
  <2>1. late = {}
    BY DEF Init
  <2> QED
    <3>1. ASSUME NEW c \in Claims
          PROVE  /\ pc[c] = "idle" /\ current[c] = 1 /\ bridge[c] = "none"
                 /\ \A i \in {1, 2} : relay[<<c, i>>] = "none" /\ <<c, i>> \notin late
      BY <1>2, <2>1
    <3>2. ASSUME NEW c \in Claims
          PROVE  /\ \A i \in {1, 2} : relay[<<c, i>>] = "none" /\ <<c, i>> \notin late
                 /\ ~(current[c] = 2 \/ pc[c] = "refresh")
                 /\ pc[c] # "watch" /\ bridge[c] = "none"
      BY <3>1
    <3> QED
      BY ONLY <3>2 DEF RelayInv, RelayOK
<1>6. FreshSaltOnRetry
  BY <1>2 DEF FreshSaltOnRetry
<1> QED
  BY <1>1, <1>3, <1>4, <1>5, <1>6 DEF IInv

\* The salt that a claim gets from the contract is the one it has read.
LEMMA LockedSalt ==
  ASSUME TypeOK, SaltInv, NEW c \in Claims, pc[c] = "read"
  PROVE  saltLock.read \in 0..MaxRotations /\ saltLock # Free /\ saltLock.by = c
BY DEF TypeOK, SaltInv, SaltOK

\* What the relay may make of a payload: it keeps what it has, refuses a stale salt, and else
\* takes it or refuses it.
LEMMA VerdictsType ==
  ASSUME TypeOK, NEW p \in Payloads, NEW v \in Verdicts(p)
  PROVE  /\ v.state \in {"none", "accepted", "executed", "dead"}
         /\ v.answer \in {"OK", "already processed", "refused", "invalid salt"}
         /\ relay[p] # "none" => v.state = relay[p] /\ v.answer \in {"already processed", "refused"}
         /\ relay[p] = "none" => v.state \in {"none", "accepted"} /\ v.answer # "already processed"
         /\ relay[p] = "none" /\ salt[p] # chainSalt => v.state = "none"
         /\ v.answer = "OK" => v.state = "accepted"
         /\ v.answer = "invalid salt" => relay[p] = "none" /\ v.state = "none" /\ salt[p] # chainSalt
         /\ v.answer = "refused" => v.state = relay[p]
<1>0. relay[p] \in {"none", "accepted", "executed", "dead"}
  BY DEF TypeOK
<1>1. CASE relay[p] # "none"
  <2>1. v.state = relay[p] /\ v.answer \in {"already processed", "refused"}
    <3>1. PICK a \in {"already processed", "refused"} : v = [state |-> relay[p], answer |-> a]
      BY <1>1 DEF Verdicts
    <3> QED
      BY <3>1
  <2> QED
    BY <1>0, <1>1, <2>1
<1>2. CASE relay[p] = "none" /\ salt[p] # chainSalt
  <2>1. v = [state |-> "none", answer |-> "invalid salt"]
    BY <1>2 DEF Verdicts
  <2> QED
    BY <1>2, <2>1
<1>3. CASE relay[p] = "none" /\ salt[p] = chainSalt
  <2>1. v \in {[state |-> "accepted", answer |-> "OK"], [state |-> "none", answer |-> "refused"]}
    BY <1>3 DEF Verdicts
  <2>2. CASE v = [state |-> "accepted", answer |-> "OK"]
    BY <1>3, <2>2
  <2>3. CASE v = [state |-> "none", answer |-> "refused"]
    BY <1>3, <2>3
  <2> QED
    BY <2>1, <2>2, <2>3
<1> QED
  BY <1>1, <1>2, <1>3

\* What a claim may hear of its withdrawal: success only from a bridge that delivered it.
LEMMA DescribeSound ==
  ASSUME TypeOK, NEW c \in Claims, FindBridge(asset) # "error", NEW d \in Describe(c)
  PROVE  /\ d[1] \in {"error", "pending", "completed", "failed"}
         /\ d[2] \in {"unknown", "none", "found"}
         /\ d[1] = "completed" /\ FindBridge(asset) \in {"poa", "hot", "omni"}
              => bridge[c] = "completed"
<1>1. nonces[c] \in {"unknown", "none", "found"} /\ HotNonces(c) \subseteq {"unknown", "none", "found"}
  BY DEF TypeOK, HotNonces
<1>2. Reported(c) \subseteq {"pending", "completed", "failed"}
      /\ ("completed" \in Reported(c) => bridge[c] = "completed")
  BY DEF Reported
<1>3. CASE FindBridge(asset) = "poa"
  BY <1>1, <1>2, <1>3 DEF Describe, DescribePoa
<1>4. CASE FindBridge(asset) = "hot"
  BY <1>1, <1>2, <1>4 DEF Describe, DescribeHot
<1>5. CASE FindBridge(asset) = "omni"
  BY <1>1, <1>2, <1>5 DEF Describe, DescribeOmni
<1>6. CASE FindBridge(asset) = "direct"
  BY <1>1, <1>6 DEF Describe, DescribeDirect
<1> QED
  BY <1>3, <1>4, <1>5, <1>6, FindBridgeRange DEF TypeOK

\* No step leaves the types.
LEMMA TypeStep == TypeOK /\ ClaimInv /\ SaltInv /\ [Next]_vars => TypeOK'
<1> SUFFICES ASSUME TypeOK, ClaimInv, SaltInv, [Next]_vars PROVE TypeOK'
  OBVIOUS
<1> USE ConstantsFacts DEF externalVars, history, GoTo
<1>p. ASSUME NEW c \in Claims PROVE Payload(c) \in Payloads
  BY DEF TypeOK, Payload, Payloads
<1>1. ASSUME NEW c \in Claims, NEW a \in Accounts, Start(c, a) PROVE TypeOK'
  <2>1. PICK n \in ListedRefunds(a) : claim' = [claim EXCEPT ![c] = [account |-> a, amount |-> n]]
    BY <1>1 DEF Start
  <2>2. n \in 0..MaxFunds
    BY DEF TypeOK, ListedRefunds
  <2>3. claim' \in [Claims -> [account : Accounts, amount : 0..MaxFunds]]
    BY <2>1, <2>2 DEF TypeOK
  <2>4. pc' = [pc EXCEPT ![c] = "submit"]
    BY <1>1 DEF Start
  <2> QED
    BY <1>1, <2>3, <2>4 DEF Start, TypeOK
<1>2. ASSUME NEW c \in Claims, Prepare(c) PROVE TypeOK'
  <2>1. debit' \in [Claims -> [asset : Nat, native : Nat]] /\ pc' \in {[pc EXCEPT ![c] = "refused"], [pc EXCEPT ![c] = "salt"]}
    <3>1. CASE debit' = debit /\ pc' = [pc EXCEPT ![c] = "refused"]
      BY <3>1 DEF TypeOK
    <3>2. CASE FindBridge(asset) # "error" /\ ~(debit' = debit /\ pc' = [pc EXCEPT ![c] = "refused"])
      <4>1. PICK fee \in EstimateWithdrawalFee(FindBridge(asset), asset) :
              /\ ~FeeTooHigh(claim[c].amount, fee)
              /\ debit' = [debit EXCEPT ![c] = DebitOf(CreateWithdrawalIntents(FindBridge(asset), asset,
                                                       claim[c].amount - fee.amount, fee))]
        BY <1>2, <3>2 DEF Prepare
      <4>2. claim[c].amount \in Nat /\ asset \in Assets
        BY DEF TypeOK
      <4>3. FindBridge(asset) \in {"poa", "hot", "omni", "direct"}
        BY <3>2, <4>2, FindBridgeRange
      <4>4. debit' = [debit EXCEPT ![c] = [asset |-> claim[c].amount, native |-> 0]]
        BY <4>1, <4>2, <4>3, IntentsExact, ZenonT(30)
      <4>5. pc' = [pc EXCEPT ![c] = "salt"]
        BY <1>2, <3>2 DEF Prepare
      <4> QED
        BY <4>2, <4>4, <4>5 DEF TypeOK
    <3> QED
      BY <1>2, <3>1, <3>2 DEF Prepare
  <2>2. UNCHANGED <<attempt, polls, errors, nonces, salt, current, cachedSalt, saltLock,
                    asset, claim, chainSalt, relay, late, funds, bridge, refusedAt, lost>>
    BY <1>2 DEF Prepare
  <2>3. pc' \in [Claims -> {"idle", "submit", "salt", "read", "send", "refresh",
                            "settle", "watch"} \cup Returned]
    BY <2>1 DEF TypeOK, Returned
  <2> QED
    BY <2>1, <2>2, <2>3 DEF TypeOK
<1>3. ASSUME NEW c \in Claims, CachedSalt(c) PROVE TypeOK'
  BY <1>p, <1>3 DEF CachedSalt, Sign, TypeOK
<1>4. ASSUME NEW c \in Claims, FetchSalt(c) PROVE TypeOK'
  BY <1>4 DEF FetchSalt, TypeOK
<1>5. ASSUME NEW c \in Claims, StoreSalt(c) PROVE TypeOK'
  <2>1. saltLock.read \in 0..MaxRotations /\ pc[c] = "read"
    BY <1>5, LockedSalt DEF StoreSalt
  <2>2. CASE cachedSalt' = saltLock.read /\ Sign(c, saltLock.read)
    BY <1>p, <1>5, <2>1, <2>2 DEF StoreSalt, Sign, TypeOK
  <2>3. CASE pc' = [pc EXCEPT ![c] = "refused"] /\ UNCHANGED <<cachedSalt, salt>>
    BY <1>5, <2>3 DEF StoreSalt, TypeOK, Returned
  <2> QED
    BY <1>5, <2>2, <2>3 DEF StoreSalt
<1>6. ASSUME NEW c \in Claims, RefreshSalt(c) PROVE TypeOK'
  BY <1>6 DEF RefreshSalt, TypeOK
<1>7. ASSUME NEW c \in Claims, Unanswered(c) PROVE TypeOK'
  <2>1. late' \subseteq Payloads /\ lost' \subseteq Claims
    BY <1>p, <1>7 DEF Unanswered, TypeOK
  <2>2. attempt' \in [Claims -> 0..PublishAttempts]
    <3>1. attempt \in [Claims -> 0..PublishAttempts] /\ attempt[c] < PublishAttempts
      BY DEF TypeOK, ClaimInv, ClaimOK
    <3>2. attempt' \in {[attempt EXCEPT ![c] = 0], [attempt EXCEPT ![c] = @ + 1]}
      BY <1>7 DEF Unanswered
    <3> QED
      BY <3>1, <3>2
  <2>3. pc' \in {pc, [pc EXCEPT ![c] = "refused"]}
    BY <1>7 DEF Unanswered
  <2>4. pc' \in [Claims -> {"idle", "submit", "salt", "read", "send", "refresh",
                            "settle", "watch"} \cup Returned]
    BY <2>3 DEF TypeOK, Returned
  <2> QED
    BY <1>7, <2>1, <2>2, <2>4 DEF Unanswered, TypeOK
<1>8. ASSUME NEW c \in Claims, Answered(c) PROVE TypeOK'
  <2>1. PICK v \in Verdicts(Payload(c)) :
          /\ relay' = [relay EXCEPT ![Payload(c)] = v.state]
          /\ \E there \in AfterAnswer(c, v.answer) : GoTo(c, there)
          /\ refusedAt' = IF v.answer = "invalid salt" /\ current[c] = 1
                          THEN [refusedAt EXCEPT ![c] = chainSalt] ELSE refusedAt
    BY <1>8 DEF Answered
  <2>2. v.state \in {"none", "accepted", "executed", "dead"}
        /\ v.answer \in {"OK", "already processed", "refused", "invalid salt"}
    BY <1>p, VerdictsType
  <2>3. relay' \in [Payloads -> {"none", "accepted", "executed", "dead"}]
    BY <2>1, <2>2 DEF TypeOK
  <2>4. PICK there \in {"settle", "refused", "refresh"} : pc' = [pc EXCEPT ![c] = there]
    BY <2>1, <2>2 DEF AfterAnswer
  <2>5. pc' \in [Claims -> {"idle", "submit", "salt", "read", "send", "refresh",
                            "settle", "watch"} \cup Returned]
    BY <2>4 DEF TypeOK, Returned
  <2>6. refusedAt' \in [Claims -> {NoSalt} \cup 0..MaxRotations]
    BY <2>1 DEF TypeOK
  <2>7. /\ lost' \subseteq Claims /\ attempt' = [attempt EXCEPT ![c] = 0]
        /\ UNCHANGED <<debit, polls, errors, nonces, salt, current, cachedSalt, saltLock,
                       asset, claim, chainSalt, late, funds, bridge>>
    BY <1>8 DEF Answered, TypeOK
  <2> QED
    BY <2>3, <2>5, <2>6, <2>7 DEF TypeOK
<1>9. ASSUME NEW c \in Claims, Settle(c) PROVE TypeOK'
  <2>1. polls' \in [Claims -> 0..MaxPolls] /\ pc' \in {pc, [pc EXCEPT ![c] = "failed"], [pc EXCEPT ![c] = "watch"]}
    <3>1. CASE ~TimedOut(c) /\ Wait(c)
      <4>1. polls \in [Claims -> 0..MaxPolls] /\ polls[c] # MaxPolls
        BY <3>1 DEF TypeOK, TimedOut
      <4> QED
        BY <3>1, <4>1 DEF Wait
    <3>2. CASE Leave(c, "failed") \/ Leave(c, "watch")
      <4>1. polls \in [Claims -> 0..MaxPolls]
        BY DEF TypeOK
      <4> QED
        BY <3>2, <4>1 DEF Leave
    <3> QED
      BY <1>9, <3>1, <3>2 DEF Settle
  <2>2. UNCHANGED <<debit, attempt, errors, nonces, salt, current, cachedSalt, saltLock,
                    asset, claim, chainSalt, relay, late, funds, bridge, refusedAt, lost>>
    BY <1>9 DEF Settle
  <2>3. pc' \in [Claims -> {"idle", "submit", "salt", "read", "send", "refresh",
                            "settle", "watch"} \cup Returned]
    BY <2>1 DEF TypeOK, Returned
  <2> QED
    BY <2>1, <2>2, <2>3 DEF TypeOK
<1>10. ASSUME NEW c \in Claims, Watch(c) PROVE TypeOK'
  <2>1. UNCHANGED <<debit, attempt, salt, current, cachedSalt, saltLock,
                    asset, claim, chainSalt, relay, late, funds, bridge, refusedAt, lost>>
    BY <1>10 DEF Watch
  <2>2. polls[c] \in 0..MaxPolls /\ errors[c] \in 0..MaxWatchErrors /\ errors[c] < MaxWatchErrors
        /\ FindBridge(asset) # "error"
    BY <1>10 DEF TypeOK, ClaimInv, ClaimOK, Watch, Built
  <2>3. CASE TimedOut(c) /\ Leave(c, "failed") /\ UNCHANGED <<errors, nonces>>
    BY <2>1, <2>3 DEF Leave, TypeOK, Returned
  <2>4. CASE ~TimedOut(c) /\ \E d \in Describe(c) :
               /\ nonces' = [nonces EXCEPT ![c] = d[2]]
               /\ errors' = [errors EXCEPT ![c] = IF d[1] = "error" THEN @ + 1 ELSE 0]
               /\ CASE d[1] = "completed"            -> Leave(c, "done")
                    [] \/ d[1] = "failed"
                       \/ errors'[c] = MaxWatchErrors -> Leave(c, "failed")
                    [] OTHER                         -> Wait(c)
    <3>1. PICK d \in Describe(c) :
               /\ nonces' = [nonces EXCEPT ![c] = d[2]]
               /\ errors' = [errors EXCEPT ![c] = IF d[1] = "error" THEN @ + 1 ELSE 0]
               /\ CASE d[1] = "completed"            -> Leave(c, "done")
                    [] \/ d[1] = "failed"
                       \/ errors'[c] = MaxWatchErrors -> Leave(c, "failed")
                    [] OTHER                         -> Wait(c)
      BY <2>4
    <3>2. d[2] \in {"unknown", "none", "found"} /\ d[1] \in {"error", "pending", "completed", "failed"}
      BY <2>2, DescribeSound
    <3>3. nonces' \in [Claims -> {"unknown", "none", "found"}] /\ errors' \in [Claims -> 0..MaxWatchErrors]
      BY <2>2, <3>1, <3>2 DEF TypeOK
    <3>4. Leave(c, "done") \/ Leave(c, "failed") \/ Wait(c)
      BY <3>1, <3>2
    <3>5. polls' \in [Claims -> 0..MaxPolls]
          /\ pc' \in {pc, [pc EXCEPT ![c] = "failed"], [pc EXCEPT ![c] = "done"]}
      <4>1. polls \in [Claims -> 0..MaxPolls] /\ polls[c] # MaxPolls
        BY <2>4 DEF TypeOK, TimedOut
      <4> QED
        BY <3>4, <4>1 DEF Leave, Wait
    <3>6. pc' \in [Claims -> {"idle", "submit", "salt", "read", "send", "refresh",
                              "settle", "watch"} \cup Returned]
      BY <3>5 DEF TypeOK, Returned
    <3> QED
      BY <2>1, <3>3, <3>5, <3>6 DEF TypeOK
  <2> QED
    BY <1>10, <2>3, <2>4 DEF Watch
<1>11. CASE RotateSalt
  BY <1>11 DEF RotateSalt, TypeOK, clientVars
<1>12. ASSUME NEW a \in Accounts, NEW n \in Amounts, Refund(a, n) PROVE TypeOK'
  <2>1. funds[a] + n \in 0..MaxFunds
    BY <1>12 DEF Refund, TypeOK
  <2> QED
    BY <1>12, <2>1 DEF Refund, TypeOK, clientVars
<1>13. ASSUME NEW p \in Payloads, LateArrival(p) PROVE TypeOK'
  <2>1. \A v \in Verdicts(p) : v.state \in {"none", "accepted", "executed", "dead"}
    BY VerdictsType
  <2>2. relay' \in [Payloads -> {"none", "accepted", "executed", "dead"}]
    BY <1>13, <2>1 DEF LateArrival, TypeOK
  <2> QED
    BY <1>13, <2>2 DEF LateArrival, TypeOK, clientVars
<1>14. ASSUME NEW p \in Payloads, Execute(p) PROVE TypeOK'
  <2>1. p[1] \in Claims
    BY DEF Payloads
  <2>2. claim[p[1]].account \in Accounts /\ debit[p[1]].asset \in Nat
    BY <2>1 DEF TypeOK
  <2>3. funds[claim[p[1]].account] - debit[p[1]].asset \in 0..MaxFunds
    BY <1>14, <2>2 DEF Execute, TypeOK
  <2>4. funds' \in [Accounts -> 0..MaxFunds]
    BY <1>14, <2>2, <2>3 DEF Execute, TypeOK
  <2> QED
    BY <1>14, <2>1, <2>4 DEF Execute, TypeOK, clientVars
<1>15. ASSUME NEW p \in Payloads, Drop(p) PROVE TypeOK'
  BY <1>15 DEF Drop, TypeOK, clientVars
<1>16. ASSUME NEW c \in Claims, Deliver(c) PROVE TypeOK'
  BY <1>16 DEF Deliver, TypeOK, clientVars
<1>17. CASE UNCHANGED vars
  BY <1>17 DEF vars, clientVars, TypeOK
<1> QED
  BY <1>1, <1>2, <1>3, <1>4, <1>5, <1>6, <1>7, <1>8, <1>9, <1>10, <1>11, <1>12, <1>13, <1>14,
     <1>15, <1>16, <1>17 DEF Next, Step, Environment

-----------------------------------------------------------------------------
(* The steps of one claim, and what they leave of the others *)

\* What a step leaves of a claim that is not the step's.
Same(e) ==
  /\ pc'[e] = pc[e] /\ debit'[e] = debit[e] /\ claim'[e] = claim[e]
  /\ attempt'[e] = attempt[e] /\ errors'[e] = errors[e] /\ current'[e] = current[e]
  /\ refusedAt'[e] = refusedAt[e] /\ bridge'[e] = bridge[e]
  /\ \A i \in {1, 2} :
       /\ salt'[<<e, i>>] = salt[<<e, i>>] /\ relay'[<<e, i>>] = relay[<<e, i>>]
       /\ <<e, i>> \in late' => <<e, i>> \in late
  /\ e \in lost' <=> e \in lost

\* A claim's step is only its own.
LEMMA Elsewhere ==
  ASSUME TypeOK, NEW c \in Claims, NEW e \in Claims, e # c,
         Step(c) \/ \E a \in Accounts : Start(c, a)
  PROVE  Same(e)
<1> USE DEF externalVars, history, GoTo
<1>0. /\ pc \in [Claims -> {"idle", "submit", "salt", "read", "send", "refresh",
                            "settle", "watch"} \cup Returned]
      /\ DOMAIN pc = Claims /\ DOMAIN debit = Claims /\ DOMAIN claim = Claims /\ DOMAIN attempt = Claims
      /\ DOMAIN errors = Claims /\ DOMAIN current = Claims /\ DOMAIN refusedAt = Claims
      /\ DOMAIN salt = Payloads /\ DOMAIN relay = Payloads
  BY DEF TypeOK
<1>1. /\ <<e, 1>> \in Payloads /\ <<e, 2>> \in Payloads
      /\ Payload(c) # <<e, 1>> /\ Payload(c) # <<e, 2>> /\ Payload(c) \in Payloads
  BY DEF Payloads, Payload, TypeOK
<1>2. ASSUME NEW a \in Accounts, Start(c, a) PROVE Same(e)
  BY <1>0, <1>2 DEF Start, Same
<1>3. CASE Prepare(c)
  BY <1>0, <1>3 DEF Prepare, Same
<1>4. CASE CachedSalt(c)
  BY <1>0, <1>1, <1>4 DEF CachedSalt, Sign, Same
<1>5. CASE FetchSalt(c)
  BY <1>0, <1>5 DEF FetchSalt, Same
<1>6. CASE StoreSalt(c)
  BY <1>0, <1>1, <1>6 DEF StoreSalt, Sign, Same
<1>7. CASE RefreshSalt(c)
  BY <1>0, <1>7 DEF RefreshSalt, Same
<1>8. CASE Unanswered(c)
  BY <1>0, <1>1, <1>8 DEF Unanswered, Same
<1>9. CASE Answered(c)
  BY <1>0, <1>1, <1>9 DEF Answered, Same
<1>10. CASE Settle(c)
  BY <1>0, <1>10 DEF Settle, Wait, Leave, Same
<1>11. CASE Watch(c)
  BY <1>0, <1>11 DEF Watch, Wait, Leave, Same
<1> QED
  BY <1>2, <1>3, <1>4, <1>5, <1>6, <1>7, <1>8, <1>9, <1>10, <1>11 DEF Step

\* A claim that a step leaves alone keeps its part of the invariant.
LEMMA ClaimKept ==
  ASSUME TypeOK, NEW e \in Claims, ClaimOK(e), Same(e), asset' = asset
  PROVE  ClaimOK(e)'
<1>1. current[e] \in {1, 2} /\ Payload(e) = <<e, current[e]>> /\ Payload(e)' = <<e, current'[e]>>
  BY DEF TypeOK, Payload
<1> QED
  BY <1>1 DEF ClaimOK, Same, Exact

LEMMA RelayKept ==
  ASSUME TypeOK, NEW e \in Claims, RelayOK(e), Same(e), chainSalt' >= chainSalt, chainSalt' \in Nat
  PROVE  RelayOK(e)'
<1>1. salt[<<e, 1>>] \in Int /\ chainSalt \in Nat /\ current[e] \in {1, 2}
  BY DEF TypeOK, Payloads, NoSalt
<1> QED
  BY <1>1 DEF RelayOK, Same, Payload

\* What a step of the claim's goroutine does to its own part.
LEMMA ClaimOwnStep ==
  ASSUME TypeOK, SaltInv, NEW c \in Claims, ClaimOK(c),
         Step(c) \/ \E a \in Accounts : Start(c, a)
  PROVE  ClaimOK(c)'
<1> USE ConstantsFacts DEF externalVars, history, GoTo
<1>0. /\ DOMAIN pc = Claims /\ DOMAIN debit = Claims /\ DOMAIN claim = Claims /\ DOMAIN attempt = Claims
      /\ DOMAIN errors = Claims /\ DOMAIN current = Claims /\ DOMAIN salt = Payloads
  BY DEF TypeOK
<1>1. /\ current[c] \in {1, 2} /\ Payload(c) = <<c, current[c]>> /\ Payload(c) \in Payloads
      /\ Payload(c)' = <<c, current'[c]>> /\ attempt[c] \in 0..PublishAttempts
      /\ errors[c] \in 0..MaxWatchErrors /\ claim[c].amount \in Nat
  BY DEF TypeOK, Payload, Payloads
<1>2. ASSUME NEW a \in Accounts, Start(c, a) PROVE ClaimOK(c)'
  <2>1. \A i \in {1, 2} : salt[<<c, i>>] = NoSalt
    BY <1>2 DEF ClaimOK, Start
  <2>2. /\ pc'[c] = "submit" /\ salt' = salt /\ attempt' = attempt /\ debit' = debit /\ errors' = errors
    BY <1>0, <1>2 DEF Start
  <2> QED
    BY <1>2, <2>1, <2>2 DEF Start, ClaimOK, Built
<1>3. CASE Prepare(c)
  <2>1. \A i \in {1, 2} : salt[<<c, i>>] = NoSalt
    BY <1>3 DEF ClaimOK, Prepare
  <2>2. /\ salt' = salt /\ attempt' = attempt /\ asset' = asset /\ claim' = claim
        /\ errors' = errors /\ pc[c] = "submit"
    BY <1>3 DEF Prepare
  <2>3. CASE pc'[c] = "refused"
    BY <2>1, <2>2, <2>3 DEF ClaimOK, Built
  <2>4. CASE pc'[c] # "refused"
    <3> DEFINE route == FindBridge(asset)
    <3>1. pc'[c] = "salt" /\ route # "error"
      BY <1>0, <1>3, <2>4 DEF Prepare
    <3>2. PICK fee \in EstimateWithdrawalFee(route, asset) :
            /\ ~FeeTooHigh(claim[c].amount, fee)
            /\ debit' = [debit EXCEPT ![c] = DebitOf(CreateWithdrawalIntents(route, asset,
                                                     claim[c].amount - fee.amount, fee))]
      BY <1>0, <1>3, <2>4 DEF Prepare
    <3>3. asset \in Assets
      BY DEF TypeOK
    <3>4. route \in {"poa", "hot", "omni", "direct"}
      BY <3>1, <3>3, FindBridgeRange
    <3> HIDE DEF route
    <3>5. DebitOf(CreateWithdrawalIntents(route, asset, claim[c].amount - fee.amount, fee))
            = [asset |-> claim[c].amount, native |-> 0]
      BY <1>1, <3>2, <3>3, <3>4, IntentsExact
    <3>6. debit'[c] = [asset |-> claim[c].amount, native |-> 0]
      BY <1>0, <3>2, <3>5
    <3> QED
      BY <2>1, <2>2, <3>1, <3>6 DEF ClaimOK, Exact, route
  <2> QED
    BY <2>3, <2>4
<1>4. CASE CachedSalt(c)
  <2>1. cachedSalt # NoSalt /\ pc[c] = "salt" /\ salt' = [salt EXCEPT ![Payload(c)] = cachedSalt]
        /\ pc'[c] = "send" /\ UNCHANGED <<debit, attempt, errors, current, asset, claim>>
    BY <1>0, <1>4 DEF CachedSalt, Sign
  <2> QED
    BY <1>0, <1>1, <2>1 DEF ClaimOK, Exact, Built
<1>5. CASE FetchSalt(c)
  <2>1. pc[c] = "salt" /\ pc'[c] = "read" /\ UNCHANGED <<debit, attempt, errors, current, asset, claim, salt>>
    BY <1>0, <1>5 DEF FetchSalt
  <2> QED
    BY <2>1 DEF ClaimOK, Exact, Built
<1>6. CASE StoreSalt(c)
  <2>1. pc[c] = "read" /\ UNCHANGED <<debit, attempt, errors, current, asset, claim>>
    BY <1>6 DEF StoreSalt
  <2>2. saltLock.read # NoSalt
    BY <2>1, LockedSalt
  <2>3. \/ salt' = [salt EXCEPT ![Payload(c)] = saltLock.read] /\ pc'[c] = "send"
        \/ salt' = salt /\ pc'[c] = "refused"
    BY <1>0, <1>6 DEF StoreSalt, Sign
  <2> QED
    BY <1>0, <1>1, <2>1, <2>2, <2>3 DEF ClaimOK, Exact, Built
<1>7. CASE RefreshSalt(c)
  <2>1. pc[c] = "refresh" /\ pc'[c] = "salt" /\ UNCHANGED <<debit, attempt, errors, asset, claim, salt>>
    BY <1>0, <1>7 DEF RefreshSalt
  <2> QED
    BY <2>1 DEF ClaimOK, Exact, Built
<1>8. CASE Unanswered(c)
  <2>1. pc[c] = "send" /\ UNCHANGED <<debit, errors, asset, claim, salt, current>>
    BY <1>8 DEF Unanswered
  <2>2. \/ pc'[c] = "refused" /\ attempt'[c] = 0
        \/ pc' = pc /\ attempt'[c] = attempt[c] + 1 /\ attempt[c] + 1 # PublishAttempts
    BY <1>0, <1>8 DEF Unanswered
  <2>3. attempt'[c] < PublishAttempts
    BY <1>1, <2>2 DEF ClaimOK
  <2> QED
    BY <1>1, <2>1, <2>2, <2>3 DEF ClaimOK, Exact, Built
<1>9. CASE Answered(c)
  <2>1. pc[c] = "send" /\ UNCHANGED <<debit, errors, asset, claim, salt, current>> /\ attempt'[c] = 0
    BY <1>0, <1>9 DEF Answered
  <2>2. PICK v \in Verdicts(Payload(c)) : \E there \in AfterAnswer(c, v.answer) : GoTo(c, there)
    BY <1>9 DEF Answered
  <2>3. v.answer \in {"OK", "already processed", "refused", "invalid salt"}
    BY <1>1, VerdictsType
  <2>4. pc'[c] \in {"settle", "refused", "refresh"}
    BY <1>0, <2>2, <2>3 DEF AfterAnswer
  <2> QED
    BY <2>1, <2>4 DEF ClaimOK, Exact, Built
<1>10. CASE Settle(c)
  <2>1. pc[c] = "settle" /\ UNCHANGED <<debit, asset, claim, salt, current, attempt, errors>>
    BY <1>10 DEF Settle
  <2>2. pc'[c] \in {"settle", "watch", "failed"}
    BY <1>0, <1>10 DEF Settle, Wait, Leave
  <2> QED
    BY <2>1, <2>2 DEF ClaimOK, Exact, Built
<1>11. CASE Watch(c)
  <2>1. pc[c] = "watch" /\ UNCHANGED <<debit, asset, claim, salt, current, attempt>>
    BY <1>11 DEF Watch
  <2>2. pc'[c] \in {"watch", "done", "failed"}
    BY <1>0, <1>11 DEF Watch, Wait, Leave
  <2>3. pc'[c] \notin {"done", "failed"} => errors'[c] < MaxWatchErrors
    <3>1. CASE TimedOut(c) /\ Leave(c, "failed") /\ UNCHANGED <<errors, nonces>>
      BY <1>0, <3>1 DEF Leave
    <3>2. CASE ~(TimedOut(c) /\ Leave(c, "failed") /\ UNCHANGED <<errors, nonces>>)
      <4>1. PICK d \in Describe(c) :
              /\ errors' = [errors EXCEPT ![c] = IF d[1] = "error" THEN @ + 1 ELSE 0]
              /\ CASE d[1] = "completed"            -> Leave(c, "done")
                   [] \/ d[1] = "failed"
                      \/ errors'[c] = MaxWatchErrors -> Leave(c, "failed")
                   [] OTHER                         -> Wait(c)
        BY <1>11, <3>2 DEF Watch
      <4>2. errors'[c] \in {errors[c] + 1, 0} /\ errors[c] < MaxWatchErrors
        BY <1>0, <2>1, <4>1 DEF ClaimOK
      <4>3. CASE errors'[c] # MaxWatchErrors
        BY <1>1, <4>2, <4>3
      <4>4. CASE errors'[c] = MaxWatchErrors
        <5>1. Leave(c, "done") \/ Leave(c, "failed")
          BY <4>1, <4>4
        <5> QED
          BY <1>0, <5>1 DEF Leave
      <4> QED
        BY <4>3, <4>4
    <3> QED
      BY <3>1, <3>2
  <2> QED
    BY <2>1, <2>2, <2>3 DEF ClaimOK, Exact, Built
<1> QED
  BY <1>2, <1>3, <1>4, <1>5, <1>6, <1>7, <1>8, <1>9, <1>10, <1>11 DEF Step

\* No step disturbs what is known of the claims' own state.
LEMMA ClaimStep == TypeOK /\ ClaimInv /\ SaltInv /\ [Next]_vars => ClaimInv'
<1> SUFFICES ASSUME TypeOK, ClaimInv, SaltInv, [Next]_vars, NEW e \in Claims PROVE ClaimOK(e)'
  BY DEF ClaimInv
<1>0. ClaimOK(e)
  BY DEF ClaimInv
<1>1. ASSUME NEW c \in Claims, Step(c) \/ \E a \in Accounts : Start(c, a) PROVE ClaimOK(e)'
  <2>1. CASE e = c
    BY <1>0, <1>1, <2>1, ClaimOwnStep
  <2>2. CASE e # c
    <3>1. asset' = asset
      BY <1>1 DEF Step, Start, Prepare, CachedSalt, FetchSalt, StoreSalt, RefreshSalt, Unanswered,
                  Answered, Settle, Watch
    <3>2. Same(e)
      BY <1>1, <2>2, Elsewhere
    <3> QED
      BY <1>0, <3>1, <3>2, ClaimKept
  <2> QED
    BY <2>1, <2>2
<1>2. ASSUME UNCHANGED <<clientVars, asset, claim>> PROVE ClaimOK(e)'
  BY <1>0, <1>2 DEF ClaimOK, Exact, Payload, clientVars
<1>3. CASE Environment \/ UNCHANGED vars
  <2>1. UNCHANGED <<clientVars, asset, claim>>
    BY <1>3 DEF Environment, RotateSalt, Refund, LateArrival, Execute, Drop, Deliver, vars
  <2> QED
    BY <1>2, <2>1
<1> QED
  BY <1>1, <1>3 DEF Next

-----------------------------------------------------------------------------
(* The shared salt *)

\* What the salts are: numbers, the contract's natural; and the lock, when somebody has it, holds
\* the salt of its holder.
LEMMA SaltFacts ==
  ASSUME TypeOK, SaltInv
  PROVE  /\ chainSalt \in Nat /\ cachedSalt \in Int /\ cachedSalt <= chainSalt
         /\ saltLock # Free => saltLock.read \in Nat
         /\ saltLock.read \in Int /\ saltLock.read <= chainSalt
         /\ \A p \in Payloads : salt[p] \in Int /\ salt[p] <= chainSalt
         /\ \A e \in Claims : refusedAt[e] \in Int /\ SaltOK(e) /\ current[e] \in {1, 2}
BY ConstantsFacts DEF TypeOK, SaltInv, Free

\* A step that signs nothing, and leaves the salts of the contract and of the saltManager alone,
\* keeps what is known of them.
LEMMA SaltKept ==
  ASSUME SaltInv, FreshSaltOnRetry,
         UNCHANGED <<salt, chainSalt, cachedSalt, saltLock, refusedAt, current>>,
         \A e \in Claims : pc'[e] = "read" => pc[e] = "read"
  PROVE  SaltInv' /\ FreshSaltOnRetry'
BY DEF SaltInv, SaltOK, FreshSaltOnRetry

\* A claim signs with a salt that is not older than its refusal.
LEMMA SignKeeps ==
  ASSUME TypeOK, SaltInv, FreshSaltOnRetry, NEW c \in Claims, NEW s \in Nat, s <= chainSalt,
         current[c] = 2 => s >= refusedAt[c],
         salt' = [salt EXCEPT ![Payload(c)] = s],
         cachedSalt' \in {cachedSalt, s}, saltLock' \in {saltLock, Free},
         \A e \in Claims : current[e] = 2 /\ cachedSalt' # cachedSalt => s >= refusedAt[e],
         \A e \in Claims : pc'[e] = "read" => saltLock' # Free /\ saltLock'.by = e,
         UNCHANGED <<chainSalt, refusedAt, current>>
  PROVE  SaltInv' /\ FreshSaltOnRetry'
<1> USE ConstantsFacts
<1>1. Payload(c) = <<c, current[c]>> /\ Payload(c) \in Payloads /\ current[c] \in {1, 2}
      /\ salt \in [Payloads -> {NoSalt} \cup 0..MaxRotations]
  BY DEF TypeOK, Payload, Payloads
<1>2. \A p \in Payloads : salt'[p] <= chainSalt'
  BY <1>1, SaltFacts
<1>3. cachedSalt' <= chainSalt' /\ saltLock'.read <= chainSalt'
  <2>1. saltLock'.read \in {saltLock.read, NoSalt}
    BY DEF Free
  <2> QED
    BY <2>1, SaltFacts
<1>4. ASSUME NEW e \in Claims
      PROVE  SaltOK(e)' /\ (salt'[<<e, 2>>] # NoSalt => salt'[<<e, 2>>] >= refusedAt'[e])
  <2>1. refusedAt'[e] <= chainSalt' /\ (pc'[e] = "read" => saltLock' # Free /\ saltLock'.by = e)
    BY SaltFacts DEF SaltOK
  <2>2. current'[e] = 1 => salt'[<<e, 2>>] = NoSalt
    <3>1. current[e] = 1 => <<e, 2>> # Payload(c)
      BY <1>1
    <3> QED
      BY <1>1, <3>1, SaltFacts DEF SaltOK
  <2>3. current'[e] = 2 => /\ cachedSalt' # NoSalt => cachedSalt' >= refusedAt'[e]
                           /\ saltLock' # Free => saltLock'.read >= refusedAt'[e]
    BY SaltFacts, ZenonT(30) DEF SaltOK
  <2>4. salt'[<<e, 2>>] # NoSalt => salt'[<<e, 2>>] >= refusedAt'[e]
    <3>1. CASE <<e, 2>> = Payload(c)
      BY <1>1, <3>1
    <3>2. CASE <<e, 2>> # Payload(c)
      BY <1>1, <3>2 DEF FreshSaltOnRetry
    <3> QED
      BY <3>1, <3>2
  <2> QED
    BY <2>1, <2>2, <2>3, <2>4 DEF SaltOK
<1> QED
  BY <1>2, <1>3, <1>4 DEF SaltInv, FreshSaltOnRetry

\* No step, of whichever claim, brings a salt older than a refusal back.
LEMMA SaltStep ==
  TypeOK /\ SaltInv /\ FreshSaltOnRetry /\ [Next]_vars => SaltInv' /\ FreshSaltOnRetry'
<1> SUFFICES ASSUME TypeOK, SaltInv, FreshSaltOnRetry, [Next]_vars
             PROVE  SaltInv' /\ FreshSaltOnRetry'
  OBVIOUS
<1> USE ConstantsFacts DEF externalVars, history, GoTo
<1>0. DOMAIN pc = Claims /\ DOMAIN current = Claims /\ DOMAIN refusedAt = Claims
      /\ DOMAIN salt = Payloads
  BY DEF TypeOK
<1>1. ASSUME UNCHANGED <<salt, chainSalt, cachedSalt, saltLock, refusedAt, current>>,
             NEW c \in Claims, NEW there, there # "read",
             pc' \in {pc, [pc EXCEPT ![c] = there]}
      PROVE  SaltInv' /\ FreshSaltOnRetry'
  <2>1. \A e \in Claims : pc'[e] = "read" => pc[e] = "read"
    BY <1>0, <1>1
  <2> QED
    BY <1>1, <2>1, SaltKept
<1>2. ASSUME NEW c \in Claims, NEW a \in Accounts, Start(c, a) PROVE SaltInv' /\ FreshSaltOnRetry'
  BY <1>1, <1>2 DEF Start
<1>3. ASSUME NEW c \in Claims, Prepare(c) PROVE SaltInv' /\ FreshSaltOnRetry'
  <2>1. pc' = [pc EXCEPT ![c] = "salt"] \/ pc' = [pc EXCEPT ![c] = "refused"]
    BY <1>3 DEF Prepare
  <2>2. UNCHANGED <<salt, chainSalt, cachedSalt, saltLock, refusedAt, current>>
    BY <1>3 DEF Prepare
  <2> QED
    BY <1>1, <2>1, <2>2
<1>4. ASSUME NEW c \in Claims, CachedSalt(c) PROVE SaltInv' /\ FreshSaltOnRetry'
  <2>1. /\ saltLock = Free /\ cachedSalt # NoSalt /\ salt' = [salt EXCEPT ![Payload(c)] = cachedSalt]
        /\ pc' = [pc EXCEPT ![c] = "send"]
        /\ UNCHANGED <<chainSalt, cachedSalt, saltLock, refusedAt, current>>
    BY <1>4 DEF CachedSalt, Sign
  <2>2. cachedSalt \in Nat /\ cachedSalt <= chainSalt /\ (current[c] = 2 => cachedSalt >= refusedAt[c])
    <3>1. cachedSalt \in {NoSalt} \cup 0..MaxRotations
      BY DEF TypeOK
    <3>2. cachedSalt \in Nat
      BY <2>1, <3>1
    <3> QED
      BY <2>1, <3>2, SaltFacts DEF SaltOK
  <2>3. \A e \in Claims : pc'[e] # "read"
    BY <1>0, <2>1, SaltFacts DEF SaltOK
  <2> QED
    BY <2>1, <2>2, <2>3, SignKeeps
<1>5. ASSUME NEW c \in Claims, FetchSalt(c) PROVE SaltInv' /\ FreshSaltOnRetry'
  <2>1. /\ saltLock = Free /\ saltLock' = [by |-> c, read |-> chainSalt]
        /\ pc' = [pc EXCEPT ![c] = "read"]
        /\ UNCHANGED <<salt, chainSalt, cachedSalt, refusedAt, current>>
    BY <1>5 DEF FetchSalt
  <2>2. saltLock'.by = c /\ saltLock'.read = chainSalt /\ saltLock' # Free
    BY <2>1, SaltFacts DEF Free
  <2>3. ASSUME NEW e \in Claims PROVE SaltOK(e)'
    <3>1. pc'[e] = "read" => e = c
      BY <1>0, <2>1, SaltFacts DEF SaltOK
    <3> QED
      BY <2>1, <2>2, <3>1, SaltFacts DEF SaltOK
  <2> QED
    BY <2>1, <2>2, <2>3, SaltFacts DEF SaltInv, FreshSaltOnRetry
<1>6. ASSUME NEW c \in Claims, StoreSalt(c) PROVE SaltInv' /\ FreshSaltOnRetry'
  <2>1. /\ pc[c] = "read" /\ saltLock' = Free /\ UNCHANGED <<chainSalt, refusedAt, current>>
    BY <1>6 DEF StoreSalt
  <2>2. /\ saltLock # Free /\ saltLock.by = c /\ saltLock.read \in Nat /\ saltLock.read <= chainSalt
    BY <2>1, SaltFacts DEF SaltOK
  <2>3. ASSUME NEW e \in Claims, current[e] = 2 PROVE saltLock.read >= refusedAt[e]
    BY <2>2, <2>3, SaltFacts DEF SaltOK
  <2>4. ASSUME NEW e \in Claims, NEW there, there # "read", pc' = [pc EXCEPT ![c] = there]
        PROVE  pc'[e] # "read"
    BY <1>0, <2>2, <2>4, SaltFacts DEF SaltOK
  <2>5. CASE cachedSalt' = saltLock.read /\ Sign(c, saltLock.read)
    <3>1. salt' = [salt EXCEPT ![Payload(c)] = saltLock.read] /\ \A e \in Claims : pc'[e] # "read"
      BY <2>4, <2>5 DEF Sign
    <3> QED
      BY <2>1, <2>2, <2>3, <2>5, <3>1, SignKeeps
  <2>6. CASE pc' = [pc EXCEPT ![c] = "refused"] /\ UNCHANGED <<cachedSalt, salt>>
    <3>1. \A e \in Claims : pc'[e] # "read"
      BY <2>4, <2>6
    <3>2. saltLock'.read <= chainSalt'
      BY <2>1, SaltFacts DEF Free
    <3> QED
      BY <2>1, <2>6, <3>1, <3>2, SaltFacts DEF SaltInv, SaltOK, FreshSaltOnRetry
  <2> QED
    BY <1>6, <2>5, <2>6 DEF StoreSalt
<1>7. ASSUME NEW c \in Claims, RefreshSalt(c) PROVE SaltInv' /\ FreshSaltOnRetry'
  <2>1. /\ saltLock = Free /\ cachedSalt' = NoSalt /\ current' = [current EXCEPT ![c] = 2]
        /\ pc' = [pc EXCEPT ![c] = "salt"]
        /\ UNCHANGED <<salt, saltLock, chainSalt, refusedAt>>
    BY <1>7 DEF RefreshSalt
  <2>2. ASSUME NEW e \in Claims PROVE SaltOK(e)'
    <3>1. pc'[e] # "read"
      BY <1>0, <2>1, SaltFacts DEF SaltOK
    <3>2. current'[e] = 1 => current[e] = 1
      BY <1>0, <2>1
    <3> QED
      BY <2>1, <3>1, <3>2, SaltFacts DEF SaltOK
  <2> QED
    BY <2>1, <2>2, SaltFacts DEF SaltInv, FreshSaltOnRetry
<1>8. ASSUME NEW c \in Claims, Unanswered(c) PROVE SaltInv' /\ FreshSaltOnRetry'
  <2>1. pc' \in {pc, [pc EXCEPT ![c] = "refused"]}
        /\ UNCHANGED <<salt, chainSalt, cachedSalt, saltLock, refusedAt, current>>
    BY <1>8 DEF Unanswered
  <2> QED
    BY <1>1, <2>1
<1>9. ASSUME NEW c \in Claims, Answered(c) PROVE SaltInv' /\ FreshSaltOnRetry'
  <2>1. UNCHANGED <<salt, chainSalt, cachedSalt, saltLock, current>>
    BY <1>9 DEF Answered
  <2>2. PICK v \in Verdicts(Payload(c)) :
          /\ \E there \in AfterAnswer(c, v.answer) : GoTo(c, there)
          /\ refusedAt' = IF v.answer = "invalid salt" /\ current[c] = 1
                          THEN [refusedAt EXCEPT ![c] = chainSalt] ELSE refusedAt
    BY <1>9 DEF Answered
  <2>3. v.answer \in {"OK", "already processed", "refused", "invalid salt"}
    <3>1. Payload(c) \in Payloads
      BY DEF TypeOK, Payload, Payloads
    <3> QED
      BY <3>1, VerdictsType
  <2>4. PICK there \in {"settle", "refused", "refresh"} : pc' = [pc EXCEPT ![c] = there]
    BY <2>2, <2>3 DEF AfterAnswer
  <2>5. CASE refusedAt' = refusedAt
    BY <1>1, <2>1, <2>4, <2>5
  <2>6. CASE current[c] = 1 /\ refusedAt' = [refusedAt EXCEPT ![c] = chainSalt]
    <3>1. ASSUME NEW e \in Claims
          PROVE  SaltOK(e)' /\ (salt'[<<e, 2>>] # NoSalt => salt'[<<e, 2>>] >= refusedAt'[e])
      <4>1. pc'[e] = "read" => pc[e] = "read"
        BY <1>0, <2>4
      <4>2. CASE e = c
        BY <1>0, <2>1, <2>6, <4>1, <4>2, SaltFacts DEF SaltOK
      <4>3. CASE e # c
        BY <1>0, <2>1, <2>6, <4>1, <4>3, SaltFacts DEF SaltOK, FreshSaltOnRetry
      <4> QED
        BY <4>2, <4>3
    <3> QED
      BY <2>1, <3>1, SaltFacts DEF SaltInv, FreshSaltOnRetry
  <2> QED
    BY <2>2, <2>5, <2>6
<1>10. ASSUME NEW c \in Claims, Settle(c) PROVE SaltInv' /\ FreshSaltOnRetry'
  <2>1. \/ pc' = pc \/ pc' = [pc EXCEPT ![c] = "failed"] \/ pc' = [pc EXCEPT ![c] = "watch"]
    BY <1>10 DEF Settle, Wait, Leave
  <2>2. UNCHANGED <<salt, chainSalt, cachedSalt, saltLock, refusedAt, current>>
    BY <1>10 DEF Settle
  <2> QED
    BY <1>1, <2>1, <2>2
<1>11. ASSUME NEW c \in Claims, Watch(c) PROVE SaltInv' /\ FreshSaltOnRetry'
  <2>1. \/ pc' = pc \/ pc' = [pc EXCEPT ![c] = "failed"] \/ pc' = [pc EXCEPT ![c] = "done"]
    BY <1>11 DEF Watch, Wait, Leave
  <2>2. UNCHANGED <<salt, chainSalt, cachedSalt, saltLock, refusedAt, current>>
    BY <1>11 DEF Watch
  <2> QED
    BY <1>1, <2>1, <2>2
<1>12. CASE RotateSalt
  <2>1. chainSalt' = chainSalt + 1 /\ UNCHANGED <<pc, salt, cachedSalt, saltLock, refusedAt, current>>
    BY <1>12 DEF RotateSalt, clientVars
  <2>2. ASSUME NEW e \in Claims PROVE SaltOK(e)'
    BY <2>1, SaltFacts DEF SaltOK
  <2>3. FreshSaltOnRetry'
    BY <2>1 DEF FreshSaltOnRetry
  <2> QED
    BY <2>1, <2>2, <2>3, SaltFacts DEF SaltInv
<1>13. CASE (Environment /\ ~RotateSalt) \/ UNCHANGED vars
  <2>1. UNCHANGED <<pc, salt, chainSalt, cachedSalt, saltLock, refusedAt, current>>
    BY <1>13 DEF Environment, Refund, LateArrival, Execute, Drop, Deliver, vars, clientVars
  <2> QED
    BY <2>1, SaltKept
<1> QED
  BY <1>2, <1>3, <1>4, <1>5, <1>6, <1>7, <1>8, <1>9, <1>10, <1>11, <1>12, <1>13 DEF Next, Step

-----------------------------------------------------------------------------
(* What the relay has of a claim *)

\* A step of the claim's goroutine keeps what it knows of the relay.
LEMMA RelayOwnStep ==
  ASSUME TypeOK, SaltInv, NEW c \in Claims, ClaimOK(c), RelayOK(c),
         Step(c) \/ \E a \in Accounts : Start(c, a)
  PROVE  RelayOK(c)'
<1> USE ConstantsFacts DEF externalVars, history, GoTo
<1>0. /\ DOMAIN pc = Claims /\ DOMAIN current = Claims
      /\ DOMAIN salt = Payloads /\ DOMAIN relay = Payloads
  BY DEF TypeOK
<1>1. /\ current[c] \in {1, 2} /\ Payload(c) = <<c, current[c]>> /\ Payload(c) \in Payloads
      /\ Payload(c)' = <<c, current'[c]>>
      /\ \A i \in {1, 2} : salt[<<c, i>>] \in Int /\ salt[<<c, i>>] <= chainSalt
      /\ chainSalt \in Nat
  BY SaltFacts DEF TypeOK, Payload, Payloads
<1>2. ASSUME pc'[c] \in {"submit", "salt", "read", "refused"}, pc[c] \in Unpublished,
             UNCHANGED <<salt, current, chainSalt, relay, late, bridge, lost>>
      PROVE  RelayOK(c)'
  BY <1>0, <1>2 DEF RelayOK
<1>3. ASSUME NEW a \in Accounts, Start(c, a) PROVE RelayOK(c)'
  <2>1. pc'[c] = "submit" /\ pc[c] \in Unpublished
        /\ UNCHANGED <<salt, current, chainSalt, relay, late, bridge, lost>>
    BY <1>0, <1>3 DEF Start, Unpublished
  <2> QED
    BY <1>2, <2>1
<1>4. CASE Prepare(c)
  <2>1. pc'[c] \in {"salt", "refused"} /\ pc[c] \in Unpublished
        /\ UNCHANGED <<salt, current, chainSalt, relay, late, bridge, lost>>
    BY <1>0, <1>4 DEF Prepare, Unpublished
  <2> QED
    BY <1>2, <2>1
<1>5. ASSUME NEW s, salt' = [salt EXCEPT ![Payload(c)] = s], s # NoSalt, pc' = [pc EXCEPT ![c] = "send"],
             pc[c] \in {"salt", "read"}, UNCHANGED <<current, chainSalt, relay, late, bridge, lost>>
      PROVE  RelayOK(c)'
  <2>1. current[c] = 2 => salt'[<<c, 1>>] = salt[<<c, 1>>]
    BY <1>0, <1>1, <1>5
  <2>2. \A i \in {1, 2} : salt'[<<c, i>>] = NoSalt => salt[<<c, i>>] = NoSalt
    BY <1>0, <1>1, <1>5
  <2>3. pc'[c] = "send"
    BY <1>0, <1>5
  <2> QED
    BY <1>1, <1>5, <2>1, <2>2, <2>3 DEF RelayOK, Unpublished
<1>6. CASE CachedSalt(c)
  BY <1>5, <1>6 DEF CachedSalt, Sign
<1>7. CASE FetchSalt(c)
  <2>1. pc'[c] = "read" /\ pc[c] \in Unpublished
        /\ UNCHANGED <<salt, current, chainSalt, relay, late, bridge, lost>>
    BY <1>0, <1>7 DEF FetchSalt, Unpublished
  <2> QED
    BY <1>2, <2>1
<1>8. CASE StoreSalt(c)
  <2>1. pc[c] = "read" /\ UNCHANGED <<current, chainSalt, relay, late, bridge, lost>>
    BY <1>8 DEF StoreSalt
  <2>2. saltLock.read # NoSalt
    BY <2>1, LockedSalt
  <2>3. CASE Sign(c, saltLock.read)
    BY <1>5, <2>1, <2>2, <2>3 DEF Sign
  <2>4. CASE pc' = [pc EXCEPT ![c] = "refused"] /\ UNCHANGED salt
    <3>1. pc'[c] = "refused" /\ pc[c] \in Unpublished
      BY <1>0, <2>1, <2>4 DEF Unpublished
    <3> QED
      BY <1>2, <2>1, <2>4, <3>1
  <2> QED
    BY <1>8, <2>3, <2>4 DEF StoreSalt
<1>9. CASE RefreshSalt(c)
  <2>1. /\ pc[c] = "refresh" /\ pc'[c] = "salt" /\ UNCHANGED <<salt, chainSalt, relay, late, bridge, lost>>
    BY <1>0, <1>9 DEF RefreshSalt
  <2> QED
    BY <1>1, <2>1 DEF RelayOK, Unpublished
<1>10. CASE Unanswered(c)
  <2>1. /\ pc[c] = "send" /\ lost' = lost \cup {c} /\ late' \subseteq late \cup {Payload(c)}
        /\ UNCHANGED <<salt, current, chainSalt, relay, bridge>>
    BY <1>10 DEF Unanswered
  <2>2. pc'[c] \in {"send", "refused"}
    BY <1>0, <1>10 DEF Unanswered
  <2>3. salt[Payload(c)] # NoSalt
    BY <2>1 DEF ClaimOK
  <2>4. ASSUME NEW i \in {1, 2}, salt[<<c, i>>] = NoSalt PROVE <<c, i>> \notin late'
    BY <2>1, <2>3, <2>4 DEF RelayOK
  <2> QED
    BY <1>1, <2>1, <2>2, <2>4 DEF RelayOK
<1>11. CASE Answered(c)
  <2>1. /\ pc[c] = "send" /\ UNCHANGED <<salt, current, chainSalt, late, bridge>>
        /\ lost' = IF pc'[c] = "settle" THEN lost \ {c} ELSE lost
    BY <1>11 DEF Answered
  <2>2. PICK v \in Verdicts(Payload(c)) :
          /\ relay' = [relay EXCEPT ![Payload(c)] = v.state]
          /\ \E there \in AfterAnswer(c, v.answer) : GoTo(c, there)
    BY <1>11 DEF Answered
  <2> DEFINE p == Payload(c)
  <2>3. /\ v.answer \in {"OK", "already processed", "refused", "invalid salt"}
        /\ relay[p] # "none" => v.state = relay[p] /\ v.answer \in {"already processed", "refused"}
        /\ relay[p] = "none" => v.state \in {"none", "accepted"} /\ v.answer # "already processed"
        /\ relay[p] = "none" /\ salt[p] # chainSalt => v.state = "none"
        /\ v.answer = "invalid salt" => relay[p] = "none" /\ v.state = "none" /\ salt[p] # chainSalt
        /\ v.answer = "refused" => v.state = relay[p]
    BY <1>1, VerdictsType
  <2>4. salt[p] # NoSalt
    BY <2>1 DEF ClaimOK
  <2>5. /\ p \in Payloads /\ relay'[p] = v.state
        /\ \A q \in Payloads : q # p => relay'[q] = relay[q]
    BY <1>0, <1>1, <2>2
  <2>6. p = <<c, 1>> \/ p = <<c, 2>>
    BY <1>1
  <2>7. pc'[c] \in AfterAnswer(c, v.answer)
    BY <1>0, <2>2
  <2>8. pc'[c] \in {"settle", "refused", "refresh"}
        /\ (pc'[c] = "refresh" => v.answer = "invalid salt" /\ current[c] = 1)
        /\ (pc'[c] = "refused" => v.answer # "OK")
    BY <2>3, <2>7 DEF AfterAnswer
  <2>9. ASSUME NEW i \in {1, 2}
        PROVE  /\ salt'[<<c, i>>] = NoSalt => relay'[<<c, i>>] = "none" /\ <<c, i>> \notin late'
               /\ c \notin lost' /\ pc'[c] \in Unpublished =>
                     relay'[<<c, i>>] = "none" /\ <<c, i>> \notin late'
    <3>1. salt'[<<c, i>>] = NoSalt => relay'[<<c, i>>] = "none" /\ <<c, i>> \notin late'
      BY <2>1, <2>4, <2>5 DEF RelayOK
    <3>2. ASSUME c \notin lost', pc'[c] \in Unpublished
          PROVE  relay'[<<c, i>>] = "none" /\ <<c, i>> \notin late'
      <4>1. pc'[c] # "settle" /\ c \notin lost
        BY <2>1, <3>2 DEF Unpublished
      <4>2. \A j \in {1, 2} : relay[<<c, j>>] = "none" /\ <<c, j>> \notin late
        BY <2>1, <4>1 DEF RelayOK, Unpublished
      <4>3. relay[p] = "none"
        BY <2>6, <4>2
      <4>4. v.state = "none"
        BY <2>3, <2>8, <4>1, <4>3
      <4> QED
        BY <2>1, <2>5, <4>2, <4>4
    <3> QED
      BY <3>1, <3>2
  <2>10. current'[c] = 2 \/ pc'[c] = "refresh" => relay'[<<c, 1>>] = "none" /\ salt'[<<c, 1>>] < chainSalt'
    <3>1. CASE current[c] = 2
      BY <1>1, <2>1, <2>5, <3>1 DEF RelayOK
    <3>2. CASE current[c] = 1 /\ pc'[c] = "refresh"
      <4>1. v.answer = "invalid salt" /\ p = <<c, 1>>
        BY <1>1, <2>8, <3>2
      <4>2. v.state = "none" /\ salt[p] # chainSalt
        BY <2>3, <4>1
      <4> HIDE DEF p
      <4>3. relay'[<<c, 1>>] = "none" /\ salt[<<c, 1>>] # chainSalt
        BY <2>5, <4>1, <4>2
      <4>4. salt[<<c, 1>>] \in Int /\ salt[<<c, 1>>] <= chainSalt /\ chainSalt \in Nat
        BY <1>1
      <4> QED
        BY <2>1, <4>3, <4>4
    <3> QED
      BY <2>1, <2>8, <3>1, <3>2
  <2>11. bridge'[c] # "none" => \E i \in {1, 2} : relay'[<<c, i>>] = "executed"
    BY <2>1, <2>3, <2>5 DEF RelayOK
  <2> QED
    BY <2>8, <2>9, <2>10, <2>11 DEF RelayOK
<1>12. CASE Settle(c)
  <2>1. /\ pc[c] = "settle" /\ UNCHANGED <<salt, current, chainSalt, relay, late, bridge, lost>>
    BY <1>12 DEF Settle
  <2>2. \/ pc'[c] \in {"settle", "failed"}
        \/ pc'[c] = "watch" /\ relay[Payload(c)] = "executed"
    BY <1>0, <1>12 DEF Settle, Wait, Leave
  <2> QED
    BY <1>1, <2>1, <2>2 DEF RelayOK, Unpublished
<1>13. CASE Watch(c)
  <2>1. /\ pc[c] = "watch" /\ UNCHANGED <<salt, current, chainSalt, relay, late, bridge, lost>>
    BY <1>13 DEF Watch
  <2>2. pc'[c] \in {"watch", "failed", "done"}
    BY <1>0, <1>13 DEF Watch, Wait, Leave
  <2> QED
    BY <1>1, <2>1, <2>2 DEF RelayOK, Unpublished
<1> QED
  BY <1>3, <1>4, <1>6, <1>7, <1>8, <1>9, <1>10, <1>11, <1>12, <1>13 DEF Step

\* What the relay, the contract and the bridges do keeps it too: a payload that was refused for an
\* old salt stays refused, since the salt does not come back.
LEMMA RelayElsewhere ==
  ASSUME TypeOK, SaltInv, RelayInv, Environment, NEW e \in Claims
  PROVE  RelayOK(e)'
<1> USE ConstantsFacts DEF clientVars, history
<1>0. /\ RelayOK(e) /\ DOMAIN relay = Payloads /\ DOMAIN bridge = Claims
      /\ current[e] \in {1, 2} /\ Payload(e) = <<e, current[e]>> /\ Payload(e)' = <<e, current'[e]>>
      /\ \A i \in {1, 2} : <<e, i>> \in Payloads /\ salt[<<e, i>>] \in Int /\ salt[<<e, i>>] <= chainSalt
      /\ chainSalt \in Nat
  BY SaltFacts DEF TypeOK, RelayInv, Payload
<1>1. CASE RotateSalt
  BY <1>0, <1>1 DEF RotateSalt, RelayOK
<1>2. ASSUME NEW a \in Accounts, NEW n \in Amounts, Refund(a, n) PROVE RelayOK(e)'
  BY <1>0, <1>2 DEF Refund, RelayOK
<1>3. ASSUME NEW p \in Payloads, LateArrival(p) PROVE RelayOK(e)'
  <2>1. PICK v \in Verdicts(p) : relay' = [relay EXCEPT ![p] = v.state]
    BY <1>3 DEF LateArrival
  <2>2. /\ relay[p] # "none" => v.state = relay[p]
        /\ relay[p] = "none" /\ salt[p] # chainSalt => v.state = "none"
    BY VerdictsType
  <2>3. p \in late /\ late' = late \ {p} /\ UNCHANGED <<pc, salt, current, chainSalt, bridge, lost>>
    BY <1>3 DEF LateArrival
  <2>4. relay'[p] = v.state /\ \A q \in Payloads : q # p => relay'[q] = relay[q]
    BY <1>0, <2>1
  <2>5. ASSUME NEW i \in {1, 2}
        PROVE  /\ salt'[<<e, i>>] = NoSalt => relay'[<<e, i>>] = "none" /\ <<e, i>> \notin late'
               /\ e \notin lost' /\ pc'[e] \in Unpublished =>
                     relay'[<<e, i>>] = "none" /\ <<e, i>> \notin late'
               /\ relay[<<e, i>>] = "executed" => relay'[<<e, i>>] = "executed"
    <3>1. CASE <<e, i>> = p
      BY <1>0, <2>2, <2>3, <2>4, <3>1 DEF RelayOK
    <3>2. CASE <<e, i>> # p
      BY <1>0, <2>3, <2>4, <3>2 DEF RelayOK
    <3> QED
      BY <3>1, <3>2
  <2>6. current'[e] = 2 \/ pc'[e] = "refresh" => relay'[<<e, 1>>] = "none" /\ salt'[<<e, 1>>] < chainSalt'
    <3>1. CASE <<e, 1>> = p
      BY <1>0, <2>2, <2>3, <2>4, <3>1 DEF RelayOK
    <3>2. CASE <<e, 1>> # p
      BY <1>0, <2>3, <2>4, <3>2 DEF RelayOK
    <3> QED
      BY <3>1, <3>2
  <2> QED
    BY <1>0, <2>3, <2>5, <2>6 DEF RelayOK
<1>4. ASSUME NEW p \in Payloads, Execute(p) PROVE RelayOK(e)'
  <2>1. /\ relay[p] = "accepted" /\ relay' = [relay EXCEPT ![p] = "executed"]
        /\ bridge' = [bridge EXCEPT ![p[1]] = "pending"]
        /\ UNCHANGED <<pc, salt, current, chainSalt, late, lost>>
    BY <1>4 DEF Execute
  <2>2. relay'[p] = "executed" /\ \A q \in Payloads : q # p => relay'[q] = relay[q]
    BY <1>0, <2>1
  <2>3. \A i \in {1, 2} : relay[<<e, i>>] = "executed" => relay'[<<e, i>>] = "executed"
    BY <1>0, <2>2
  <2>4. \A i \in {1, 2} : relay[<<e, i>>] = "none" => relay'[<<e, i>>] = "none"
    BY <1>0, <2>1, <2>2
  <2>5. bridge'[e] # "none" => \E i \in {1, 2} : relay'[<<e, i>>] = "executed"
    <3>1. CASE e = p[1]
      <4>1. p = <<e, 1>> \/ p = <<e, 2>>
        BY <3>1 DEF Payloads
      <4> QED
        BY <2>2, <4>1
    <3>2. CASE e # p[1]
      BY <1>0, <2>1, <2>3, <3>2 DEF RelayOK
    <3> QED
      BY <3>1, <3>2
  <2> QED
    BY <1>0, <2>1, <2>3, <2>4, <2>5 DEF RelayOK
<1>5. ASSUME NEW p \in Payloads, Drop(p) PROVE RelayOK(e)'
  <2>1. /\ relay[p] = "accepted" /\ relay' = [relay EXCEPT ![p] = "dead"]
        /\ UNCHANGED <<pc, salt, current, chainSalt, late, bridge, lost>>
    BY <1>5 DEF Drop
  <2>2. \A q \in Payloads : q # p => relay'[q] = relay[q]
    BY <1>0, <2>1
  <2>3. \A i \in {1, 2} : /\ relay[<<e, i>>] = "executed" => relay'[<<e, i>>] = "executed"
                          /\ relay[<<e, i>>] = "none" => relay'[<<e, i>>] = "none"
    BY <1>0, <2>1, <2>2
  <2> QED
    BY <1>0, <2>1, <2>3 DEF RelayOK
<1>6. ASSUME NEW c \in Claims, Deliver(c) PROVE RelayOK(e)'
  <2>1. /\ bridge[c] = "pending" /\ UNCHANGED <<pc, salt, current, chainSalt, relay, late, lost>>
    BY <1>6 DEF Deliver
  <2>2. bridge'[e] # "none" => bridge[e] # "none"
    BY <1>0, <1>6 DEF Deliver
  <2> QED
    BY <1>0, <2>1, <2>2 DEF RelayOK
<1> QED
  BY <1>1, <1>2, <1>3, <1>4, <1>5, <1>6 DEF Environment

\* No step disturbs what a claim knows of the relay.
LEMMA RelayStep == TypeOK /\ ClaimInv /\ SaltInv /\ RelayInv /\ [Next]_vars => RelayInv'
<1> SUFFICES ASSUME TypeOK, ClaimInv, SaltInv, RelayInv, [Next]_vars, NEW e \in Claims
             PROVE  RelayOK(e)'
  BY DEF RelayInv
<1>0. RelayOK(e) /\ ClaimOK(e)
  BY DEF RelayInv, ClaimInv
<1>1. ASSUME NEW c \in Claims, Step(c) \/ \E a \in Accounts : Start(c, a) PROVE RelayOK(e)'
  <2>1. CASE e = c
    BY <1>0, <1>1, <2>1, RelayOwnStep
  <2>2. CASE e # c
    <3>1. chainSalt' = chainSalt /\ chainSalt \in Nat
      <4>1. chainSalt' = chainSalt
        BY <1>1 DEF Step, Start, Prepare, CachedSalt, FetchSalt, StoreSalt, RefreshSalt, Unanswered,
                    Answered, Settle, Watch, externalVars
      <4> QED
        BY <4>1, SaltFacts
    <3>2. Same(e)
      BY <1>1, <2>2, Elsewhere
    <3>3. chainSalt' >= chainSalt /\ chainSalt' \in Nat
      BY <3>1
    <3> QED
      BY <1>0, <3>2, <3>3, RelayKept
  <2> QED
    BY <2>1, <2>2
<1>2. CASE Environment
  BY <1>2, RelayElsewhere
<1>3. CASE UNCHANGED vars
  BY <1>0, <1>3 DEF vars, clientVars, externalVars, history, RelayOK, Payload
<1> QED
  BY <1>1, <1>2, <1>3 DEF Next

-----------------------------------------------------------------------------
(* What is invariant *)

\* No step of any claim, or outside, leaves the invariant.
LEMMA IInvStep == IInv /\ [Next]_vars => IInv'
BY TypeStep, ClaimStep, SaltStep, RelayStep DEF IInv

\* The conjunction of the state's types, the claims' payloads, the shared salt and what the relay
\* has of each claim holds in every state.
THEOREM Inductive == Spec => []IInv
<1>1. Init => IInv
  BY IInvInit
<1>2. IInv /\ [Next]_vars => IInv'
  BY IInvStep
<1> QED
  BY <1>1, <1>2, PTL DEF Spec

\* Every variable keeps its type, whatever the bounds.
THEOREM TypeCorrect == Spec => []TypeOK
<1>1. IInv => TypeOK
  BY DEF IInv
<1> QED
  BY <1>1, Inductive, PTL

\* Whatever the asset, the bridge and the fee that is quoted, a payload takes exactly the amount
\* that was claimed, and no native token that it does not buy.
THEOREM SpendsExactly == Spec => []IntentsSpendExactly
<1>1. IInv => IntentsSpendExactly
  BY DEF IInv, ClaimInv, ClaimOK, Built, Exact, IntentsSpendExactly
<1> QED
  BY <1>1, Inductive, PTL

\* However many claims share the saltManager, the second payload of one is not signed with a salt
\* older than the refusal of its first.
THEOREM FreshSalt == Spec => []FreshSaltOnRetry
<1>1. IInv => FreshSaltOnRetry
  BY DEF IInv
<1> QED
  BY <1>1, Inductive, PTL

\* A submission that failed with all of its requests answered left nothing at the relay, and
\* nothing on its way there.
THEOREM HonestFailure == Spec => []FailureIsHonest
<1>1. IInv => FailureIsHonest
  <2> SUFFICES ASSUME RelayInv, NEW c \in Claims, pc[c] = "refused", c \notin lost, NEW i \in {1, 2}
               PROVE  relay[<<c, i>>] = "none" /\ <<c, i>> \notin late
    BY DEF IInv, FailureIsHonest
  <2> QED
    BY DEF RelayInv, RelayOK, Unpublished
<1> QED
  BY <1>1, Inductive, PTL

-----------------------------------------------------------------------------
(* The claims implement RefundClaim, as far as safety goes *)

\* The first states are first states of RefundClaim.
LEMMA AbsInit == Init => Abs!Init
<1> SUFFICES ASSUME Init PROVE Abs!Init
  OBVIOUS
<1>1. Taken = {} /\ Delivered = {} /\ Watched \in SUBSET Claims
  BY DEF Init, Taken, Delivered, Watched, Payloads
<1>2. Outcome = [c \in Claims |-> "idle"]
  BY DEF Init, Outcome
<1>3. claim \in [Claims -> [account : Accounts, amount : {0}]]
      /\ funds \in [Accounts -> Amounts \cup {0}]
  BY DEF Init
<1> QED
  BY <1>1, <1>2, <1>3 DEF Abs!Init

\* A claim's goroutine goes on: nothing that RefundClaim speaks of changes, or the claim returns.
LEMMA AbsReport ==
  ASSUME TypeOK, NEW c \in Claims, NEW there, pc' = [pc EXCEPT ![c] = there],
         pc[c] \notin {"idle", "done", "refused", "failed"}, there # "idle",
         there = "done" => c \in Taken /\ (c \in Watched => c \in Delivered),
         UNCHANGED <<funds, claim, Watched, Taken, Delivered>>
  PROVE  [Abs!Next]_(Abs!vars)
<1>1. \A e \in Claims : pc'[e] = IF e = c THEN there ELSE pc[e]
  BY DEF TypeOK
<1>2. Outcome[c] = "running"
  BY DEF Outcome
<1>3. CASE there \notin Returned
  <2>1. Outcome' = Outcome
    BY <1>1, <1>3 DEF Outcome, Returned
  <2> QED
    BY <2>1 DEF Abs!vars
<1>4. CASE there \in Returned
  <2> DEFINE result == IF there = "done" THEN "done" ELSE "failed"
  <2>1. Outcome' = [Outcome EXCEPT ![c] = result]
    BY <1>1, <1>4 DEF Outcome, Returned
  <2>2. result = "done" => c \in Taken /\ (c \in Watched => c \in Delivered)
    OBVIOUS
  <2>3. result \in {"done", "failed"}
    OBVIOUS
  <2> HIDE DEF result
  <2>4. Abs!Report(c)
    BY <1>2, <2>1, <2>2, <2>3 DEF Abs!Report
  <2> QED
    BY <2>4 DEF Abs!Next
<1> QED
  BY <1>3, <1>4

\* The two payloads of a claim are not both at the relay.
LEMMA OneCounts ==
  ASSUME IInv, NEW c \in Claims, relay[<<c, 1>>] # "none"
  PROVE  relay[<<c, 2>>] = "none"
<1>1. SaltOK(c) /\ RelayOK(c) /\ current[c] \in {1, 2}
  BY DEF IInv, SaltInv, RelayInv, TypeOK
<1>2. current[c] = 1
  BY <1>1 DEF RelayOK
<1> QED
  BY <1>1, <1>2 DEF SaltOK, RelayOK

\* The contract takes the claim's amount from the account it was listed in, and once.
LEMMA AbsTake ==
  ASSUME IInv, NEW p \in Payloads, Execute(p)
  PROVE  [Abs!Next]_(Abs!vars)
<1> USE ConstantsFacts
<1> DEFINE c == p[1]
<1>1. c \in Claims /\ (p = <<c, 1>> \/ p = <<c, 2>>)
  BY DEF Payloads
<1> HIDE DEF c
<1>2. /\ TypeOK /\ ClaimOK(c) /\ RelayOK(c)
  BY <1>1 DEF IInv, ClaimInv, RelayInv
<1>3. /\ relay[p] = "accepted" /\ salt[p] = chainSalt /\ debit[c].asset <= funds[claim[c].account]
      /\ funds' = [funds EXCEPT ![claim[c].account] = @ - debit[c].asset]
      /\ relay' = [relay EXCEPT ![p] = "executed"] /\ bridge' = [bridge EXCEPT ![c] = "pending"]
      /\ UNCHANGED <<claim, asset, pc>>
  BY DEF Execute, clientVars, c
<1>4. salt[p] # NoSalt
  BY <1>2, <1>3 DEF TypeOK
<1>5. debit[c].asset = claim[c].amount /\ pc[c] # "idle"
  BY <1>1, <1>2, <1>4 DEF ClaimOK, Exact
<1>6. c \notin Taken
  <2>1. CASE p = <<c, 1>>
    BY <1>1, <1>3, <2>1, OneCounts DEF Taken
  <2>2. CASE p = <<c, 2>>
    BY <1>1, <1>3, <2>2, OneCounts DEF Taken
  <2> QED
    BY <1>1, <2>1, <2>2
<1>7. \A q \in Payloads : relay'[q] = IF q = p THEN "executed" ELSE relay[q]
  BY <1>2, <1>3 DEF TypeOK
<1>8. Taken' = Taken \cup {c}
  <2>1. ASSUME NEW e \in Claims PROVE e \in Taken' <=> e \in Taken \/ e = c
    <3>1. \A i \in {1, 2} : <<e, i>> \in Payloads /\ (<<e, i>> = p => e = c)
      BY <1>1 DEF c, Payloads
    <3>2. CASE e = c
      BY <1>1, <1>7, <3>1, <3>2 DEF Taken
    <3>3. CASE e # c
      BY <1>7, <3>1, <3>3 DEF Taken
    <3> QED
      BY <3>2, <3>3
  <2> QED
    BY <1>1, <2>1 DEF Taken
<1>9. Delivered' = Delivered
  <2>1. bridge[c] = "none"
    BY <1>1, <1>2, <1>6 DEF RelayOK, Taken
  <2>2. \A e \in Claims : bridge'[e] = IF e = c THEN "pending" ELSE bridge[e]
    BY <1>2, <1>3 DEF TypeOK
  <2> QED
    BY <2>1, <2>2 DEF Delivered
<1>10. Watched' = Watched /\ Outcome' = Outcome /\ Outcome[c] # "idle"
  BY <1>1, <1>3, <1>5 DEF Watched, Outcome
<1>11. funds[claim[c].account] >= claim[c].amount
  <2>1. claim[c].account \in Accounts /\ claim[c].amount \in Nat
    BY <1>1, <1>2 DEF TypeOK
  <2>2. funds[claim[c].account] \in Nat
    BY <1>2, <2>1 DEF TypeOK
  <2> QED
    BY <1>3, <1>5, <2>1, <2>2
<1>12. Abs!Take(c)
  BY <1>3, <1>5, <1>6, <1>8, <1>9, <1>10, <1>11 DEF Abs!Take
<1> QED
  BY <1>1, <1>12 DEF Abs!Next

\* A step that RefundClaim does not see.
LEMMA AbsStutter ==
  ASSUME UNCHANGED <<funds, claim, asset, pc, bridge, Taken>>
  PROVE  [Abs!Next]_(Abs!vars)
<1>1. UNCHANGED <<Watched, Delivered, Outcome>>
  BY DEF Watched, Delivered, Outcome
<1> QED
  BY <1>1 DEF Abs!vars

\* The relay's verdict of a payload does not execute it, nor undo it.
LEMMA VerdictTakes ==
  ASSUME TypeOK, NEW p \in Payloads, NEW v \in Verdicts(p), relay' = [relay EXCEPT ![p] = v.state]
  PROVE  Taken' = Taken
<1>1. v.state = "executed" <=> relay[p] = "executed"
  BY VerdictsType
<1>2. \A q \in Payloads : relay'[q] = "executed" <=> relay[q] = "executed"
  BY <1>1 DEF TypeOK
<1> QED
  BY <1>2, ConstantsFacts DEF Taken

\* The goroutine of a claim.
LEMMA AbsOwnStep ==
  ASSUME IInv, NEW c \in Claims, Step(c)
  PROVE  [Abs!Next]_(Abs!vars)
<1> USE DEF externalVars, history, GoTo
<1>0. TypeOK /\ ClaimOK(c) /\ RelayOK(c)
  BY DEF IInv, ClaimInv, RelayInv
<1>p. Payload(c) \in Payloads /\ (Payload(c) = <<c, 1>> \/ Payload(c) = <<c, 2>>)
  BY <1>0 DEF TypeOK, Payload, Payloads
<1>1. ASSUME NEW there, there \notin {"idle", "done"}, pc' \in {pc, [pc EXCEPT ![c] = there]},
             pc[c] \notin {"idle", "done", "refused", "failed"},
             UNCHANGED <<funds, claim, asset, bridge, Taken>>
      PROVE  [Abs!Next]_(Abs!vars)
  <2>1. CASE pc' = pc
    BY <1>1, <2>1, AbsStutter
  <2>2. CASE pc' = [pc EXCEPT ![c] = there]
    <3>1. UNCHANGED <<Watched, Delivered>>
      BY <1>1 DEF Watched, Delivered
    <3> QED
      BY <1>0, <1>1, <2>2, <3>1, AbsReport
  <2> QED
    BY <1>1, <2>1, <2>2
<1>2. ASSUME relay' = relay PROVE Taken' = Taken
  BY <1>2 DEF Taken
<1>3. CASE Prepare(c)
  <2>1. pc' = [pc EXCEPT ![c] = "salt"] \/ pc' = [pc EXCEPT ![c] = "refused"]
    BY <1>3 DEF Prepare
  <2>2. pc[c] = "submit" /\ UNCHANGED <<funds, claim, asset, bridge, Taken>>
    BY <1>2, <1>3 DEF Prepare
  <2> QED
    BY <1>1, <2>1, <2>2
<1>4. CASE CachedSalt(c) \/ FetchSalt(c) \/ StoreSalt(c) \/ RefreshSalt(c)
  <2>1. \/ pc' = [pc EXCEPT ![c] = "send"] \/ pc' = [pc EXCEPT ![c] = "read"]
        \/ pc' = [pc EXCEPT ![c] = "refused"] \/ pc' = [pc EXCEPT ![c] = "salt"]
    BY <1>4 DEF CachedSalt, FetchSalt, StoreSalt, RefreshSalt, Sign
  <2>2. pc[c] \in {"salt", "read", "refresh"} /\ UNCHANGED <<funds, claim, asset, bridge, Taken>>
    BY <1>2, <1>4 DEF CachedSalt, FetchSalt, StoreSalt, RefreshSalt
  <2> QED
    BY <1>1, <2>1, <2>2
<1>5. CASE Unanswered(c)
  <2>1. pc' = pc \/ pc' = [pc EXCEPT ![c] = "refused"]
    BY <1>5 DEF Unanswered
  <2>2. pc[c] = "send" /\ UNCHANGED <<funds, claim, asset, bridge, Taken>>
    BY <1>2, <1>5 DEF Unanswered
  <2> QED
    BY <1>1, <2>1, <2>2
<1>6. CASE Answered(c)
  <2>1. pc[c] = "send" /\ UNCHANGED <<funds, claim, asset, bridge>>
    BY <1>6 DEF Answered
  <2>2. PICK v \in Verdicts(Payload(c)) :
          /\ relay' = [relay EXCEPT ![Payload(c)] = v.state]
          /\ \E there \in AfterAnswer(c, v.answer) : GoTo(c, there)
    BY <1>6 DEF Answered
  <2>3. Taken' = Taken
    BY <1>0, <1>p, <2>2, VerdictTakes
  <2>4. v.answer \in {"OK", "already processed", "refused", "invalid salt"}
    BY <1>0, <1>p, VerdictsType
  <2>5. \/ pc' = [pc EXCEPT ![c] = "settle"] \/ pc' = [pc EXCEPT ![c] = "refused"]
        \/ pc' = [pc EXCEPT ![c] = "refresh"]
    BY <2>2, <2>4 DEF AfterAnswer
  <2> QED
    BY <1>1, <2>1, <2>3, <2>5
<1>7. CASE Settle(c)
  <2>1. \/ pc' = pc \/ pc' = [pc EXCEPT ![c] = "failed"] \/ pc' = [pc EXCEPT ![c] = "watch"]
    BY <1>7 DEF Settle, Wait, Leave
  <2>2. pc[c] = "settle" /\ UNCHANGED <<funds, claim, asset, bridge, Taken>>
    BY <1>2, <1>7 DEF Settle
  <2> QED
    BY <1>1, <2>1, <2>2
<1>8. CASE Watch(c)
  <2>1. pc[c] = "watch" /\ UNCHANGED <<funds, claim, asset, bridge, Taken>>
    BY <1>2, <1>8 DEF Watch
  <2>2. CASE pc' = pc \/ pc' = [pc EXCEPT ![c] = "failed"]
    BY <1>1, <2>1, <2>2
  <2>3. CASE ~(pc' = pc \/ pc' = [pc EXCEPT ![c] = "failed"])
    <3>1. PICK d \in Describe(c) :
            CASE d[1] = "completed"            -> Leave(c, "done")
              [] \/ d[1] = "failed"
                 \/ errors'[c] = MaxWatchErrors -> Leave(c, "failed")
              [] OTHER                         -> Wait(c)
      BY <1>8, <2>3 DEF Watch, Leave
    <3>2. d[1] = "completed" /\ pc' = [pc EXCEPT ![c] = "done"]
      BY <2>3, <3>1 DEF Leave, Wait
    <3>3. FindBridge(asset) # "error"
      BY <1>0, <2>1 DEF ClaimOK, Built
    <3>4. c \in Watched => c \in Delivered
      BY <1>0, <3>2, <3>3, DescribeSound DEF Watched, Delivered
    <3>5. c \in Taken
      BY <1>0, <1>p, <2>1 DEF RelayOK, Taken
    <3>6. UNCHANGED <<Watched, Delivered>>
      BY <2>1 DEF Watched, Delivered
    <3> QED
      BY <1>0, <2>1, <3>2, <3>4, <3>5, <3>6, AbsReport
  <2> QED
    BY <2>2, <2>3
<1> QED
  BY <1>3, <1>4, <1>5, <1>6, <1>7, <1>8 DEF Step

\* Every step is one of RefundClaim, or leaves what RefundClaim speaks of.
LEMMA AbsStep == IInv /\ [Next]_vars => [Abs!Next]_(Abs!vars)
<1> SUFFICES ASSUME IInv, [Next]_vars PROVE [Abs!Next]_(Abs!vars)
  OBVIOUS
<1> USE ConstantsFacts DEF externalVars, history, GoTo, clientVars
<1>0. TypeOK
  BY DEF IInv
<1>1. ASSUME NEW c \in Claims, NEW a \in Accounts, Start(c, a) PROVE [Abs!Next]_(Abs!vars)
  <2>1. /\ pc[c] = "idle" /\ pc' = [pc EXCEPT ![c] = "submit"]
        /\ UNCHANGED <<funds, asset, relay, bridge>>
    BY <1>1 DEF Start
  <2>2. /\ funds[a] # 0 /\ claim' = [claim EXCEPT ![c] = [account |-> a, amount |-> funds[a]]]
    BY <1>1 DEF Start, ListedRefunds
  <2>3. funds[a] > 0
    BY <1>0, <2>2 DEF TypeOK
  <2>4. UNCHANGED <<Watched, Taken, Delivered>>
    BY <2>1 DEF Watched, Taken, Delivered
  <2>5. Outcome[c] = "idle" /\ Outcome' = [Outcome EXCEPT ![c] = "running"]
    <3>1. \A e \in Claims : pc'[e] = IF e = c THEN "submit" ELSE pc[e]
      BY <1>0, <2>1 DEF TypeOK
    <3>2. Outcome[c] = "idle"
      BY <2>1 DEF Outcome
    <3>3. \A e \in Claims : Outcome'[e] = IF e = c THEN "running" ELSE Outcome[e]
      BY <3>1 DEF Outcome
    <3>4. /\ Outcome = [e \in Claims |-> Outcome[e]] /\ Outcome' = [e \in Claims |-> Outcome'[e]]
      BY DEF Outcome
    <3>5. Outcome' = [Outcome EXCEPT ![c] = "running"]
      BY ONLY <3>3, <3>4
    <3> QED
      BY <3>2, <3>5
  <2>6. Abs!Start(c, a)
    BY <2>1, <2>2, <2>3, <2>4, <2>5 DEF Abs!Start
  <2> QED
    BY <2>6 DEF Abs!Next
<1>2. ASSUME NEW a \in Accounts, NEW n \in Amounts, Refund(a, n) PROVE [Abs!Next]_(Abs!vars)
  <2>1. UNCHANGED <<claim, Watched, Taken, Delivered, Outcome>>
    BY <1>2 DEF Refund, Watched, Taken, Delivered, Outcome
  <2>2. Abs!Refund(a, n)
    BY <1>2, <2>1 DEF Refund, Abs!Refund
  <2> QED
    BY <2>2 DEF Abs!Next
<1>3. ASSUME NEW p \in Payloads, LateArrival(p) PROVE [Abs!Next]_(Abs!vars)
  <2>1. Taken' = Taken
    BY <1>0, <1>3, VerdictTakes DEF LateArrival
  <2> QED
    BY <1>3, <2>1, AbsStutter DEF LateArrival
<1>4. ASSUME NEW p \in Payloads, Drop(p) PROVE [Abs!Next]_(Abs!vars)
  <2>1. \A q \in Payloads : relay'[q] = "executed" <=> relay[q] = "executed"
    BY <1>0, <1>4 DEF Drop, TypeOK
  <2>2. Taken' = Taken
    BY <2>1 DEF Taken
  <2> QED
    BY <1>4, <2>2, AbsStutter DEF Drop
<1>5. ASSUME NEW c \in Claims, Deliver(c) PROVE [Abs!Next]_(Abs!vars)
  <2>1. /\ bridge[c] = "pending" /\ UNCHANGED <<pc, funds, asset, claim, relay>>
    BY <1>5 DEF Deliver
  <2>2. PICK end \in {"completed", "canceled"} : bridge' = [bridge EXCEPT ![c] = end]
    BY <1>5 DEF Deliver
  <2>3. UNCHANGED <<Watched, Taken, Outcome>>
    BY <2>1 DEF Watched, Taken, Outcome
  <2>4. c \in Taken
    BY <2>1 DEF IInv, RelayInv, RelayOK, Taken
  <2>5. \A e \in Claims : bridge'[e] = IF e = c THEN end ELSE bridge[e]
    BY <1>0, <2>2 DEF TypeOK
  <2>6. CASE end = "completed"
    <3>1. Delivered' = Delivered \cup {c}
      BY <2>5, <2>6 DEF Delivered
    <3>2. Abs!Deliver(c)
      BY <2>1, <2>3, <2>4, <3>1 DEF Abs!Deliver
    <3> QED
      BY <3>2 DEF Abs!Next
  <2>7. CASE end = "canceled"
    <3>1. Delivered' = Delivered
      BY <2>1, <2>5, <2>7 DEF Delivered
    <3> QED
      BY <2>1, <2>3, <3>1 DEF Abs!vars
  <2> QED
    BY <2>6, <2>7
<1>6. CASE RotateSalt \/ UNCHANGED vars
  <2>1. UNCHANGED <<funds, claim, asset, pc, bridge, relay>>
    BY <1>6 DEF RotateSalt, vars
  <2>2. Taken' = Taken
    BY <2>1 DEF Taken
  <2> QED
    BY <2>1, <2>2, AbsStutter
<1> QED
  BY <1>1, <1>2, <1>3, <1>4, <1>5, <1>6, AbsOwnStep, AbsTake DEF Next, Environment

\* The safety part of ImplementsRefundClaim: a claim takes the amount it listed, from the account
\* it listed, once or never; and it reports success only for a withdrawal that was taken and, on a
\* bridge it can watch, delivered.
THEOREM RefinesRefundClaim == Spec => Abs!Init /\ [][Abs!Next]_(Abs!vars)
<1>1. Init => Abs!Init
  BY AbsInit
<1>2. IInv /\ [Next]_vars => [Abs!Next]_(Abs!vars)
  BY AbsStep
<1> QED
  BY <1>1, <1>2, Inductive, PTL DEF Spec
=============================================================================
