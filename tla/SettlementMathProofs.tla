------------------------ MODULE SettlementMathProofs ------------------------
(***************************************************************************)
(* Proofs about SettlementMath, for any number of investors and any        *)
(* amounts.                                                                *)
(*                                                                         *)
(* The sums are recursive functions, so what holds of them is shown for a  *)
(* least number of terms that would contradict it.                         *)
(***************************************************************************)
EXTENDS SettlementMath, WellFoundedInduction, TLAPS

-----------------------------------------------------------------------------
(* Sums                                                                    *)

\* A set of natural numbers has a least element.
LEMMA Least ==
  ASSUME NEW T \in SUBSET Nat, T # {}
  PROVE  \E x \in T : \A y \in T : x <= y
<1> DEFINE R == {ss \in Nat \X Nat : ss[1] < ss[2]}
<1>1. IsWellFoundedOn(R, Nat)
  BY NatLessThanWellFounded DEF OpToRel
<1> HIDE DEF R
<1>2. PICK x \in T : \A y \in T : ~ (<<y, x>> \in R)
  BY <1>1, WFMin
<1>3. \A y \in T : x <= y
  <2> TAKE y \in T
  <2>1. x \in Nat /\ y \in Nat /\ ~ (<<y, x>> \in R)
    BY <1>2
  <2> QED BY <2>1 DEF R
<1> QED BY <1>3

\* SumTo is the function its definition says it is.
LEMMA SumDef ==
  ASSUME NEW f, NEW n \in Nat
  PROVE  SumTo(f, n) = [k \in 0 .. n |-> IF k = 0 THEN 0 ELSE SumTo(f, n)[k - 1] + f[k]]
<1> DEFINE Upto(s, m) == s = [k \in 0 .. m |-> IF k = 0 THEN 0 ELSE s[k - 1] + f[k]]
           Bad == {m \in Nat : ~ \E s : Upto(s, m)}
<1>1. Bad = {}
  <2> SUFFICES ASSUME Bad # {} PROVE FALSE
    OBVIOUS
  <2>1. PICK m \in Bad : \A y \in Bad : m <= y
    BY Least
  <2>2. m \in Nat
    BY <2>1
  <2>3. CASE m = 0
    <3> DEFINE s == [k \in 0 .. 0 |-> 0]
    <3>1. s = [k \in 0 .. 0 |-> IF k = 0 THEN 0 ELSE s[k - 1] + f[k]]
      <4>1. \A k \in 0 .. 0 : k = 0
        OBVIOUS
      <4> QED BY <4>1
    <3>2. Upto(s, m)
      BY <2>3, <3>1
    <3> QED BY <3>2, <2>1
  <2>4. CASE m > 0
    <3>1. m - 1 \in Nat /\ m - 1 \notin Bad
      BY <2>1, <2>2, <2>4
    <3>2. PICK g : Upto(g, m - 1)
      BY <3>1
    <3> DEFINE s == [k \in 0 .. m |-> IF k = m THEN g[m - 1] + f[m] ELSE g[k]]
    <3>3. \A k \in 0 .. m : s[k] = IF k = 0 THEN 0 ELSE s[k - 1] + f[k]
      <4> TAKE k \in 0 .. m
      <4>0. k \in Int /\ 0 <= k /\ k <= m
        BY <2>2
      <4>1. CASE k = m
        <5>1. m - 1 \in 0 .. m /\ m - 1 # m /\ k # 0
          BY <2>2, <2>4, <4>1
        <5>2. s[k] = g[m - 1] + f[m] /\ s[m - 1] = g[m - 1]
          BY <4>1, <5>1
        <5> QED BY <4>1, <5>1, <5>2
      <4>2. CASE k # m
        <5>1. k \in 0 .. m - 1 /\ s[k] = g[k]
          BY <2>2, <4>0, <4>2
        <5>2. g[k] = IF k = 0 THEN 0 ELSE g[k - 1] + f[k]
          BY <3>2, <5>1
        <5>3. k # 0 => k - 1 \in 0 .. m /\ k - 1 # m
          BY <2>2, <4>0
        <5>4. k # 0 => s[k - 1] = g[k - 1]
          BY <5>3
        <5> QED BY <5>1, <5>2, <5>4
      <4> QED BY <4>1, <4>2
    <3>4. s = [k \in 0 .. m |-> s[k]]
      OBVIOUS
    <3> HIDE DEF s
    <3>5. Upto(s, m)
      BY <3>3, <3>4
    <3> QED BY <3>5, <2>1
  <2> QED BY <2>2, <2>3, <2>4
<1>2. \E s : Upto(s, n)
  BY <1>1
<1> QED BY <1>2 DEF SumTo

\* The sums start at 0, and the next one adds the next term.
LEMMA SumFacts ==
  ASSUME NEW n \in Nat, NEW f
  PROVE  /\ SumTo(f, n)[0] = 0
         /\ \A k \in 1 .. n : SumTo(f, n)[k] = SumTo(f, n)[k - 1] + f[k]
<1> DEFINE s == SumTo(f, n)
<1>1. s = [k \in 0 .. n |-> IF k = 0 THEN 0 ELSE s[k - 1] + f[k]]
  BY SumDef
<1> HIDE DEF s
<1>2. 0 \in 0 .. n
  OBVIOUS
<1>3. s[0] = 0
  BY <1>1, <1>2
<1>4. ASSUME NEW k \in 1 .. n
      PROVE  s[k] = s[k - 1] + f[k]
  <2>1. k \in 0 .. n /\ k # 0
    OBVIOUS
  <2> QED BY <1>1, <2>1
<1> QED BY <1>3, <1>4 DEF s

\* The sums of natural numbers are natural numbers.
LEMMA SumType ==
  ASSUME NEW n \in Nat, NEW f, \A i \in 1 .. n : f[i] \in Nat
  PROVE  \A k \in 0 .. n : SumTo(f, n)[k] \in Nat
<1> DEFINE s == SumTo(f, n)
           Bad == {k \in 0 .. n : s[k] \notin Nat}
<1> HIDE DEF s
<1>1. s[0] = 0 /\ \A k \in 1 .. n : s[k] = s[k - 1] + f[k]
  BY SumFacts DEF s
<1> SUFFICES ASSUME Bad # {} PROVE FALSE
  BY DEF s
<1>2. Bad \in SUBSET Nat
  OBVIOUS
<1>3. PICK m \in Bad : \A y \in Bad : m <= y
  BY <1>2, Least
<1>4. m # 0 /\ m \in 0 .. n /\ m \in Nat
  BY <1>1, <1>3
<1>5. m - 1 \in 0 .. n /\ m \in 1 .. n /\ ~ (m <= m - 1)
  BY <1>4
<1>6. s[m - 1] \in Nat
  BY <1>3, <1>5
<1>7. s[m] = s[m - 1] + f[m] /\ f[m] \in Nat
  BY <1>1, <1>5
<1>8. s[m] \in Nat
  BY <1>6, <1>7
<1> QED BY <1>3, <1>8

-----------------------------------------------------------------------------
(* Floor division                                                          *)

LEMMA Floor ==
  ASSUME NEW x \in Nat, NEW t \in Nat, t > 0
  PROVE  /\ x \div t \in Nat
         /\ t * (x \div t) <= x
         /\ x < t * (x \div t) + t
OBVIOUS

LEMMA Times ==
  ASSUME NEW t \in Nat, NEW x \in Nat, NEW y \in Nat, x <= y
  PROVE  t * x <= t * y /\ t * x \in Nat /\ t * y \in Nat
OBVIOUS

-----------------------------------------------------------------------------
(* The division of the proceeds                                            *)

\* Each return is cut by less than one unit, so a sum of k returns is short of
\* its share by at most k units less k / t.
LEMMA SharesFloored ==
  ASSUME NEW n \in Nat, n > 0, NEW a, \A i \in 1 .. n : a[i] \in Nat,
         NEW d \in Nat, NEW t \in Nat, t > 0, NEW r, \A i \in 1 .. n : r[i] = InvestorReturn(a[i], t, d)
  PROVE  \A k \in 0 .. n :
            /\ SumTo(r, n)[k] \in Nat /\ SumTo(a, n)[k] \in Nat
            /\ t * SumTo(r, n)[k] <= d * SumTo(a, n)[k]
            /\ d * SumTo(a, n)[k] <= t * SumTo(r, n)[k] + k * (t - 1)
<1> DEFINE R == SumTo(r, n)
           S == SumTo(a, n)
           Fits(k) == t * R[k] <= d * S[k] /\ d * S[k] <= t * R[k] + k * (t - 1)
           Bad == {k \in 0 .. n : ~ Fits(k)}
<1>1. ASSUME NEW i \in 1 .. n
      PROVE  r[i] \in Nat /\ t * r[i] <= d * a[i] /\ d * a[i] <= t * r[i] + (t - 1)
  <2>1. a[i] \in Nat /\ a[i] * d \in Nat /\ a[i] * d = d * a[i]
    OBVIOUS
  <2>2. r[i] = (a[i] * d) \div t
    BY DEF InvestorReturn
  <2> DEFINE x == a[i] * d
             q == x \div t
  <2>3. x \in Nat
    BY <2>1
  <2> HIDE DEF x
  <2>4. q \in Nat /\ t * q <= x /\ x < t * q + t
    BY <2>3, Floor
  <2>5. t * q \in Nat
    BY <2>4
  <2>6. x <= t * q + (t - 1)
    BY <2>3, <2>4, <2>5
  <2> QED BY <2>1, <2>2, <2>4, <2>6 DEF x
<1>2. \A k \in 0 .. n : R[k] \in Nat
  BY <1>1, SumType
<1>3. \A k \in 0 .. n : S[k] \in Nat
  BY SumType
<1>4. R[0] = 0 /\ S[0] = 0 /\ \A k \in 1 .. n : R[k] = R[k - 1] + r[k] /\ S[k] = S[k - 1] + a[k]
  BY SumFacts
<1> HIDE DEF R, S
<1>5. Bad = {}
  <2> SUFFICES ASSUME Bad # {} PROVE FALSE
    OBVIOUS
  <2>1. Bad \in SUBSET Nat
    OBVIOUS
  <2>2. PICK m \in Bad : \A y \in Bad : m <= y
    BY <2>1, Least
  <2>3. m \in 0 .. n /\ m \in Nat /\ ~ Fits(m)
    BY <2>1, <2>2
  <2>4. m # 0
    BY <1>4, <2>3
  <2>5. m - 1 \in 0 .. n /\ m \in 1 .. n /\ ~ (m <= m - 1)
    BY <2>3, <2>4
  <2>6. Fits(m - 1)
    BY <2>2, <2>5
  <2> DEFINE u == R[m - 1]
             v == S[m - 1]
  <2>7. u \in Nat /\ v \in Nat /\ r[m] \in Nat /\ a[m] \in Nat /\ m - 1 \in Nat
    BY <1>1, <1>2, <1>3, <2>5
  <2>8. R[m] = u + r[m] /\ S[m] = v + a[m]
    BY <1>4, <2>5
  <2>9. t * u <= d * v /\ d * v <= t * u + (m - 1) * (t - 1)
    BY <2>6
  <2>10. t * r[m] <= d * a[m] /\ d * a[m] <= t * r[m] + (t - 1)
    BY <1>1, <2>5
  <2> HIDE DEF u, v
  <2>11. t * (u + r[m]) = t * u + t * r[m] /\ d * (v + a[m]) = d * v + d * a[m]
    BY <2>7
  <2>12. (m - 1) * (t - 1) + (t - 1) = m * (t - 1)
    BY <2>3
  <2>13. t * u \in Nat /\ d * v \in Nat /\ t * r[m] \in Nat /\ d * a[m] \in Nat
         /\ (m - 1) * (t - 1) \in Int /\ m * (t - 1) \in Int
    BY <2>3, <2>7
  <2>14. t * (u + r[m]) <= d * (v + a[m])
    BY <2>9, <2>10, <2>11, <2>13
  <2>15. d * (v + a[m]) <= t * (u + r[m]) + m * (t - 1)
    BY <2>9, <2>10, <2>11, <2>12, <2>13
  <2>16. Fits(m)
    BY <2>8, <2>14, <2>15
  <2> QED BY <2>3, <2>16
<1> QED BY <1>2, <1>3, <1>5 DEF R, S

LEMMA FeeFacts ==
  ASSUME NEW p \in Nat, NEW b \in 0 .. FullFee
  PROVE  /\ FeeOf(p, b) \in 0 .. p
         /\ Distributable(p, b) \in 0 .. p
         /\ p * b = FullFee * FeeOf(p, b) + FeeRest(p, b)
         /\ FeeRest(p, b) \in 0 .. FullFee - 1
<1>1. p * b \in Nat /\ p * b <= p * 10000
  BY Times DEF FullFee
<1> DEFINE x == p * b
<1> HIDE DEF x
<1>2. /\ x \in Nat /\ x <= p * 10000
      /\ FeeOf(p, b) = x \div 10000 /\ FeeRest(p, b) = x % 10000
  BY <1>1 DEF x, FeeOf, FeeRest, FullFee
<1>3. x \div 10000 \in Nat /\ x % 10000 \in 0 .. 9999 /\ x % 10000 = x - 10000 * (x \div 10000)
  <2>1. x \in Nat
    BY <1>2
  <2> QED BY <2>1
<1>4. x \div 10000 <= p
  BY <1>2, <1>3
<1> QED BY <1>2, <1>3, <1>4 DEF x, FullFee, Distributable

LEMMA DistributableType ==
  ASSUME NEW p \in Nat, NEW b \in 0 .. FullFee
  PROVE  Distributable(p, b) \in Nat
<1>1. Distributable(p, b) \in 0 .. p
  BY FeeFacts
<1> QED BY <1>1

\* The investors together never get more than the proceeds less the fee, and the
\* remainder that settleInvoice records is less than one unit for each of them.
THEOREM NothingOverpaid ==
  ASSUME NEW n \in Nat, n > 0, NEW a \in [1 .. n -> Nat], Total(a, n) > 0,
         NEW p \in Nat, NEW b \in 0 .. FullFee
  PROVE  Remainder(a, n, p, b) \in 0 .. n - 1
<1> DEFINE d == Distributable(p, b)
           t == Total(a, n)
           r == Returns(a, n, p, b)
           R == Total(r, n)
<1>1. d \in Nat
  BY DistributableType
<1>2. t \in Nat
  <2>1. \A i \in 1 .. n : a[i] \in Nat
    OBVIOUS
  <2>2. n \in 0 .. n
    OBVIOUS
  <2> QED BY <2>1, <2>2, SumType DEF Total
<1>3. \A i \in 1 .. n : a[i] \in Nat /\ r[i] = InvestorReturn(a[i], t, d)
  BY DEF Returns
<1>4. Remainder(a, n, p, b) = d - R
  BY DEF Remainder
<1>5. t > 0
  OBVIOUS
<1> HIDE DEF d, t, r
<1>6. R \in Nat /\ t * R <= d * t /\ d * t <= t * R + n * (t - 1)
  <2>1. n \in 0 .. n
    OBVIOUS
  <2>2. SumTo(a, n)[n] = t
    BY DEF t, Total
  <2>3. /\ SumTo(r, n)[n] \in Nat
        /\ t * SumTo(r, n)[n] <= d * SumTo(a, n)[n]
        /\ d * SumTo(a, n)[n] <= t * SumTo(r, n)[n] + n * (t - 1)
    BY <1>1, <1>2, <1>3, <1>5, <2>1, SharesFloored
  <2> QED BY <2>2, <2>3 DEF Total
<1> HIDE DEF R
<1>7. R <= d
  <2> SUFFICES ASSUME d + 1 <= R PROVE FALSE
    BY <1>1, <1>6
  <2>1. t * (d + 1) <= t * R
    BY <1>1, <1>2, <1>6, Times
  <2>2. t * (d + 1) = d * t + t /\ d * t \in Nat /\ t * R \in Nat
    BY <1>1, <1>2, <1>6
  <2> QED BY <1>2, <1>5, <1>6, <2>1, <2>2
<1>8. d - R < n
  <2> SUFFICES ASSUME R + n <= d PROVE FALSE
    BY <1>1, <1>6
  <2>1. t * (R + n) <= t * d
    BY <1>1, <1>2, <1>6, Times
  <2>2. /\ t * (R + n) = t * R + t * n /\ t * d = d * t /\ n * (t - 1) = t * n - n
        /\ t * R \in Nat /\ t * n \in Nat /\ d * t \in Nat
    BY <1>1, <1>2, <1>6
  <2> QED BY <1>6, <2>1, <2>2
<1> QED BY <1>1, <1>4, <1>6, <1>7, <1>8

\* distributePayouts takes the fee again, from the proceeds in stroops: what
\* prepareSettlementIntent computed passes its check exactly when the division
\* left something over or the fee is whole at four decimals but for a stroop.
THEOREM AcceptedExactly ==
  ASSUME NEW n \in Nat, n > 0, NEW a \in [1 .. n -> Nat], Total(a, n) > 0,
         NEW p \in Nat, NEW b \in 0 .. FullFee
  PROVE  Payable(a, n, p, b) <=> Remainder(a, n, p, b) > 0 \/ FeeRest(p, b) < 10
<1> DEFINE rem == Remainder(a, n, p, b)
           fee == FeeOf(p, b)
           rest == FeeRest(p, b)
           R == Total(Returns(a, n, p, b), n)
<1>1. rem \in Nat
  BY NothingOverpaid
<1>2. fee \in Nat /\ rest \in 0 .. 9999 /\ p * b = 10000 * fee + rest
  <2>1. fee \in 0 .. p /\ p * b = FullFee * fee + rest /\ rest \in 0 .. FullFee - 1
    BY FeeFacts
  <2> HIDE DEF fee, rest
  <2> QED BY <2>1 DEF FullFee
<1>3. rem = p - fee - R
  BY DEF Remainder, Distributable
<1>4. R \in Int
  <2>1. \A i \in 1 .. n : Returns(a, n, p, b)[i] \in Nat
    <3> TAKE i \in 1 .. n
    <3>1. Distributable(p, b) \in Nat
      BY DistributableType
    <3>2. a[i] * Distributable(p, b) \in Nat
      BY <3>1
    <3>3. Total(a, n) \in Nat
      <4>1. n \in 0 .. n
        OBVIOUS
      <4>2. \A j \in 1 .. n : a[j] \in Nat
        OBVIOUS
      <4> QED BY <4>1, <4>2, SumType DEF Total
    <3>4. (a[i] * Distributable(p, b)) \div Total(a, n) \in Nat
      BY <3>2, <3>3, Floor
    <3> QED BY <3>4 DEF Returns, InvestorReturn
  <2>2. n \in 0 .. n
    OBVIOUS
  <2> QED BY <2>1, <2>2, SumType DEF Total
<1>5. FeeOf(p * Stroops, b) = (10000000 * fee + 1000 * rest) \div 10000
  <2>1. (p * 1000) * b = 1000 * (p * b)
    OBVIOUS
  <2> HIDE DEF fee, rest
  <2>2. (p * 1000) * b = 10000000 * fee + 1000 * rest
    <3>1. 1000 * (10000 * fee + rest) = 10000000 * fee + 1000 * rest
      BY <1>2
    <3> QED BY <1>2, <2>1, <3>1
  <2> QED BY <2>2 DEF FeeOf, Stroops, FullFee
<1>6. Payable(a, n, p, b) <=> R * 1000 + FeeOf(p * Stroops, b) <= p * 1000
  BY DEF Payable, Stroops
<1> HIDE DEF rem, fee, rest, R
<1>7. (10000000 * fee + 1000 * rest) \div 10000 = 1000 * fee + rest \div 10
  BY <1>2
<1>8. rest \div 10 \in 0 .. 999 /\ (rest \div 10 = 0 <=> rest < 10)
  BY <1>2
<1>9. R * 1000 + 1000 * fee + rest \div 10 <= p * 1000 <=> rest \div 10 <= 1000 * rem
  BY <1>1, <1>2, <1>3, <1>4, <1>8
<1>10. rest \div 10 <= 1000 * rem <=> rem > 0 \/ rest < 10
  <2> DEFINE q == rest \div 10
  <2>1. q \in 0 .. 999 /\ (q = 0 <=> rest < 10)
    BY <1>8
  <2> HIDE DEF q
  <2>2. q <= 1000 * rem <=> rem > 0 \/ q = 0
    BY <1>1, <2>1
  <2>3. q <= 1000 * rem <=> rem > 0 \/ rest < 10
    BY <2>1, <2>2
  <2> QED BY <2>3 DEF q
<1>11. Payable(a, n, p, b) <=> rem > 0 \/ rest < 10
  BY <1>2, <1>4, <1>5, <1>6, <1>7, <1>8, <1>9, <1>10
<1> QED BY <1>11 DEF rem, rest

-----------------------------------------------------------------------------
(* Decimal strings                                                         *)

LEMMA FourDigits ==
  ASSUME NEW x \in Nat
  PROVE  x = 1000 * (x \div 1000) + 100 * ((x \div 100) % 10) + 10 * ((x \div 10) % 10) + (x % 10)
<1> DEFINE p == x \div 10
           q == x \div 100
           r == x \div 1000
           e == q % 10
           g == p % 10
           h == x % 10
<1>1. p \in Nat /\ q \in Nat /\ r \in Nat
  OBVIOUS
<1>2. h \in Int /\ h = x - 10 * p
  OBVIOUS
<1>3. p \div 10 = q
  OBVIOUS
<1>4. q \div 10 = r
  OBVIOUS
<1> HIDE DEF p, q, r
<1>5. g \in Int /\ g = p - 10 * q
  BY <1>1, <1>3
<1>6. e \in Int /\ e = q - 10 * r
  BY <1>1, <1>4
<1> HIDE DEF e, g, h
<1>7. x = 1000 * r + 100 * e + 10 * g + h
  BY <1>1, <1>2, <1>5, <1>6
<1> QED BY <1>7 DEF p, q, r, e, g, h

LEMMA WholeAndRest ==
  ASSUME NEW u \in Nat
  PROVE  u \div 10000 \in Nat /\ u % 10000 \in Nat /\ u = (u \div 10000) * 10000 + (u % 10000)
<1> DEFINE w == u \div 10000
           x == u % 10000
<1>1. w \in Nat /\ x \in Nat /\ x = u - 10000 * w
  OBVIOUS
<1> HIDE DEF w, x
<1>2. u = w * 10000 + x
  BY <1>1
<1> QED BY <1>1, <1>2 DEF w, x

\* An amount written as a decimal string and read again is the same amount.
THEOREM DecimalsRoundTrip == \A v \in Int : Scaled(Decimal(v)) = v
<1> TAKE v \in Int
<1> DEFINE u == IF v < 0 THEN 0 - v ELSE v
           negative == v < 0
           w == u \div 10000
           x == u % 10000
           c1 == x \div 1000
           c2 == (x \div 100) % 10
           c3 == (x \div 10) % 10
           c4 == x % 10
<1>1. Decimal(v) = [negative |-> negative, whole |-> w, fraction |-> <<c1, c2, c3, c4>>]
  BY DEF Decimal, Scale
<1>2. u \in Nat /\ negative \in BOOLEAN /\ v = IF negative THEN 0 - u ELSE u
  OBVIOUS
<1> HIDE DEF u, negative
<1>3. w \in Nat /\ x \in Nat /\ u = w * 10000 + x
  BY <1>2, WholeAndRest
<1> HIDE DEF w, x
<1>4. x = 1000 * c1 + 100 * c2 + 10 * c3 + c4
  BY <1>3, FourDigits
<1>5. c1 \in Int /\ c2 \in Int /\ c3 \in Int /\ c4 \in Int
  BY <1>3
<1> HIDE DEF c1, c2, c3, c4
<1>6. u = w * 10000 + (1000 * c1 + 100 * c2 + 10 * c3 + c4)
  BY <1>3, <1>4
<1> DEFINE c == <<c1, c2, c3, c4>>
           s == [negative |-> negative, whole |-> w, fraction |-> c]
<1>7. /\ c[1] = c1 /\ c[2] = c2 /\ c[3] = c3 /\ c[4] = c4
      /\ 1 \in DOMAIN c /\ 2 \in DOMAIN c /\ 3 \in DOMAIN c /\ 4 \in DOMAIN c
  OBVIOUS
<1>8. Decimal(v) = s
  BY <1>1
<1> HIDE DEF c
<1>9. Scaled(s) = LET y == w * 10000 + 1000 * c1 + 100 * c2 + 10 * c3 + c4
                  IN  IF negative THEN 0 - y ELSE y
  BY <1>7 DEF Scaled, Scale
<1>10. w * 10000 + 1000 * c1 + 100 * c2 + 10 * c3 + c4 = u
  BY <1>2, <1>3, <1>5, <1>6
<1> QED BY <1>2, <1>8, <1>9, <1>10

=============================================================================
