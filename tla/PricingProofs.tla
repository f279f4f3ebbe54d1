---------------------------- MODULE PricingProofs ----------------------------
(***************************************************************************)
(* What pricing.multiply promises of any quantity and any price.           *)
(***************************************************************************)
EXTENDS Pricing, TLAPS

\* Go's division truncates: the quotient and what is left of the product.
LEMMA QuoFacts ==
  ASSUME NEW x \in Int, NEW d \in Nat \ {0}
  PROVE  /\ Quo(x, d) \in Int
         /\ x >= 0 => 0 <= x - Quo(x, d) * d /\ x - Quo(x, d) * d < d
         /\ x < 0 => -d < x - Quo(x, d) * d /\ x - Quo(x, d) * d <= 0
<1>1. ASSUME NEW y \in Nat
      PROVE  (y \div d) \in Int /\ 0 <= y - (y \div d) * d /\ y - (y \div d) * d < d
  <2>1. y = d * (y \div d) + (y % d) /\ y % d \in 0 .. d - 1 /\ (y \div d) \in Int
    BY SMT
  <2> DEFINE q == y \div d
             r == y % d
  <2>2. q \in Int /\ r \in Int /\ y = d * q + r /\ 0 <= r /\ r < d
    BY <2>1
  <2> HIDE DEF q, r
  <2>3. y - q * d = r
    BY <2>2
  <2> QED BY <2>2, <2>3 DEF q
<1>2. CASE x >= 0
  <2>1. x \in Nat /\ Quo(x, d) = x \div d BY <1>2 DEF Quo
  <2> QED BY <1>1, <1>2, <2>1
<1>3. CASE x < 0
  <2>1. -x \in Nat /\ Quo(x, d) = -((-x) \div d) BY <1>3 DEF Quo
  <2> DEFINE q == (-x) \div d
  <2>2. q \in Int /\ 0 <= -x - q * d /\ -x - q * d < d BY <1>1, <2>1
  <2>3. Quo(x, d) = -q BY <2>1
  <2> HIDE DEF q
  <2>4. x - (-q) * d = -(-x - q * d) BY <2>2
  <2> QED BY <1>3, <2>2, <2>3, <2>4
<1> QED BY <1>2, <1>3

-----------------------------------------------------------------------------
\* The product is rounded to a nearest unit, a half away from zero.
Rounds(product, m) ==
  /\ m \in Int
  /\ product >= 0 => /\ 2 * (product - QuantityFactor * m) < QuantityFactor
                     /\ 2 * (QuantityFactor * m - product) <= QuantityFactor
  /\ product < 0 => /\ 2 * (product - QuantityFactor * m) <= QuantityFactor
                    /\ 2 * (QuantityFactor * m - product) < QuantityFactor

LEMMA RoundedProduct ==
  ASSUME NEW quantity \in Int, NEW unitPrice \in Int
  PROVE  \E m \in Int : /\ Rounds(quantity * unitPrice, m)
                        /\ Multiply(quantity, unitPrice) = IF m \in Int64 THEN m ELSE Overflow
<1> DEFINE product   == quantity * unitPrice
           quotient  == Quo(product, QuantityFactor)
           remainder == product - quotient * QuantityFactor
           away      == IF product < 0 THEN -1 ELSE 1
           m         == quotient + IF 2 * Abs(remainder) >= QuantityFactor THEN away ELSE 0
<1>1. product \in Int /\ QuantityFactor \in Nat \ {0} BY FactorAssumption
<1>2. Multiply(quantity, unitPrice) = IF m \in Int64 THEN m ELSE Overflow
  BY DEF Multiply
<1>3. /\ quotient \in Int
      /\ product >= 0 => 0 <= remainder /\ remainder < QuantityFactor
      /\ product < 0 => -QuantityFactor < remainder /\ remainder <= 0
  <2> HIDE DEF product
  <2> QED BY <1>1, QuoFacts
<1>4. Rounds(product, m)
  <2> DEFINE qf == quotient * QuantityFactor
  <2>1. qf \in Int /\ remainder = product - qf BY <1>1, <1>3
  <2> HIDE DEF product, quotient
  <2>2. QuantityFactor * quotient = qf /\ QuantityFactor * (quotient + 1) = qf + QuantityFactor
        /\ QuantityFactor * (quotient - 1) = qf - QuantityFactor
    BY <1>1, <1>3
  <2> HIDE DEF qf
  <2>3. CASE product >= 0
    <3>1. Abs(remainder) = remainder BY <1>1, <1>3, <2>1, <2>3 DEF Abs
    <3>2. CASE 2 * remainder >= QuantityFactor
      <4>1. m = quotient + 1 BY <1>1, <1>3, <2>3, <3>1, <3>2
      <4> QED BY <1>1, <1>3, <2>1, <2>2, <2>3, <3>2, <4>1 DEF Rounds
    <3>3. CASE 2 * remainder < QuantityFactor
      <4>1. m = quotient BY <1>1, <1>3, <2>1, <2>3, <3>1, <3>3
      <4> QED BY <1>1, <1>3, <2>1, <2>2, <2>3, <3>3, <4>1 DEF Rounds
    <3> QED BY <1>1, <2>1, <3>2, <3>3
  <2>4. CASE product < 0
    <3>1. Abs(remainder) = -remainder BY <1>1, <1>3, <2>1, <2>4 DEF Abs
    <3>2. CASE -2 * remainder >= QuantityFactor
      <4>1. m = quotient - 1 BY <1>1, <1>3, <2>1, <2>4, <3>1, <3>2, SMTT(30)
      <4> QED BY <1>1, <1>3, <2>1, <2>2, <2>4, <3>2, <4>1, SMTT(30) DEF Rounds
    <3>3. CASE -2 * remainder < QuantityFactor
      <4>1. m = quotient BY <1>1, <1>3, <2>1, <2>4, <3>1, <3>3, SMTT(30)
      <4> QED BY <1>1, <1>3, <2>1, <2>2, <2>4, <3>3, <4>1, SMTT(30) DEF Rounds
    <3> QED BY <1>1, <2>1, <3>2, <3>3
  <2> QED BY <1>1, <2>3, <2>4
<1>5. m \in Int BY <1>4 DEF Rounds
<1> HIDE DEF m
<1> QED BY <1>2, <1>4, <1>5

(***************************************************************************)
(* A flat price is off by half a unit at most, for every quantity and unit *)
(* price whose amount fits: big.Int loses nothing and the check into int64 *)
(* lets nothing else through.                                              *)
(***************************************************************************)
THEOREM FlatPriceWithinRounding ==
  ASSUME NEW price, price.model = "flat", price.unitPrice \in Int,
         NEW quantity \in Int, ~ Failed(ApplyPrice(price, quantity))
  PROVE  WithinRounding(price, quantity, ApplyPrice(price, quantity))
<1>1. ApplyPrice(price, quantity) = Multiply(quantity, price.unitPrice) BY DEF ApplyPrice
<1>2. PICK m \in Int : /\ Rounds(quantity * price.unitPrice, m)
                       /\ Multiply(quantity, price.unitPrice) = IF m \in Int64 THEN m ELSE Overflow
  BY RoundedProduct, Zenon
<1>3. ApplyPrice(price, quantity) = m
  BY <1>1, <1>2, HalfAssumption DEF Failed, Overflow, Int64
<1> DEFINE exact == quantity * price.unitPrice
           fm    == QuantityFactor * m
<1>4. exact \in Int /\ fm \in Int /\ QuantityFactor \in Nat BY FactorAssumption
<1>5. ExactPrice(price, quantity) = exact
  BY DEF ExactPrice
<1>6. 2 * (exact - fm) <= QuantityFactor /\ 2 * (fm - exact) <= QuantityFactor
  <2>1. Rounds(exact, m) BY <1>2
  <2> HIDE DEF exact
  <2>2. /\ exact >= 0 => 2 * (exact - fm) < QuantityFactor /\ 2 * (fm - exact) <= QuantityFactor
        /\ exact < 0 => 2 * (exact - fm) <= QuantityFactor /\ 2 * (fm - exact) < QuantityFactor
    BY <2>1 DEF Rounds
  <2> HIDE DEF fm
  <2> QED BY <1>4, <2>2
<1>7. 2 * Abs(fm - exact) <= QuantityFactor
  <2> HIDE DEF exact, fm
  <2> QED BY <1>4, <1>6 DEF Abs
<1> QED BY <1>3, <1>4, <1>5, <1>7 DEF WithinRounding

-----------------------------------------------------------------------------
\* Of two products the larger is not rounded to less.
LEMMA RoundsInOrder ==
  ASSUME NEW x \in Nat, NEW y \in Nat, x <= y, NEW m \in Int, NEW k \in Int, Rounds(x, m), Rounds(y, k)
  PROVE  m <= k
<1> DEFINE f  == QuantityFactor
           fm == f * m
           fk == f * k
<1>1. f \in Nat \ {0} /\ fm \in Int /\ fk \in Int BY FactorAssumption
<1>2. 2 * (fm - x) <= f /\ 2 * (y - fk) < f BY DEF Rounds
<1>3. SUFFICES ASSUME m >= k + 1 PROVE FALSE OBVIOUS
<1>4. fm >= fk + f
  <2> DEFINE more == m - k - 1
  <2>1. more \in Nat BY <1>3
  <2>2. m = k + 1 + more BY <1>3
  <2> HIDE DEF more
  <2>3. f * more \in Nat BY <1>1, <2>1
  <2>4. fm = fk + f + f * more BY <1>1, <2>1, <2>2
  <2> HIDE DEF fm, fk, f
  <2> QED BY <1>1, <2>3, <2>4
<1> HIDE DEF fm, fk, f
<1> QED BY <1>1, <1>2, <1>4

(***************************************************************************)
(* Rounding never makes more usage cost less, and an amount that fits is   *)
(* never followed, for less usage, by one that does not: applyPrice under  *)
(* a flat price is monotone in the quantity.                               *)
(***************************************************************************)
THEOREM FlatPriceGrowsWithUsage ==
  ASSUME NEW price, price.model = "flat", price.unitPrice \in Nat,
         NEW less \in Nat, NEW more \in Nat, less <= more, ~ Failed(ApplyPrice(price, more))
  PROVE  /\ ~ Failed(ApplyPrice(price, less))
         /\ ApplyPrice(price, less) <= ApplyPrice(price, more)
<1> DEFINE unit == price.unitPrice
<1>0. less \in Int /\ more \in Int /\ unit \in Int OBVIOUS
<1>1. /\ ApplyPrice(price, less) = Multiply(less, unit)
      /\ ApplyPrice(price, more) = Multiply(more, unit)
  BY DEF ApplyPrice
<1>2. PICK m \in Int : /\ Rounds(less * unit, m)
                       /\ Multiply(less, unit) = IF m \in Int64 THEN m ELSE Overflow
  BY <1>0, RoundedProduct, Zenon
<1>3. PICK k \in Int : /\ Rounds(more * unit, k)
                       /\ Multiply(more, unit) = IF k \in Int64 THEN k ELSE Overflow
  BY <1>0, RoundedProduct, Zenon
<1>4. less * unit \in Nat /\ more * unit \in Nat /\ less * unit <= more * unit
  <2> DEFINE rest == more - less
  <2>1. rest \in Nat /\ more = less + rest OBVIOUS
  <2> HIDE DEF rest
  <2>2. rest * unit \in Nat /\ less * unit \in Nat BY <2>1
  <2>3. more * unit = less * unit + rest * unit BY <2>1
  <2> QED BY <2>2, <2>3
<1>5. m <= k BY <1>2, <1>3, <1>4, RoundsInOrder
<1>6. m >= 0
  <2> DEFINE x == less * unit
             f == QuantityFactor
             fm == f * m
  <2>1. x \in Nat /\ f \in Nat \ {0} /\ 2 * (x - fm) < f BY <1>2, <1>4, FactorAssumption DEF Rounds
  <2>2. SUFFICES ASSUME m <= -1 PROVE FALSE OBVIOUS
  <2> DEFINE below == -1 - m
  <2>3. below \in Nat /\ m = -1 - below BY <2>2
  <2> HIDE DEF below, x, f
  <2>4. f * below \in Nat BY <2>1, <2>3
  <2>5. fm = -f - f * below BY <2>1, <2>3
  <2> HIDE DEF fm
  <2> QED BY <2>1, <2>4, <2>5
<1>7. k \in Int64 BY <1>1, <1>3, HalfAssumption DEF Failed, Overflow, Int64
<1>8. m \in Int64 BY <1>5, <1>6, <1>7, HalfAssumption DEF Int64
<1> QED BY <1>1, <1>2, <1>3, <1>5, <1>7, <1>8, SMTT(30) DEF Failed

=============================================================================
