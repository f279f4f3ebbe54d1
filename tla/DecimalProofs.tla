---------------------------- MODULE DecimalProofs ----------------------------
(***************************************************************************)
(* Parsing is exact for every width, every scale and every text.           *)
(***************************************************************************)
EXTENDS Decimal, FiniteSetTheorems, SequenceTheorems, TLAPS

\* What a wrapped result has in common with the exact one.
LEMMA WrapFacts ==
  ASSUME NEW x \in Int
  PROVE  /\ Wrap(x) \in Int64
         /\ \E k \in Int : Wrap(x) = x - 2 * Half * k
PROOF
  <1> DEFINE d == 2 * Half
             y == x + Half
  <1>1. d \in Nat /\ d > 0 /\ y \in Int
    BY HalfAssumption
  <1>2. /\ y % d \in 0 .. d - 1
        /\ y = d * (y \div d) + (y % d)
        /\ y \div d \in Int
    BY <1>1, SMT
  <1>3. Wrap(x) = (y % d) - Half
    BY DEF Wrap
  <1>4. Wrap(x) \in Int64
    BY <1>2, <1>3, HalfAssumption DEF Int64
  <1>5. Wrap(x) = x - 2 * Half * (y \div d)
    BY <1>1, <1>2, <1>3, HalfAssumption
  <1> QED
    BY <1>2, <1>4, <1>5

\* A number that fits is not changed.
LEMMA WrapFits ==
  ASSUME NEW x \in Int64
  PROVE  Wrap(x) = x
PROOF
  <1>0. x \in Int
    BY HalfAssumption DEF Int64
  <1>1. PICK k \in Int : Wrap(x) = x - 2 * Half * k
    BY <1>0, WrapFacts, Zenon
  <1>2. Wrap(x) \in Int64 /\ x \in Int
    BY <1>0, WrapFacts, Zenon
  <1>3. CASE k >= 1
    <2>1. 2 * Half * k >= 2 * Half
      BY <1>3, HalfAssumption
    <2> QED
      BY <1>1, <1>2, <2>1, HalfAssumption DEF Int64
  <1>4. CASE k <= -1
    <2>1. 2 * Half * k <= -(2 * Half)
      BY <1>4, HalfAssumption
    <2> QED
      BY <1>1, <1>2, <2>1, HalfAssumption DEF Int64
  <1>5. CASE k = 0
    BY <1>1, <1>2, <1>5, HalfAssumption
  <1> QED
    BY <1>3, <1>4, <1>5

\* A number that is too large comes back smaller, by the width at least.
LEMMA WrapOver ==
  ASSUME NEW x \in Int, x >= Half
  PROVE  Wrap(x) \in Int64 /\ Wrap(x) <= x - 2 * Half
PROOF
  <1>1. PICK k \in Int : Wrap(x) = x - 2 * Half * k
    BY WrapFacts
  <1>2. Wrap(x) \in Int64
    BY WrapFacts
  <1>3. CASE k >= 1
    <2>1. 2 * Half * k >= 2 * Half
      BY <1>3, HalfAssumption
    <2> QED
      BY <1>1, <1>2, <2>1, HalfAssumption DEF Int64
  <1>4. CASE k <= 0
    <2>1. 2 * Half * k <= 0
      BY <1>4, HalfAssumption
    <2> QED
      BY <1>1, <1>2, <2>1, HalfAssumption DEF Int64
  <1> QED
    BY <1>3, <1>4

-----------------------------------------------------------------------------
(***************************************************************************)
(* Add is exact or an error, for every width: what Amount.Add and          *)
(* Quantity.Add return is the sum itself whenever it fits, and the         *)
(* overflow error whenever it does not.                                    *)
(***************************************************************************)
THEOREM AddIsExact ==
  ASSUME NEW a \in Int64, NEW b \in Int64
  PROVE  Add(a, b) = IF a + b \in Int64 THEN a + b ELSE Overflow
PROOF
  <1>. a \in Int /\ b \in Int
    BY HalfAssumption DEF Int64
  <1>0. PICK s \in Int : s = a + b
    OBVIOUS
  <1>1. CASE s \in Int64
    BY <1>0, <1>1, WrapFits, HalfAssumption DEF Add
  <1>2. CASE s >= Half
    <2>1. Wrap(s) \in Int64 /\ Wrap(s) <= s - 2 * Half
      BY <1>0, <1>2, WrapOver, Zenon
    <2>2. b > 0 /\ Wrap(s) < a
      BY <1>0, <1>2, <2>1, HalfAssumption DEF Int64
    <2> QED
      BY <1>0, <1>2, <2>2, HalfAssumption DEF Add, Int64
  <1>3. CASE s < -Half
    <2>1. PICK k \in Int : Wrap(s) = s - 2 * Half * k
      BY <1>0, WrapFacts, Zenon
    <2>2. Wrap(s) \in Int64
      BY <1>0, WrapFacts, Zenon
    <2>3. k <= -1
      <3>1. CASE k >= 0
        <4>1. 2 * Half * k >= 0
          BY <3>1, HalfAssumption
        <4> QED
          BY <1>0, <1>3, <2>1, <2>2, <4>1, HalfAssumption DEF Int64
      <3> QED
        BY <3>1
    <2>4. 2 * Half * k <= -(2 * Half)
      BY <2>3, HalfAssumption
    <2>5. b < 0 /\ Wrap(s) > a
      BY <1>0, <1>3, <2>1, <2>2, <2>4, HalfAssumption DEF Int64
    <2> QED
      BY <1>0, <1>3, <2>5, HalfAssumption DEF Add, Int64
  <1> QED
    BY <1>0, <1>1, <1>2, <1>3, HalfAssumption DEF Int64

-----------------------------------------------------------------------------
(* Cutting a text at its point. *)

LEMMA BeforePointType ==
  ASSUME NEW b \in Seq(Characters)
  PROVE  BeforePoint(b) \in 0 .. Len(b)
PROOF
  <1> DEFINE S == {j \in DOMAIN b : \A l \in 1 .. j : b[l] # Dot}
  <1>1. Len(b) \in Nat /\ DOMAIN b = 1 .. Len(b)
    OBVIOUS
  <1>2. IsFiniteSet(1 .. Len(b)) /\ Cardinality(1 .. Len(b)) = Len(b)
    BY <1>1, FS_Interval, SMTT(30)
  <1>3. S \subseteq 1 .. Len(b)
    BY <1>1
  <1>4. IsFiniteSet(S) /\ Cardinality(S) <= Len(b)
    BY <1>2, <1>3, FS_Subset
  <1>5. Cardinality(S) \in Nat
    BY <1>4, FS_CardinalityType
  <1> QED
    BY <1>1, <1>4, <1>5 DEF BeforePoint

LEMMA PartsType ==
  ASSUME NEW b \in Seq(Characters)
  PROVE  IntegerPart(b) \in Seq(Characters) /\ FractionPart(b) \in Seq(Characters)
PROOF
  <1>1. BeforePoint(b) \in 0 .. Len(b) /\ Len(b) \in Nat
    BY BeforePointType
  <1>2. \A j \in 1 .. BeforePoint(b) : b[j] \in Characters
    BY <1>1
  <1>3. \A j \in BeforePoint(b) + 2 .. Len(b) : b[j] \in Characters
    BY <1>1
  <1>4. IntegerPart(b) \in Seq(Characters)
    BY <1>1, <1>2, SubSeqProperties DEF IntegerPart
  <1>5. FractionPart(b) \in Seq(Characters)
    BY <1>1, <1>3, SubSeqProperties DEF FractionPart
  <1> QED
    BY <1>4, <1>5

LEMMA BodyType ==
  ASSUME NEW t \in Seq(Characters)
  PROVE  Body(t) \in Seq(Characters)
PROOF
  BY HeadTailProperties DEF Body, HasSign

\* The padded fraction has as many digits as the scale says.
LEMMA PadType ==
  ASSUME NEW s \in Seq(Characters), NEW k \in Kinds, Len(s) <= Scale[k]
  PROVE  Pad(s, k) \in Seq(Characters) /\ Len(Pad(s, k)) = Scale[k]
PROOF
  <1>1. Scale[k] \in Nat /\ Len(s) \in Nat
    BY ScaleAssumption, SMTT(30)
  <1> DEFINE z == [j \in 1 .. Scale[k] - Len(s) |-> 0]
  <1>2. z \in Seq(Characters) /\ Len(z) = Scale[k] - Len(s)
    BY <1>1 DEF Characters, Digits
  <1> HIDE DEF z
  <1>3. s \o z \in Seq(Characters) /\ Len(s \o z) = Len(s) + Len(z)
    BY <1>2
  <1> QED
    BY <1>1, <1>2, <1>3 DEF Pad, z

-----------------------------------------------------------------------------
(* The inductive invariant. *)

ParseType ==
  /\ pc \in {"idle", "split", "whole", "fraction"} \cup Answers
  /\ text \in Seq(Characters) /\ into \in Kinds /\ negative \in BOOLEAN
  /\ digits \in Seq(Characters) /\ padded \in Seq(Characters)
  /\ at \in Nat \ {0} /\ n \in 0 .. Half - 1 /\ whole \in 0 .. Half - 1
  /\ value \in Int /\ units \in Nat /\ numeral \in Nat

(***************************************************************************)
(* parseDigits' number x is the exact y, or an overflow went unseen: then  *)
(* y is out of range, and x is at least two ninths of the range, because   *)
(* the wrapped number was not smaller than the one before.                 *)
(***************************************************************************)
Drift(x, y) ==
  \/ x = y
  \/ y >= 2 * Half /\ 9 * x + 9 >= 2 * Half

\* What is left of the scale, as a power of ten, after at - 1 digits.
RoomLeft == Pow10[Scale[into] + 1 - at]

WholeInv ==
  pc = "whole" => units = 0 /\ Drift(n, numeral) /\ Len(padded) = Scale[into]

FractionInv ==
  pc = "fraction" =>
    /\ Drift(whole, units) /\ n = numeral
    /\ Len(digits) = Scale[into] /\ at <= Scale[into] + 1
    /\ (numeral + 1) * RoomLeft <= Factor(into)

ParseInv == ParseType /\ WholeInv /\ FractionInv /\ ParsedExactly

\* The factors the proof works with.
LEMMA FactorFacts ==
  ASSUME NEW k \in Kinds
  PROVE  /\ Scale[k] \in Nat /\ Scale[k] \in 1 .. MaxPow
         /\ Factor(k) \in Nat /\ 10 <= Factor(k) /\ Factor(k) <= Half
         /\ \A p \in 0 .. MaxPow : Pow10[p] \in Nat /\ Pow10[p] >= 1
PROOF
  <1>1. Scale[k] \in Nat /\ Scale[k] \in 1 .. MaxPow /\ MaxPow \in Nat
    BY ScaleAssumption
  <1>2. \A p \in 0 .. MaxPow : Pow10[p] \in Nat /\ Pow10[p] >= 1
    BY ScaleAssumption, SMTT(30)
  <1>3. Pow10[Scale[k]] = 10 * Pow10[Scale[k] - 1]
    BY <1>1, ScaleAssumption, Zenon
  <1>4. Pow10[Scale[k] - 1] \in Nat /\ Pow10[Scale[k] - 1] >= 1
    BY <1>1, <1>2, SMTT(30)
  <1>5. Factor(k) \in Nat /\ 10 <= Factor(k)
    BY <1>1, <1>2, <1>3, <1>4 DEF Factor
  <1>6. Factor(k) <= Half
    BY ScaleAssumption
  <1> QED
    BY <1>1, <1>2, <1>5, <1>6

\* One turn of the loop: the number keeps up with the exact one, or drifts.
LEMMA DigitDrift ==
  ASSUME NEW x \in 0 .. Half - 1, NEW y \in Nat, NEW d \in 0 .. 9, Drift(x, y),
         Wrap(x * 10 + d) >= x
  PROVE  Wrap(x * 10 + d) \in 0 .. Half - 1 /\ Drift(Wrap(x * 10 + d), y * 10 + d)
PROOF
  <1>0. x \in Nat /\ x < Half /\ Half \in Nat /\ d \in Nat /\ d <= 9
    BY HalfAssumption
  <1>1. PICK z \in Int : z = x * 10 + d
    BY <1>0
  <1>2. Wrap(z) \in Int64
    BY WrapFacts, Zenon
  <1>3. Wrap(z) >= x
    BY <1>1
  <1>4. Wrap(z) \in 0 .. Half - 1
    BY <1>0, <1>2, <1>3 DEF Int64
  <1>5. CASE z < Half
    <2>1. z \in Int64
      BY <1>0, <1>1, <1>5 DEF Int64
    <2>2. Wrap(z) = z
      BY <2>1, WrapFits, Zenon
    <2>3. CASE x = y
      BY <1>1, <1>4, <2>2, <2>3 DEF Drift
    <2>4. CASE x # y
      <3>1. y >= 2 * Half /\ 9 * x + 9 >= 2 * Half
        BY <2>4 DEF Drift
      <3>2. y * 10 + d >= 2 * Half /\ 9 * z + 9 >= 2 * Half
        BY <1>0, <1>1, <3>1
      <3> QED
        BY <1>1, <1>4, <2>2, <3>2 DEF Drift
    <2> QED
      BY <2>3, <2>4
  <1>6. CASE z >= Half
    <2>1. Wrap(z) <= z - 2 * Half
      BY <1>6, WrapOver, Zenon
    <2>2. 9 * Wrap(z) + 9 >= 2 * Half
      BY <1>0, <1>1, <1>3, <1>4, <2>1
    <2>3. z >= 2 * Half
      BY <1>0, <1>3, <1>4, <2>1
    <2>4. y >= x
      BY <1>0 DEF Drift
    <2>5. y * 10 + d >= 2 * Half
      BY <1>0, <1>1, <2>3, <2>4
    <2> QED
      BY <1>1, <1>4, <2>2, <2>5 DEF Drift
  <1> QED
    BY <1>0, <1>1, <1>5, <1>6

\* One more digit takes a tenth of the room.
LEMMA RoomStep ==
  ASSUME NEW a \in Nat, NEW d \in 0 .. 9, NEW q \in Nat, q >= 1, NEW f \in Nat,
         (a + 1) * (10 * q) <= f
  PROVE  (a * 10 + d + 1) * q <= f /\ a * 10 + d + 1 <= f
PROOF
  <1>1. PICK e \in Nat : e = a * 10 + d + 1
    OBVIOUS
  <1>2. e <= (a + 1) * 10
    BY <1>1
  <1>3. e * q <= ((a + 1) * 10) * q
    BY <1>2
  <1>4. ((a + 1) * 10) * q = (a + 1) * (10 * q)
    OBVIOUS
  <1>5. e <= e * q
    OBVIOUS
  <1> QED
    BY <1>1, <1>3, <1>4, <1>5

LEMMA MulMono ==
  ASSUME NEW a \in Int, NEW b \in Int, NEW f \in Nat, a <= b
  PROVE  a * f <= b * f
PROOF
  OBVIOUS

\* Integer division undoes a multiplication, and finds no larger factor.
LEMMA DivFacts ==
  ASSUME NEW a \in Nat, NEW f \in Nat, f > 0
  PROVE  /\ a \div f \in Nat
         /\ f * (a \div f) <= a /\ a < f * (a \div f) + f
PROOF
  <1>1. a = f * (a \div f) + (a % f) /\ a % f \in 0 .. f - 1 /\ a \div f \in Int
    OBVIOUS
  <1>2. a \div f >= 0
    <2>1. CASE a \div f <= -1
      <3>1. f * (a \div f) <= -f
        BY <1>1, <2>1
      <3> QED
        BY <1>1, <3>1
    <2> QED
      BY <1>1, <2>1
  <1> QED
    BY <1>1, <1>2

\* The code after the second loop.
LEMMA ScalingIsExact ==
  ASSUME into \in Kinds, whole \in 0 .. Half - 1, units \in Nat, n \in Nat,
         n < Factor(into), Drift(whole, units)
  PROVE  /\ Sum \in Int
         /\ ~ TooLarge => Sum = units * Factor(into) + n
         /\ TooLarge => units * Factor(into) + n >= Half
PROOF
  <1>f. PICK f \in Nat : f = Factor(into) /\ 10 <= f /\ f <= Half /\ n < f
    BY FactorFacts
  <1>0. whole \in Nat /\ whole < Half /\ Half \in Nat /\ Half >= 10
    BY <1>f, HalfAssumption
  <1>1. PICK z \in Nat : z = whole * f
    BY <1>0
  <1>a. z \in Int /\ Scaled = Wrap(z)
    BY <1>f, <1>1 DEF Scaled
  <1>b. Scaled \in Int
    <2>1. Wrap(z) \in Int64
      BY <1>a, WrapFacts, Zenon
    <2> QED
      BY <1>0, <1>a, <2>1 DEF Int64
  <1>2. PICK w \in Int : w = Scaled + n
    BY <1>b
  <1>c. Sum = Wrap(w) /\ Sum \in Int
    <2>1. Wrap(w) \in Int64
      BY WrapFacts, Zenon
    <2> QED
      BY <1>0, <1>2, <2>1 DEF Sum, Int64
  <1>d. TooLarge <=> (whole # 0 /\ Quo(Scaled, f) # whole) \/ Sum < Scaled
    BY <1>f DEF TooLarge
  <1>3. whole <= units
    BY <1>0 DEF Drift
  <1>4. z <= units * f
    BY <1>0, <1>1, <1>3, MulMono
  <1>5. whole * 10 <= z
    BY <1>0, <1>1, <1>f
  <1>6. CASE z < Half
    <2>1. whole = units
      BY <1>0, <1>5, <1>6 DEF Drift
    <2>2. z \in Int64
      BY <1>0, <1>6 DEF Int64
    <2>3. Scaled = z
      BY <1>a, <2>2, WrapFits
    <2>4. Quo(Scaled, f) = whole
      <3>1. /\ z \div f \in Nat
            /\ f * (z \div f) <= z /\ z < f * (z \div f) + f
        BY <1>f, DivFacts
      <3>2. z \div f = whole
        <4>1. CASE z \div f <= whole - 1
          <5>1. f * (z \div f) <= f * (whole - 1)
            BY <1>0, <3>1, <4>1
          <5>2. f * (whole - 1) = z - f
            BY <1>0, <1>1
          <5> QED
            BY <3>1, <5>1, <5>2
        <4>2. CASE z \div f >= whole + 1
          <5>1. f * (z \div f) >= f * (whole + 1)
            BY <1>0, <3>1, <4>2
          <5>2. f * (whole + 1) = z + f
            BY <1>0, <1>1
          <5> QED
            BY <3>1, <5>1, <5>2
        <4> QED
          BY <1>0, <3>1, <4>1, <4>2
      <3> QED
        BY <2>3, <3>2 DEF Quo
    <2>5. TooLarge <=> Sum < Scaled
      BY <1>d, <2>4
    <2>6. w = z + n /\ Sum = Wrap(w) /\ z = units * f
      BY <1>1, <1>2, <1>c, <2>1, <2>3
    <2>7. CASE w < Half
      <3>1. w \in Int64
        BY <1>0, <2>6, <2>7 DEF Int64
      <3>2. Sum = w
        BY <2>6, <3>1, WrapFits
      <3> QED
        BY <1>0, <1>b, <1>f, <2>3, <2>5, <2>6, <2>7, <3>2
    <2>8. CASE w >= Half
      <3>1. Wrap(w) <= w - 2 * Half
        BY <2>8, WrapOver, Zenon
      <3>2. Sum < Scaled
        BY <1>0, <1>b, <1>c, <1>f, <2>3, <2>6, <3>1
      <3> QED
        BY <1>c, <1>f, <2>5, <2>6, <2>8, <3>2
    <2> QED
      BY <1>0, <1>f, <2>7, <2>8
  <1>7. CASE z >= Half
    <2>1. Scaled <= z - 2 * Half /\ Scaled \in Int
      <3>0. z \in Int
        OBVIOUS
      <3>1. Wrap(z) <= z - 2 * Half
        BY <1>7, <3>0, WrapOver, Zenon
      <3> QED
        BY <1>a, <1>b, <3>1
    <2>2. whole # 0
      BY <1>0, <1>1, <1>7
    <2>3. Quo(Scaled, f) # whole
      <3>1. CASE Scaled >= 0
        <4>1. f * (Scaled \div f) <= Scaled /\ Scaled \div f \in Nat
          BY <1>b, <1>f, <3>1, DivFacts
        <4>2. Scaled \div f # whole
          BY <1>0, <1>1, <2>1, <4>1
        <4> QED
          BY <3>1, <4>2 DEF Quo
      <3>2. CASE Scaled < 0
        <4>1. -Scaled \in Nat
          BY <1>b, <3>2
        <4>2. (-Scaled) \div f \in Nat
          BY <1>f, <4>1, DivFacts
        <4>3. Quo(Scaled, f) = -((-Scaled) \div f)
          BY <1>b, <3>2 DEF Quo
        <4> QED
          BY <1>0, <2>2, <4>2, <4>3
      <3> QED
        BY <1>b, <3>1, <3>2
    <2>4. TooLarge
      BY <1>d, <2>2, <2>3
    <2>5. units * f + n >= Half
      BY <1>0, <1>4, <1>7
    <2> QED
      BY <1>c, <1>f, <2>4, <2>5
  <1> QED
    BY <1>0, <1>c, <1>f, <1>6, <1>7

\* What is left to read, before and after a digit.
LEMMA LeftToRead ==
  ASSUME NEW s \in Nat, NEW p \in Nat
  PROVE  /\ s + 1 - (p + 1) = s - p
         /\ (p = s + 1) => (s + 1 - p = 0)
  OBVIOUS

-----------------------------------------------------------------------------
LEMMA ParseInvInit == ParseInit => ParseInv
PROOF
  <1> SUFFICES ASSUME ParseInit PROVE ParseInv
    OBVIOUS
  <1>1. 0 \in 0 .. Half - 1
    BY HalfAssumption
  <1>2. <<>> \in Seq(Characters) /\ 1 \in Nat \ {0} /\ 0 \in Nat /\ 0 \in Int
    OBVIOUS
  <1>3. ParseType
    BY <1>1, <1>2, Zenon DEF ParseInit, ParseType, Kinds
  <1> QED
    BY <1>3 DEF ParseInit, ParseInv, WholeInv, FractionInv, ParsedExactly

LEMMA ParseInvNext == ParseInv /\ [ParseNext]_parseVars => ParseInv'
PROOF
  <1> SUFFICES ASSUME ParseInv, [ParseNext]_parseVars PROVE ParseInv'
    OBVIOUS
  <1> USE DEF ParseInv, ParseType, Answers, Errors
  <1>1. ASSUME NEW k \in Kinds, NEW t \in Texts, Start(k, t) PROVE ParseInv'
    <2>1. t \in Seq(Characters)
      BY ScaleAssumption
    <2> QED
      BY <1>1, <2>1 DEF Start, WholeInv, FractionInv, ParsedExactly
  <1>2. CASE Split
    <2>1. Body(text) \in Seq(Characters)
      BY BodyType
    <2>2. /\ IntegerPart(Body(text)) \in Seq(Characters)
          /\ FractionPart(Body(text)) \in Seq(Characters)
      BY <2>1, PartsType
    <2>3. Len(FractionPart(Body(text))) <= Scale[into]
      BY <1>2 DEF Split, Shaped
    <2>4. /\ Pad(FractionPart(Body(text)), into) \in Seq(Characters)
          /\ Len(Pad(FractionPart(Body(text)), into)) = Scale[into]
      BY <2>2, <2>3, PadType
    <2>5. HasSign(text) \in BOOLEAN
      BY DEF HasSign
    <2>6. ParseType'
      BY <1>2, <2>2, <2>4, <2>5, HalfAssumption DEF Split
    <2>7. WholeInv'
      BY <1>2, <2>4 DEF Split, WholeInv, Drift
    <2> QED
      BY <1>2, <2>6, <2>7 DEF Split, FractionInv, ParsedExactly
  <1>3. CASE SplitFails
    BY <1>3 DEF SplitFails, WholeInv, FractionInv, ParsedExactly
  <1>4. CASE Digit
    <2>0. /\ at \in Nat /\ at \in 1 .. Len(digits) /\ digits[at] \in 0 .. 9
          /\ n \in Nat /\ n < Half /\ Half \in Nat /\ n \in Int /\ numeral \in Nat
      BY <1>4, HalfAssumption DEF Digit, Digits
    <2>a. PICK d \in 0 .. 9 : d = digits[at]
      BY <2>0
    <2>1. PICK z \in Int : z = n * 10 + d
      BY <2>0
    <2>2. NextN = Wrap(z) /\ Wrap(z) \in Int
      <3>1. Wrap(z) \in Int64
        BY WrapFacts, Zenon
      <3> QED
        BY <2>0, <2>a, <2>1, <3>1 DEF NextN, Int64
    <2>3. CASE pc = "whole" /\ NextN < n
      <3>1. numeral * 10 + d >= Half
        <4>1. CASE n = numeral /\ z < Half
          <5>1. z \in Int64
            BY <2>0, <2>1, <4>1 DEF Int64
          <5>2. Wrap(z) = z
            BY <5>1, WrapFits
          <5> QED
            BY <2>0, <2>1, <2>2, <2>3, <5>2
        <4>2. CASE n = numeral /\ z >= Half
          BY <2>1, <4>2
        <4>3. CASE n # numeral
          <5>1. numeral >= 2 * Half
            BY <2>3, <4>3 DEF WholeInv, Drift
          <5> QED
            BY <2>0, <5>1
        <4> QED
          BY <2>0, <2>1, <4>1, <4>2, <4>3
      <3>2. /\ pc' = "overflow" /\ numeral' = numeral * 10 + d /\ units' = 0
            /\ UNCHANGED <<text, into, negative, digits, padded, at, n, whole, value>>
        BY <1>4, <2>a, <2>3 DEF Digit, WholeInv
      <3>3. Factor(into) \in Nat
        BY FactorFacts
      <3>4. Denoted' = numeral'
        BY <2>0, <3>2, <3>3 DEF Denoted, Factor
      <3>5. ParseType'
        <4>1. numeral' \in Nat
          BY <2>0, <3>2
        <4> QED
          BY <3>2, <4>1
      <3> QED
        BY <3>1, <3>2, <3>4, <3>5 DEF WholeInv, FractionInv, ParsedExactly
    <2>4. CASE pc = "whole" /\ ~ NextN < n
      <3>1. Drift(n, numeral)
        BY <2>4 DEF WholeInv
      <3>2. Wrap(n * 10 + d) >= n
        BY <2>0, <2>1, <2>2, <2>4
      <3>3. /\ Wrap(n * 10 + d) \in 0 .. Half - 1
            /\ Drift(Wrap(n * 10 + d), numeral * 10 + d)
        BY <2>0, <3>1, <3>2, DigitDrift, Zenon
      <3>4. /\ pc' = "whole" /\ numeral' = numeral * 10 + d /\ n' = Wrap(n * 10 + d) /\ at' = at + 1
            /\ UNCHANGED <<text, into, negative, digits, padded, whole, value, units>>
        BY <1>4, <2>a, <2>4 DEF Digit, NextN
      <3>5. ParseType'
        <4>1. numeral' \in Nat /\ at' \in Nat \ {0}
          BY <2>0, <3>4
        <4> QED
          BY <3>3, <3>4, <4>1
      <3>6. WholeInv'
        BY <2>4, <3>3, <3>4 DEF WholeInv, Drift
      <3> QED
        BY <3>4, <3>5, <3>6 DEF FractionInv, ParsedExactly
    <2>5. CASE pc = "fraction"
      <3> DEFINE q == Pow10[Scale[into] - at]
      <3>1. /\ Scale[into] \in Nat /\ Scale[into] \in 1 .. MaxPow /\ MaxPow \in Nat
            /\ Factor(into) \in Nat /\ Factor(into) <= Half
            /\ \A p \in 0 .. MaxPow : Pow10[p] \in Nat /\ Pow10[p] >= 1
        BY FactorFacts, ScaleAssumption, Zenon
      <3>2. /\ n = numeral /\ Len(digits) = Scale[into]
            /\ (numeral + 1) * RoomLeft <= Factor(into)
        BY <2>5 DEF FractionInv
      <3>3. q \in Nat /\ q >= 1
        BY <2>0, <3>1, <3>2
      <3>4. RoomLeft = 10 * q
        <4>1. Scale[into] + 1 - at \in 1 .. MaxPow
          BY <2>0, <3>1, <3>2, SMTT(30)
        <4>2. Pow10[Scale[into] + 1 - at] = 10 * Pow10[(Scale[into] + 1 - at) - 1]
          BY <4>1, ScaleAssumption, Zenon
        <4>3. (Scale[into] + 1 - at) - 1 = Scale[into] - at
          BY <2>0, <3>1
        <4> QED
          BY <4>2, <4>3 DEF RoomLeft
      <3> HIDE DEF q
      <3>5. (numeral * 10 + d + 1) * q <= Factor(into) /\ numeral * 10 + d + 1 <= Factor(into)
        BY <2>0, <3>1, <3>2, <3>3, <3>4, RoomStep, Zenon
      <3>7. z \in Int64 /\ z >= n
        BY <2>0, <2>1, <3>1, <3>2, <3>5 DEF Int64
      <3>8. NextN = z
        BY <2>2, <3>7, WrapFits
      <3>9. /\ pc' = "fraction" /\ numeral' = numeral * 10 + d /\ n' = z /\ at' = at + 1
            /\ UNCHANGED <<text, into, negative, digits, padded, whole, value, units>>
        <4>1. ~ NextN < n
          BY <2>0, <3>7, <3>8
        <4> QED
          BY <1>4, <2>a, <2>5, <3>8, <4>1 DEF Digit
      <3>10. n' = numeral' /\ n' \in 0 .. Half - 1
        BY <2>0, <2>1, <3>2, <3>7, <3>9 DEF Int64
      <3>11. RoomLeft' = q
        <4>1. Scale[into] + 1 - (at + 1) = Scale[into] - at
          BY <2>0, <3>1, LeftToRead, Zenon
        <4> QED
          BY <3>9, <4>1 DEF RoomLeft, q
      <3>12. FractionInv'
        <4>1. Drift(whole, units)' /\ at' <= Scale[into]' + 1 /\ Len(digits)' = Scale[into]'
          BY <2>0, <2>5, <3>1, <3>2, <3>9 DEF FractionInv, Drift
        <4>2. (numeral' + 1) * RoomLeft' <= Factor(into)'
          BY <3>5, <3>9, <3>11 DEF Factor
        <4> QED
          BY <3>10, <4>1, <4>2 DEF FractionInv
      <3>13. ParseType'
        <4>1. numeral' \in Nat /\ at' \in Nat \ {0}
          BY <2>0, <3>9
        <4> QED
          BY <3>9, <3>10, <4>1
      <3> QED
        BY <3>9, <3>12, <3>13 DEF WholeInv, ParsedExactly
    <2> QED
      BY <1>4, <2>3, <2>4, <2>5 DEF Digit, Reading
  <1>5. CASE NotADigit
    BY <1>5 DEF NotADigit, WholeInv, FractionInv, ParsedExactly
  <1>6. CASE WholeRead
    <2>1. /\ Scale[into] \in Nat /\ Factor(into) \in Nat
      BY FactorFacts
    <2>2. /\ pc' = "fraction" /\ whole' = n /\ units' = numeral /\ digits' = padded
          /\ at' = 1 /\ n' = 0 /\ numeral' = 0 /\ Drift(n, numeral) /\ Len(padded) = Scale[into]
          /\ UNCHANGED <<text, into, negative, padded, value>>
      BY <1>6 DEF WholeRead, WholeInv
    <2>3. RoomLeft' = Factor(into)
      BY <2>1, <2>2 DEF RoomLeft, Factor
    <2>4. (numeral' + 1) * RoomLeft' <= Factor(into)'
      BY <2>1, <2>2, <2>3 DEF Factor
    <2>5. FractionInv'
      BY <2>1, <2>2, <2>4 DEF FractionInv, Drift
    <2>6. ParseType'
      BY <2>2, HalfAssumption
    <2> QED
      BY <2>2, <2>5, <2>6 DEF WholeInv, ParsedExactly
  <1>7. CASE FractionRead
    <2>1. /\ Scale[into] \in Nat /\ Factor(into) \in Nat
      BY FactorFacts
    <2>2. /\ Drift(whole, units) /\ n = numeral /\ at \in Nat /\ at = Scale[into] + 1
          /\ (numeral + 1) * RoomLeft <= Factor(into)
      BY <1>7, <2>1 DEF FractionRead, FractionInv
    <2>3. RoomLeft = 1
      <3>1. Scale[into] + 1 - at = 0
        BY <2>1, <2>2, LeftToRead, Zenon
      <3> QED
        BY <3>1, ScaleAssumption, Zenon DEF RoomLeft
    <2>4. n \in Nat /\ n < Factor(into)
      BY <2>1, <2>2, <2>3
    <2>8. /\ Sum \in Int
          /\ ~ TooLarge => Sum = units * Factor(into) + n
          /\ TooLarge => units * Factor(into) + n >= Half
      BY <2>2, <2>4, ScalingIsExact
    <2>9. UNCHANGED <<text, into, negative, digits, padded, at, n, whole, units, numeral>>
      BY <1>7 DEF FractionRead
    <2>10. Denoted' = units * Factor(into) + n
      BY <2>2, <2>9 DEF Denoted, Factor
    <2>11. CASE TooLarge
      <3>1. pc' = "overflow" /\ value' = 0
        BY <1>7, <2>11 DEF FractionRead
      <3> QED
        BY <2>8, <2>9, <2>10, <2>11, <3>1 DEF WholeInv, FractionInv, ParsedExactly
    <2>12. CASE ~ TooLarge
      <3>1. pc' = "parsed" /\ value' = IF negative THEN -Sum ELSE Sum
        BY <1>7, <2>12 DEF FractionRead
      <3>2. value' = IF negative' THEN -(Denoted') ELSE Denoted'
        BY <2>8, <2>9, <2>10, <2>12, <3>1
      <3>3. ParseType'
        BY <2>8, <2>9, <3>1
      <3> QED
        BY <3>1, <3>2, <3>3, Zenon DEF WholeInv, FractionInv, ParsedExactly
    <2> QED
      BY <2>11, <2>12
  <1>8. CASE Return
    BY <1>8 DEF Return, WholeInv, FractionInv, ParsedExactly
  <1>9. CASE UNCHANGED parseVars
    BY <1>9 DEF parseVars, WholeInv, FractionInv, ParsedExactly, Denoted, RoomLeft
  <1> QED
    BY <1>1, <1>2, <1>3, <1>4, <1>5, <1>6, <1>7, <1>8, <1>9 DEF ParseNext, ParseStep

(***************************************************************************)
(* For every text, every scale of at least one digit and every width: what *)
(* ParseAmount and ParseQuantity return is exactly the number in the text, *)
(* and they call a text too large only if its number does not fit.         *)
(***************************************************************************)
THEOREM ParsingIsExact == ParseSpec => []ParsedExactly
PROOF
  <1>1. ParseInv => ParsedExactly
    BY DEF ParseInv
  <1> QED
    BY ParseInvInit, ParseInvNext, <1>1, PTL DEF ParseSpec
=============================================================================
