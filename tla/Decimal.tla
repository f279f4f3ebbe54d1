------------------------------- MODULE Decimal -------------------------------
(***************************************************************************)
(* ledger.ParseAmount and pricing.ParseQuantity: decimal text into an      *)
(* int64 count of the smallest unit.  The two functions have one shape and *)
(* differ in their scale and in what they say to a minus sign.             *)
(*                                                                         *)
(* A text is a sequence of characters.  A digit is its value; Mark is one  *)
(* of e, E, +, _ and the space, which ParseQuantity looks for, and Other   *)
(* any character that means nothing to either function.  One action is one *)
(* turn of parseDigits' loop, or the code between two loops.               *)
(*                                                                         *)
(* parseDigits' test for overflow, next < n, does not see every overflow:  *)
(* n * 10 can wrap round past its old value.  Whether a wrong number gets  *)
(* out depends on the test that follows the scaling, and on the width.     *)
(***************************************************************************)
EXTENDS Amount, Sequences, FiniteSets

CONSTANTS
  Texts,    \* the texts that are parsed
  Scale,    \* ledger.Scale and QuantityScale
  Pow10,    \* the powers of ten
  MaxPow    \* bound: the largest exponent that is needed

Kinds == {"amount", "quantity"}

Minus == -1
Dot   == -2
Mark  == -3
Other == -4

Digits     == 0 .. 9
Characters == Digits \cup {Minus, Dot, Mark, Other}

\* scaleFactor and quantityFactor.
Factor(k) == Pow10[Scale[k]]

\* A scale has at least one digit, and one whole unit fits in an int64.
ASSUME ScaleAssumption ==
  /\ Texts \subseteq Seq(Characters)
  /\ MaxPow \in Nat
  /\ Scale \in [Kinds -> 1 .. MaxPow]
  /\ Pow10 \in [0 .. MaxPow -> Nat \ {0}]
  /\ Pow10[0] = 1
  /\ \A p \in 1 .. MaxPow : Pow10[p] = 10 * Pow10[p - 1]
  /\ \A k \in Kinds : Factor(k) <= Half

VARIABLES
  pc, text, into,   \* the call in progress
  negative,         \* the text has a minus sign
  digits, padded,   \* the digits being read, and those still to be read
  at, n,            \* parseDigits' loop
  whole,            \* the integer part
  value,            \* what the call returns
  \* observation only: the same numbers in unbounded arithmetic
  units, numeral

parseVars == <<pc, text, into, negative, digits, padded, at, n, whole, value, units, numeral>>

\* How a call ends.
Errors  == {"malformed", "overflow"}
Answers == Errors \cup {"parsed"}

ParseInit ==
  /\ pc = "idle" /\ text = <<>> /\ into = "amount"
  /\ negative = FALSE /\ digits = <<>> /\ padded = <<>>
  /\ at = 1 /\ n = 0 /\ whole = 0 /\ value = 0
  /\ units = 0 /\ numeral = 0

Start(k, t) ==
  /\ pc = "idle"
  /\ pc' = "split" /\ text' = t /\ into' = k
  /\ UNCHANGED <<negative, digits, padded, at, n, whole, value, units, numeral>>

-----------------------------------------------------------------------------
(* strings.Cut at the first point. *)

HasSign(t) == t # <<>> /\ t[1] = Minus

Body(t) == IF HasSign(t) THEN Tail(t) ELSE t

\* How many characters come before the first point.
BeforePoint(b) == Cardinality({j \in DOMAIN b : \A l \in 1 .. j : b[l] # Dot})

HasPoint(b)     == BeforePoint(b) < Len(b)
IntegerPart(b)  == SubSeq(b, 1, BeforePoint(b))
FractionPart(b) == SubSeq(b, BeforePoint(b) + 2, Len(b))

\* Mutant of Pad: the fraction is read as it stands.
PadNothing(s, k) == IF s = <<>> THEN <<0>> ELSE s

\* Padded to the scale, so that "1.5" and "1.500000" mean the same.
Pad(s, k) == s \o [j \in 1 .. Scale[k] - Len(s) |-> 0]

\* Mutant of Shaped: one decimal place too few is allowed.
ShapedShorter(k, t) ==
  LET b == Body(t)
  IN /\ k = "quantity" => ~ HasSign(t) /\ \A j \in DOMAIN t : t[j] # Mark
     /\ IntegerPart(b) # <<>>
     /\ HasPoint(b) => FractionPart(b) # <<>>
     /\ Len(FractionPart(b)) < Scale[k]

\* The early returns before any digit is read.
Shaped(k, t) ==
  LET b == Body(t)
  IN /\ k = "quantity" => ~ HasSign(t) /\ \A j \in DOMAIN t : t[j] # Mark
     /\ IntegerPart(b) # <<>>
     /\ HasPoint(b) => FractionPart(b) # <<>>
     /\ Len(FractionPart(b)) <= Scale[k]

Split ==
  /\ pc = "split" /\ Shaped(into, text)
  /\ pc' = "whole"
  /\ negative' = HasSign(text)
  /\ digits' = IntegerPart(Body(text))
  /\ padded' = Pad(FractionPart(Body(text)), into)
  /\ at' = 1 /\ n' = 0 /\ units' = 0 /\ numeral' = 0
  /\ UNCHANGED <<text, into, whole, value>>

SplitFails ==
  /\ pc = "split" /\ ~ Shaped(into, text)
  /\ pc' = "malformed"
  /\ UNCHANGED <<text, into, negative, digits, padded, at, n, whole, value, units, numeral>>

-----------------------------------------------------------------------------
(* parseDigits and parseQuantityDigits. *)

Reading == pc \in {"whole", "fraction"}

\* n*10 + int64(r-'0'); wrapping twice is wrapping once.
NextN == Wrap(n * 10 + digits[at])

Digit ==
  /\ Reading /\ at <= Len(digits) /\ digits[at] \in Digits
  /\ numeral' = numeral * 10 + digits[at]
  /\ IF NextN < n THEN pc' = "overflow" /\ UNCHANGED <<at, n>>
                  ELSE at' = at + 1 /\ n' = NextN /\ UNCHANGED pc
  /\ UNCHANGED <<text, into, negative, digits, padded, whole, value, units>>

NotADigit ==
  /\ Reading /\ at <= Len(digits) /\ digits[at] \notin Digits
  /\ pc' = "malformed"
  /\ UNCHANGED <<text, into, negative, digits, padded, at, n, whole, value, units, numeral>>

WholeRead ==
  /\ pc = "whole" /\ at > Len(digits)
  /\ pc' = "fraction"
  /\ whole' = n /\ units' = numeral
  /\ digits' = padded /\ at' = 1 /\ n' = 0 /\ numeral' = 0
  /\ UNCHANGED <<text, into, negative, padded, value>>

-----------------------------------------------------------------------------
Scaled == Wrap(whole * Factor(into))
Sum    == Wrap(Scaled + n)

\* Mutant of TooLarge: the check after the scaling is missing.
TooLargeUnscaled == Sum < Scaled

\* scaled/scaleFactor != whole, or total < scaled.
TooLarge ==
  \/ whole # 0 /\ Quo(Scaled, Factor(into)) # whole
  \/ Sum < Scaled

FractionRead ==
  /\ pc = "fraction" /\ at > Len(digits)
  /\ pc' = IF TooLarge THEN "overflow" ELSE "parsed"
  /\ value' = IF TooLarge THEN 0 ELSE IF negative THEN -Sum ELSE Sum
  /\ UNCHANGED <<text, into, negative, digits, padded, at, n, whole, units, numeral>>

\* The caller has its answer.
Return ==
  /\ pc \in Answers
  /\ pc' = "idle"
  /\ UNCHANGED <<text, into, negative, digits, padded, at, n, whole, value, units, numeral>>

ParseStep == Split \/ SplitFails \/ Digit \/ NotADigit \/ WholeRead \/ FractionRead

ParseNext == ParseStep \/ Return \/ \E k \in Kinds, t \in Texts : Start(k, t)

ParseSpec == ParseInit /\ [][ParseNext]_parseVars

-----------------------------------------------------------------------------
\* The magnitude of the number the text denotes, as far as it was read.
Denoted == units * Factor(into) + numeral

(***************************************************************************)
(* A parsed amount or quantity is exactly the number in the text, and text *)
(* is called too large only when its magnitude does not fit: no overflow   *)
(* that parseDigits overlooks gets past the check after the scaling.       *)
(***************************************************************************)
ParsedExactly ==
  /\ pc = "parsed" => value = IF negative THEN -Denoted ELSE Denoted
  /\ pc = "overflow" => Denoted >= Half

=============================================================================
