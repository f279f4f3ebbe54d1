------------------------------- MODULE Amount -------------------------------
(***************************************************************************)
(* The checked integer arithmetic of ledger.Amount and pricing.Quantity.   *)
(* Both are int64: Go's + and * wrap round without a sign of it, and the   *)
(* code detects that from the result.  Half is 2^63.                       *)
(***************************************************************************)
EXTENDS Integers

CONSTANT Half

ASSUME HalfAssumption == Half \in Nat \ {0}

Int64 == -Half .. Half - 1

\* What Go's integer operators leave of the exact result x.
Wrap(x) == ((x + Half) % (2 * Half)) - Half

\* ErrOverflow.  It is no Int64.
Overflow == Half

\* Mutant of Add: the sum is not checked.
AddUnchecked(a, b) == Wrap(a + b)

\* Amount.Add and Quantity.Add.
Add(a, b) ==
  LET sum == Wrap(a + b)
  IN IF \/ b > 0 /\ sum < a
        \/ b < 0 /\ sum > a
     THEN Overflow ELSE sum

\* Amount.Neg.
Neg(a) == IF a = -Half THEN Overflow ELSE -a

\* Go's integer division truncates toward zero; b is positive.
Quo(a, b) == IF a >= 0 THEN a \div b ELSE -((-a) \div b)
=============================================================================
