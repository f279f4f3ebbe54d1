----------------------------- MODULE MCMetering -----------------------------
(***************************************************************************)
(* Twelve-bit integers, amounts with two decimal places and quantities     *)
(* with three: 20.47 is the largest amount and 2.047 the largest quantity. *)
(* As with int64, the scale factors are far above ten and far below the    *)
(* width.                                                                  *)
(***************************************************************************)
EXTENDS Metering

CONSTANT MaxLength    \* bound: the longest text

MCScale == [amount |-> 2, quantity |-> 3]
MCPow10 == <<10, 100, 1000, 10000, 100000>> @@ (0 :> 1)

Request(m, k, q) == [tenant |-> 1, meter |-> m, key |-> k, quantity |-> q, at |-> Now]

\* 555 * 10 wraps round past 555, so that parseDigits does not see it.
PriceTexts    == BoundedSeq({0, 1, 5, Dot, Minus, Other}, MaxLength)
QuantityTexts ==
  BoundedSeq({0, 5, 9, Dot, Mark}, MaxLength) \cup {<<0, Dot>> \o f : f \in [1 .. 4 -> {0, 5, 9}]}

One == <<1, Dot, 0>>

\* Texts around the tiers' bounds, halves and the largest numbers.
Sample == {<<0>>, <<0, Dot, 5>>, <<0, Dot, 5, 0, 1>>, <<1, Dot, 0, 0>>, <<2, Dot, 0, 4, 7>>}
Prices == {<<0>>, <<0, Dot, 0, 5>>, <<5, Dot, 1, 5>>, <<2, 0, Dot, 4, 7>>, <<Minus, 1>>}

Rewritings == {<<1>>, <<0, 1>>, <<1, Dot, 0>>, <<1, Dot, 1>>, <<1, 0>>}

MCInputs ==
  \* any price, and any quantity
  {[requests |-> <<Request(1, 1, One)>>, price |-> p] : p \in PriceTexts} \cup
  {[requests |-> <<Request(2, 1, q)>>, price |-> <<5, Dot, 1>>] : q \in QuantityTexts} \cup
  \* three meters on one invoice, two requests for the first
  {[requests |-> <<Request(1, 1, q), Request(1, 2, r), Request(2, 3, s), Request(3, 4, t)>>, price |-> p] :
     q \in Sample, r \in {<<0>>, <<0, Dot, 5>>}, s \in Sample, t \in Sample, p \in Prices} \cup
  \* a key that is used again, in time and too late
  {[requests |-> <<Request(1, 1, q), [Request(m, 1, r) EXCEPT !.at = time]>>, price |-> One] :
     q \in Rewritings, r \in Rewritings, m \in {1, 2}, time \in {Now - 2, Now - 1, Now, Now + 1, Now + 2}} \cup
  \* a meter without a price, one with a bad price, one that is not registered and bad names
  {[requests |-> <<[Request(m, k, One) EXCEPT !.tenant = t]>>, price |-> One] :
     m \in {4, 5, 6, 7}, k \in {1, 7}, t \in {1, 7}}

\* One request for a meter with graduated prices.
TieredInputs == {[requests |-> <<Request(2, 1, q)>>, price |-> p] : q \in Sample, p \in Prices}

Tier(upTo, unit, fee) == [upTo |-> upTo, unitPrice |-> unit, flatFee |-> fee]

MCPlanAt(u) ==
  <<[meter |-> 1, model |-> "flat", unitPrice |-> u, tiers |-> <<>>],
    [meter |-> 2, model |-> "graduated", unitPrice |-> 0,
     tiers |-> <<Tier(500, u, 0), Tier(1000, 5, 3), Tier(Unbounded, 1, 0)>>],
    [meter |-> 3, model |-> "volume", unitPrice |-> 0,
     tiers |-> <<Tier(500, 25, 0), Tier(Unbounded, u, 100)>>],
    [meter |-> 4, model |-> "graduated", unitPrice |-> 0, tiers |-> <<Tier(500, u, 0)>>]>>
=============================================================================
