------------------------------ MODULE Pricing -------------------------------
(***************************************************************************)
(* pricing.Rate and the price models.  Rate is a pure function: its loops  *)
(* are folds, and an error that ends it early is a value that is no        *)
(* amount.                                                                 *)
(***************************************************************************)
EXTENDS Amount, Sequences, FiniteSetsExt, SequencesExt

CONSTANTS
  Registry,         \* the meters NewRegistry was given
  QuantityFactor    \* quantityFactor

ASSUME FactorAssumption == QuantityFactor \in Nat \ {0}

\* ErrInvalidPrice; no Int64.
InvalidPrice == Half + 1

\* The nil UpTo of an unbounded tier; no Quantity.
Unbounded == Half

Failed(a) == a \notin Int64

\* Add, where an error of either operand is returned at once.
Plus(a, b) == IF Failed(a) THEN a ELSE IF Failed(b) THEN b ELSE Add(a, b)

Abs(x) == IF x < 0 THEN -x ELSE x

\* Mutant of Multiply: truncates.
MultiplyTruncates(quantity, unitPrice) ==
  LET quotient == Quo(quantity * unitPrice, QuantityFactor)
  IN IF quotient \in Int64 THEN quotient ELSE Overflow

\* multiply: exact in big.Int, rounded half away from zero, checked into int64.
Multiply(quantity, unitPrice) ==
  LET product   == quantity * unitPrice
      quotient  == Quo(product, QuantityFactor)
      remainder == product - quotient * QuantityFactor
      away      == IF product < 0 THEN -1 ELSE 1
      rounded   == quotient + IF 2 * Abs(remainder) >= QuantityFactor THEN away ELSE 0
  IN IF rounded \in Int64 THEN rounded ELSE Overflow

\* A tier reaches the quantity, or its own bound.
Upper(tier, quantity) == IF tier.upTo = Unbounded THEN quantity ELSE Min({tier.upTo, quantity})

\* validateTiers: bounds that grow, and a last tier without one.
ValidTiers(tiers) ==
  /\ tiers # <<>>
  /\ \A t \in DOMAIN tiers :
       /\ tiers[t].upTo = Unbounded <=> t = Len(tiers)
       /\ t < Len(tiers) => tiers[t].upTo > IF t = 1 THEN 0 ELSE tiers[t - 1].upTo

ApplyGraduated(tiers, quantity) ==
  LET Charge(sofar, tier) ==
        LET portion == Upper(tier, quantity) - sofar.consumed
        IN IF portion <= 0 THEN sofar
           ELSE [consumed |-> sofar.consumed + portion,
                 total    |-> Plus(Plus(sofar.total, Multiply(portion, tier.unitPrice)), tier.flatFee)]
  IN FoldLeft(Charge, [consumed |-> 0, total |-> 0], tiers).total

\* The tier a volume price charges everything at.
LandsIn(tiers, quantity) ==
  tiers[Min({t \in DOMAIN tiers : tiers[t].upTo = Unbounded \/ quantity <= tiers[t].upTo})]

ApplyVolume(tiers, quantity) ==
  LET tier == LandsIn(tiers, quantity)
  IN IF quantity = 0 THEN 0 ELSE Plus(Multiply(quantity, tier.unitPrice), tier.flatFee)

ApplyPrice(price, quantity) ==
  CASE price.model = "flat" -> Multiply(quantity, price.unitPrice)
    [] price.model = "graduated" /\ ValidTiers(price.tiers) -> ApplyGraduated(price.tiers, quantity)
    [] price.model = "volume" /\ ValidTiers(price.tiers) -> ApplyVolume(price.tiers, quantity)
    [] OTHER -> InvalidPrice

\* priceFor takes the first price of the meter.
PricesFor(plan, meter) == SelectSeq(plan, LAMBDA p : p.meter = meter)

\* A meter's usage, summed in the order it came.
TotalUsage(usages, meter) ==
  LET AddUsage(sum, u) == IF u.meter = meter THEN Plus(sum, u.quantity) ELSE sum
  IN FoldLeft(AddUsage, 0, usages)

\* Mutant of Item: the first usage of a meter stands for all of it.
ItemOfFirst(usages, plan, meter) ==
  LET quantity == SelectSeq(usages, LAMBDA u : u.meter = meter)[1].quantity
  IN [meter |-> meter, quantity |-> quantity,
      amount |-> IF PricesFor(plan, meter) = <<>> THEN InvalidPrice
                 ELSE ApplyPrice(PricesFor(plan, meter)[1], quantity)]

Item(usages, plan, meter) ==
  LET quantity == TotalUsage(usages, meter)
  IN [meter |-> meter, quantity |-> quantity,
      amount |-> IF Failed(quantity) THEN quantity
                 ELSE IF PricesFor(plan, meter) = <<>> THEN InvalidPrice
                 ELSE ApplyPrice(PricesFor(plan, meter)[1], quantity)]

\* Rate: one item a meter, sorted by meter, or an error.
Rate(usages, plan) ==
  LET meters == {usages[u].meter : u \in DOMAIN usages}
      sorted == SetToSortSeq(meters, <)
      items  == [m \in DOMAIN sorted |-> Item(usages, plan, sorted[m])]
  IN [ok |-> /\ meters \subseteq Registry
             /\ \A u \in DOMAIN usages : usages[u].quantity >= 0
             /\ \A m \in DOMAIN items : ~ Failed(items[m].amount),
      items |-> items]

-----------------------------------------------------------------------------
(* What a price says, without a loop.  The exact price is the amount times *)
(* the quantity factor.                                                    *)

\* The part of the quantity between the bound of the tier below and its own.
InTier(tiers, t, quantity) ==
  Max({0, Upper(tiers[t], quantity) - IF t = 1 THEN 0 ELSE Upper(tiers[t - 1], quantity)})

\* The tiers some of the quantity falls in.
Reached(tiers, quantity) == {t \in DOMAIN tiers : InTier(tiers, t, quantity) > 0}

TierPrice(tier, quantity) == quantity * tier.unitPrice + QuantityFactor * tier.flatFee

ExactPrice(price, quantity) ==
  LET reached == Reached(price.tiers, quantity)
  IN CASE price.model = "flat" -> quantity * price.unitPrice
       [] price.model = "volume" ->
            IF reached = {} THEN 0 ELSE TierPrice(price.tiers[Max(reached)], quantity)
       [] price.model = "graduated" ->
            MapThenSumSet(LAMBDA t : TierPrice(price.tiers[t], InTier(price.tiers, t, quantity)), reached)

\* Rounding once, half a unit is lost or won at most.
WithinRounding(price, quantity, amount) ==
  2 * Abs(QuantityFactor * amount - ExactPrice(price, quantity)) <= QuantityFactor

\* The nearest unit, a half away from zero.
HalfUp(exact) ==
  LET nearest == (2 * Abs(exact) + QuantityFactor) \div (2 * QuantityFactor)
  IN IF exact < 0 THEN -nearest ELSE nearest

\* Each part of the quantity that has a price of its own is rounded by itself.
RoundedPrice(price, quantity) ==
  LET reached == Reached(price.tiers, quantity)
      Part(t, q) == HalfUp(q * price.tiers[t].unitPrice) + price.tiers[t].flatFee
  IN CASE price.model = "flat" -> HalfUp(quantity * price.unitPrice)
       [] price.model = "volume" -> IF reached = {} THEN 0 ELSE Part(Max(reached), quantity)
       [] price.model = "graduated" ->
            MapThenSumSet(LAMBDA t : Part(t, InTier(price.tiers, t, quantity)), reached)
=============================================================================
