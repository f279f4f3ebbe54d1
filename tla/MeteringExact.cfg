\* From the text of a request to the amount on the invoice.
CONSTANTS
  Half = 2048
  Texts = {}
  Scale <- MCScale
  Pow10 <- MCPow10
  MaxPow = 5
  Registry = {1, 2, 3, 4, 5}
  QuantityFactor = 1000
  Inputs <- MCInputs
  PlanAt <- MCPlanAt
  BadStrings = {7}
  Now = 10
  MaxClockSkew = 1
  MaxBackfillAge = 1
  MaxIntegerDigits = 2
  MaxFractionDigits = 3
  ColumnScale = 3
  MaxFraction = 4
  MaxLength = 5
SPECIFICATION Spec
INVARIANT TypeOK
INVARIANT ParsedExactly
INVARIANT RepeatsAreJudgedByValue
INVARIANT ChargesWhatWasSent
INVARIANT PriceAsWritten
INVARIANT AcceptedCanBeRead
INVARIANT PricedByTiers
INVARIANT PricedAsASum
INVARIANT EntryMovesTheTotal
INVARIANT ReadsBack
CHECK_DEADLOCK FALSE
