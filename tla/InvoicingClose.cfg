\* Two billing runs over three periods, and both on the last.
SPECIFICATION FairSpec
CONSTANTS
  Closers = {1, 2}
  Periods = {1, 2, 3}
  Events = {1, 2, 3, 4, 5}
  PeriodRow <- TwoTenants
  EventRow <- Metered
  Plan <- FreeTier
  Serves <- Overlap
  None = none
  Faults = {"db"}
INVARIANT TypeOK
INVARIANT LedgerMatchesInvoices
INVARIANT BilledOnce
INVARIANT ChargedIsMarked
INVARIANT EntryBehindInvoice
INVARIANT ClosedMeansInvoiced
INVARIANT NoLockCycle
INVARIANT SameAmounts
INVARIANT ChecksPassAnytime
PROPERTY IssuedIsFinal
PROPERTY CloseReturns
