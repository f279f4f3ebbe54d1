SPECIFICATION Spec
CONSTANTS
  Closers = {1, 2}
  Periods = {1, 2, 3}
  Events = {1, 2}
  PeriodRow <- TwoTenants
  EventRow <- Metered
  Plan <- FreeTier
  Serves <- RunPerTenant
  None = none
  Faults = {}
INVARIANT MarkedIsCharged
