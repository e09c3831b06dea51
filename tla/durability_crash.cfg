SPECIFICATION DurabilitySpec
CONSTANTS
  Replica = {r1}
  Intent = {i1, i2}
  MaxFailures = 1
  MaxTrades = 2
SYMMETRY Symmetry
INVARIANTS
  DurabilityTypeOK
  AcknowledgedSurvives
  OpenPositionHasEntry
  JournalCoversStatus
  AcknowledgedFillIsJournaled
