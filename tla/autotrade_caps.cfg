SPECIFICATION Spec
CONSTANTS
  a1 = a1
  a2 = a2
  s1 = s1
  s2 = s2
  Alert <- PairAlert
  Symbol = {s1}
  SymbolOf <- PairSymbolOf
  Kind <- PairKind
  Research = {}
  DollarRisk <- PairRisk
  CapitalRequired <- PairCapital
  Validity <- PairValidity
  Demotable = {}
  Limits <- EitherCap
  CapsFixed = TRUE
  LiveMinutes = {2}
  Power = {5}
  Price = {1}
  Grade = {1}
  Lag = {0}
  LeaseTicks = 1
  ReviewMaxAge = 1
  QuoteMaxAge = 0
  Sellout = 5
  SelloutMargin = 1
  MaxTime = 2
  MaxDay = 0
  MaxTrades = 3
INVARIANTS JournalMatchesStatus DailyExposureWithinCap OpenExposureWithinCap
PROPERTIES ImplementsLifecycle
