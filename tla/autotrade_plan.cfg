SPECIFICATION Spec
CONSTANTS
  a1 = a1
  a2 = a2
  s1 = s1
  s2 = s2
  Alert <- OptionAlert
  Symbol = {s1}
  SymbolOf <- OptionSymbolOf
  Kind <- OptionKind
  Research = {}
  DollarRisk <- OptionRisk
  CapitalRequired <- OptionCapital
  Validity <- OptionValidity
  Demotable = {a2}
  Limits <- OptionLimits
  CapsFixed = FALSE
  LiveMinutes = {3}
  Power = {3, 5}
  Price = {1, 2}
  Grade = {1, 2}
  Lag = {0, 1}
  LeaseTicks = 2
  ReviewMaxAge = 2
  QuoteMaxAge = 1
  Sellout = 5
  SelloutMargin = 1
  MaxTime = 4
  MaxDay = 0
  MaxTrades = 4
INVARIANTS SimulationHasNoAuthority ReviewMatchesPlan
PROPERTIES ClaimFitsCapsInForce
