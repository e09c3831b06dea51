SPECIFICATION Spec
CONSTANTS
  a1 = a1
  a2 = a2
  s1 = s1
  s2 = s2
  Alert <- EquityAlert
  Symbol = {s1}
  SymbolOf <- EquitySymbolOf
  Kind <- EquityKind
  Research = {}
  DollarRisk <- EquityRisk
  CapitalRequired <- EquityCapital
  Validity <- EquityValidity
  Demotable = {}
  Limits <- EquityLimits
  CapsFixed = FALSE
  LiveMinutes = {1, 3}
  Power = {5}
  Price = {1}
  Grade = {1}
  Lag = {0}
  LeaseTicks = 2
  ReviewMaxAge = 2
  QuoteMaxAge = 1
  Sellout = 5
  SelloutMargin = 1
  MaxTime = 4
  MaxDay = 0
  MaxTrades = 4
INVARIANTS LeaseInsideLiveWindow
