SPECIFICATION Spec
CONSTANTS
  a1 = a1
  a2 = a2
  s1 = s1
  s2 = s2
  Alert <- NightAlert
  Symbol = {s1}
  SymbolOf <- NightSymbolOf
  Kind <- NightKind
  Research = {}
  DollarRisk <- NightRisk
  CapitalRequired <- NightCapital
  Validity <- NightValidity
  Demotable = {}
  Limits <- TwoOpen
  CapsFixed = FALSE
  LiveMinutes = {2}
  Power = {5}
  Price = {1}
  Grade = {1}
  Lag = {0}
  LeaseTicks = 1
  ReviewMaxAge = 1
  QuoteMaxAge = 0
  Sellout = 5
  SelloutMargin = 1
  MaxTime = 2
  MaxDay = 1
  MaxTrades = 1
INVARIANTS DailyFillsWithinCap
