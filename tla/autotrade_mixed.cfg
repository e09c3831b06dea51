SPECIFICATION FairSpec
CONSTANTS
  a1 = a1
  a2 = a2
  s1 = s1
  s2 = s2
  Alert <- PairAlert
  Symbol = {s1, s2}
  SymbolOf <- MixedSymbolOf
  Kind <- PairKind
  Research = {a2}
  DollarRisk <- PairRisk
  CapitalRequired <- PairCapital
  Validity <- MixedValidity
  Demotable = {}
  Limits <- TwoOpen
  CapsFixed = FALSE
  LiveMinutes = {1}
  Power = {5}
  Price = {1}
  Grade = {1}
  Lag = {0}
  LeaseTicks = 1
  ReviewMaxAge = 1
  QuoteMaxAge = 0
  Sellout = 5
  SelloutMargin = 1
  MaxTime = 2
  MaxDay = 0
  MaxTrades = 2
INVARIANTS BadDataHasNoAuthority
PROPERTIES AuthorityEnds
