SPECIFICATION TradingFairSpec
CONSTANTS
  a1 = a1
  a2 = a2
  s1 = s1
  s2 = s2
  Alert <- OptionAlert
  Symbol = {s1}
  SymbolOf <- OptionSymbolOf
  Kind <- OptionKind
  Research = {}
  DollarRisk <- OptionRisk
  CapitalRequired <- OptionCapital
  Validity <- BrokerOptionValidity
  Demotable = {}
  Limits <- BrokerLimits
  CapsFixed = FALSE
  LiveMinutes = {2}
  Power = {5}
  Price = {1}
  Grade = {1}
  Lag = {0}
  LeaseTicks = 1
  ReviewMaxAge = 1
  QuoteMaxAge = 0
  Sellout = 5
  SelloutMargin = 1
  MaxTime = 3
  MaxDay = 0
  MaxTrades = 4
  Contracts = 2
  Fills = {2}
  MaxEvents = 4
INVARIANTS TradingTypeOK TruthIsRecordable BooksAgree
PROPERTIES TruthIsRecorded
