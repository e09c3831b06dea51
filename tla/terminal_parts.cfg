\* Every part of the terminal that shares no state with the others, by itself.
SPECIFICATION Spec
CONSTANTS
  Email = {a, b}
  Browser = {1}
  Replica = {p, q}
  GrantedRole = {"VIEWER"}
  SessionLife = 2
  Recheck = 1
  SessionId = {1, 2}
  LastInstant = 2
  Person = {u}
  Area = {"ZDTE", "SWING"}
  Amount = {1, 2}
  ListName = {"research"}
  Ticker = {s}
  Pref = {"theme"}
  DeskOwner = owner
  Shipped <- MCShipped
  Gateway = {g, h}
  News = {alert1}
  Briefings = {brief1}
  QueueSize = 2
  LastEvent = 3
  MaxSends = 2
  DayLength = 12
  Open = 3
  Close = 10
  EarlyClose = 7
  Sizes = {2, 3, 7}
  Shapes <- MCShapes
  LastDay = 3
  FeedDays = {0, 1}
  FeedLength = 4
  Readings <- MCReadings
  Places <- MCPlaces
  Cold = Cold
  Capitals = {100000, 1000}
  RiskCaps = {1, 10, 100}
  Drawdowns = {1, 2}
  Levels <- MCLevels
  Quotes <- MCQuotes
  MinN = 3
  Top = 10
  MaxSamples = 4
  MaxBuckets = 3
  Variants = 2
  MinTrain = 1
  MinValidation = 1
  Results <- MCResults
  Carry = 1
  MaxSessions = 4
  MaxTrades = 2
  Setups <- MCSetups
  Mornings <- MCMornings
  Candles <- MCCandles
  Ranges = {0, 40}
  SessionEnd = 8
  Rules <- MCRules
  Patterns <- MCPatterns
  Prices <- MCPrices
  Averages = {40, 50, 60, 70, 80}
  TrueRanges = {20}
  LastBar = 7
SYMMETRY Sym
CHECK_DEADLOCK FALSE
INVARIANTS
  PartsTypeOK
  OneBootstrap
  StreamEndsWithSession
  BudgetsInForce
  DeliveredOnce
  NewestIsKept
  ClockAgrees
  CompleteBuckets
  PlanGeometry
  SizeFitsBudget
  CalibrationIsotonic
  ReversalHonest
  TuneHonest
PROPERTIES NoEventAfterSession CrossoverHonest
