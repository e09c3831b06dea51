CONSTANTS
  Symbol       <- OneSymbol
  Strategy     <- McStrategy
  ModuleOf     <- McModuleOf
  Research     <- McResearch
  Terms        <- McTerms
  Bars         <- McBars
  Signals      <- McSignals
  BadFeeds     <- NoBadFeeds
  ClusterOf    <- McClusterOf
  ModuleCap    <- McModuleCap
  ClusterCap   = 2
  BarsPerDay   = 4
  ReplayWindow = 6
  PollWindow   = 5
  MaxSignals   = 2
  LastTick     = 3
  MaxFaults    = 1
SPECIFICATION LiveSpec
CHECK_DEADLOCK FALSE
INVARIANT OnePlanAtATime
