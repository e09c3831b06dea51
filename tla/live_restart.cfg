CONSTANTS
  Symbol       <- McSymbol
  Strategy     <- McStrategy
  ModuleOf     <- McModuleOf
  Research     <- McResearch
  Terms        <- McTerms
  Bars         <- McBars
  Signals      <- McSignals
  BadFeeds     <- McBadFeeds
  ClusterOf    <- McClusterOf
  ModuleCap    <- McModuleCap
  ClusterCap   = 2
  BarsPerDay   = 2
  ReplayWindow = 3
  PollWindow   = 2
  MaxSignals   = 2
  LastTick     = 4
  MaxFaults    = 2
SPECIFICATION LiveSpec
CHECK_DEADLOCK FALSE
INVARIANT LiveTypeOK
INVARIANT SlotsMatchLedger
INVARIANT OneActivePlan
INVARIANT LedgerHonoursPlan
INVARIANT StoreMirrorsMemory
INVARIANT CatchUpLeavesNoBar
PROPERTY SettledNeverReopens
