SPECIFICATION DurabilitySpec
CONSTANTS
  Replica = {r1}
  Intent = {i1}
  MaxFailures = 0
  MaxTrades = 2
INVARIANTS SimulationHoldsNothing
