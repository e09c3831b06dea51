----------------------------- MODULE Discipline -----------------------------
(***************************************************************************)
(* The discipline counters of the engine (veto.py, EngineControls) and the *)
(* gates that read them.  One value holds the three counters of a book:    *)
(* open plans by module, by correlated cluster, by symbol and strategy.    *)
(***************************************************************************)
EXTENDS Integers

CONSTANTS
  ClusterOf,    \* [symbol -> cluster]; a symbol not listed is its own cluster
  ModuleCap,    \* [module -> Nat]: MODULE_CONCURRENCY
  ClusterCap    \* MAX_OPEN_PER_CLUSTER

ASSUME CapsAreCounts == ClusterCap \in Nat /\ \A m \in DOMAIN ModuleCap : ModuleCap[m] \in Nat

NoSlots(symbols, strategies) ==
  [module  |-> [m \in DOMAIN ModuleCap |-> 0],
   cluster |-> [c \in {ClusterOf[s] : s \in symbols} |-> 0],
   plan    |-> [p \in symbols \X strategies |-> 0]]

RegisterOpen(slots, module, symbol, strategy) ==
  [module  |-> [slots.module EXCEPT ![module] = @ + 1],
   cluster |-> [slots.cluster EXCEPT ![ClusterOf[symbol]] = @ + 1],
   plan    |-> [slots.plan EXCEPT ![<<symbol, strategy>>] = @ + 1]]

Decremented(n) == IF n > 0 THEN n - 1 ELSE 0

RegisterClose(slots, module, symbol, strategy) ==
  [module  |-> [slots.module EXCEPT ![module] = Decremented(@)],
   cluster |-> [slots.cluster EXCEPT ![ClusterOf[symbol]] = Decremented(@)],
   plan    |-> [slots.plan EXCEPT ![<<symbol, strategy>>] = Decremented(@)]]

\* Fault: the duplicate guard is forgotten.
FaultyHasRoom(slots, module, symbol, strategy) ==
  /\ slots.module[module] < ModuleCap[module]
  /\ slots.cluster[ClusterOf[symbol]] < ClusterCap

\* The concurrency, duplicate and correlation gates.
HasRoom(slots, module, symbol, strategy) ==
  /\ slots.module[module] < ModuleCap[module]
  /\ slots.plan[<<symbol, strategy>>] = 0
  /\ slots.cluster[ClusterOf[symbol]] < ClusterCap
=============================================================================
