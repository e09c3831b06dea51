------------------------------ MODULE Composer ------------------------------
(***************************************************************************)
(* The alert composer (composer.py): it turns a setup into an order whose  *)
(* size fits the risk budget and the capital of its module.                *)
(*                                                                         *)
(* Money is counted in cents; halves is the drawdown multiplier in halves. *)
(***************************************************************************)
EXTENDS Integers, Sequences, FiniteSets, FiniteSetsExt

CONSTANTS
  Capitals, RiskCaps,  \* the budget of a module: cents, and percent of them
  Drawdowns,           \* drawdown multiplier, in halves
  Levels,              \* [long, entry, stop, targets] of a setup
  Quotes               \* [bid, ask, delta] of the selected leg, or NoLeg, NoQuote

NoLeg   == [missing |-> "leg"]
NoQuote == [missing |-> "quote"]
NoAlert == [size |-> 0]
Tranches == <<33, 33, 34>>  \* TRANCHES

ASSUME BudgetsPositive ==
  /\ Capitals \subseteq Nat \ {0} /\ RiskCaps \subseteq 1..100 /\ Drawdowns \subseteq {1, 2}
ASSUME OrdersHavePrices ==
  /\ \A l \in Levels : l.entry \in Nat \ {0} /\ l.stop \in Nat /\ Len(l.targets) \in Nat
  /\ \A q \in Quotes \ {NoLeg, NoQuote} : {q.bid, q.ask, q.delta} \subseteq Nat

VARIABLES
  setup,  \* what is to be composed, with the budget in force
  alert   \* what came of it

composerVars == <<setup, alert>>

-----------------------------------------------------------------------------
(* Budgets in force, in cents: risk_budget and max_capital (RULE-C3).      *)

RiskBudget(s) == (s.capital * s.pct * s.halves) \div 200

MaxCapital(s) == (s.capital * s.halves) \div 2

Apart(a, b) == IF a > b THEN a - b ELSE b - a

\* _build: one target per tranche, what has no target stays with the runner.
Build(vehicle, action, s, unit, size, entry, stop, risk) ==
  [vehicle |-> vehicle, action |-> action, size |-> size, entry |-> entry, stop |-> stop,
   required |-> size * unit, risk |-> size * risk,
   profits |-> [i \in 1..Min({Len(s.targets), Len(Tranches)}) |->
                  [at |-> s.targets[i], tranche |-> Tranches[i]]]]

\* _compose_equity
Equity(s) ==
  LET risk    == Apart(s.entry, s.stop)
      byRisk  == RiskBudget(s) \div risk
      byMoney == MaxCapital(s) \div s.entry
      size    == IF byRisk * s.entry > MaxCapital(s) THEN byMoney ELSE byRisk
  IN IF risk = 0 \/ size <= 0 THEN NoAlert
     ELSE Build("EQUITY", IF s.long THEN "EQUITY_BUY" ELSE "EQUITY_SELL",
                s, s.entry, size, s.entry, s.stop, risk)

\* RULE-T8: a spread above ten percent of the middle is not tradable.
Liquid(q) == q.bid + q.ask > 0 /\ 20 * (q.ask - q.bid) <= q.bid + q.ask

\* mid + 0.4 * (ask - mid), to the cent.
EntryLimit(q) == (3 * q.bid + 7 * q.ask + 5) \div 10

\* What the underlying's risk costs at this delta (in hundredths), to the cent;
\* a contract is never stopped below five.
OptionStop(s, q) == Max({EntryLimit(q) - (q.delta * Apart(s.entry, s.stop) + 50) \div 100, 5})

\* _compose_option; a contract is a hundred shares.
Option(s, q) ==
  LET entry == EntryLimit(q)
      stop  == OptionStop(s, q)
      risk  == 100 * (entry - stop)
      size  == Max({n \in 0..(RiskBudget(s) \div risk) : n * 100 * entry <= MaxCapital(s)})
  IN IF risk <= 0 THEN NoAlert
     ELSE IF size = 0 THEN NoAlert
     ELSE Build("OPTION", "BTO", s, 100 * entry, size, entry, stop, risk)

\* Fault: an option that is not tradable is dropped instead.
FaultyComposed(s) ==
  IF s.quote \in {NoLeg, NoQuote} THEN Equity(s)
  ELSE IF Liquid(s.quote) THEN Option(s, s.quote) ELSE NoAlert

\* compose
Composed(s) ==
  IF s.quote \in {NoLeg, NoQuote} THEN Equity(s)
  ELSE IF Liquid(s.quote) THEN Option(s, s.quote) ELSE Equity(s)

Compose ==
  /\ setup = NoAlert
  /\ \E level \in Levels, capital \in Capitals, pct \in RiskCaps, halves \in Drawdowns, quote \in Quotes :
       /\ setup' = [long |-> level.long, entry |-> level.entry, stop |-> level.stop,
                    targets |-> level.targets, capital |-> capital, pct |-> pct,
                    halves |-> halves, quote |-> quote]
       /\ alert' = Composed(setup')

ComposerInit == setup = NoAlert /\ alert = NoAlert

ComposerSpec == ComposerInit /\ [][Compose]_composerVars

-----------------------------------------------------------------------------
ComposerTypeOK ==
  alert # NoAlert => /\ alert.size \in Nat \ {0}
                     /\ alert.vehicle \in {"EQUITY", "OPTION"}

\* May n units of this price and risk be ordered?
Fits(n, unit, risk) ==
  /\ 200 * n * risk <= setup.capital * setup.pct * setup.halves
  /\ 2 * n * unit <= setup.capital * setup.halves

\* An alert orders as many units as both budgets allow and not one more, with
\* shares cut to the money and contracts counted down to it, under a drawdown
\* and after the fall from an illiquid option to shares; what it says it needs
\* and risks is what its size comes to.  A setup is suppressed only when not one
\* unit of what would be ordered fits: a share without a tradable option, or
\* else a contract; or when that unit has nothing to lose.
SizeFitsBudget ==
  /\ alert # NoAlert =>
       LET unit == alert.required \div alert.size
           risk == alert.risk \div alert.size
           share == [i \in DOMAIN alert.profits |-> alert.profits[i].tranche]
       IN /\ risk > 0 /\ unit = (IF alert.vehicle = "OPTION" THEN 100 ELSE 1) * alert.entry
          /\ Fits(alert.size, unit, risk) /\ ~Fits(alert.size + 1, unit, risk)
          /\ MapThenSumSet(LAMBDA i : share[i], DOMAIN share) <= 100
          /\ alert.vehicle = "OPTION" => alert.stop < alert.entry
  /\ (setup # NoAlert /\ alert = NoAlert) =>
       IF setup.quote \in {NoLeg, NoQuote} \/ ~Liquid(setup.quote)
       THEN setup.entry = setup.stop \/ ~Fits(1, setup.entry, Apart(setup.entry, setup.stop))
       ELSE LET unit == EntryLimit(setup.quote)
                stop == OptionStop(setup, setup.quote)
            IN unit <= stop \/ ~Fits(1, 100 * unit, 100 * (unit - stop))
=============================================================================
