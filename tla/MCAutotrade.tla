---------------------------- MODULE MCAutotrade ----------------------------
(***************************************************************************)
(* Instances of Autotrade for TLC.  Money is in units of the smallest      *)
(* risk.  A tick is a minute where a lease and a review last two, and two  *)
(* minutes where they last one; quotes then age by none or one tick.       *)
(***************************************************************************)
EXTENDS Autotrade, TLC

CONSTANTS a1, a2, s1, s2

Plans(S, f) == [a \in S |-> f[a]]

KindOf     == (a1 :> "EQUITY") @@ (a2 :> "DYNAMIC")
RiskOf     == (a1 :> 2) @@ (a2 :> 1)
CapitalOf  == (a1 :> 4) @@ (a2 :> 0)
ValidityOf == (a1 :> 2) @@ (a2 :> 1)

\* An equity plan and a dynamic option plan on one symbol.
PairAlert    == {a1, a2}
PairKind     == Plans(PairAlert, KindOf)
PairSymbolOf == Plans(PairAlert, (a1 :> s1) @@ (a2 :> s1))
PairRisk     == Plans(PairAlert, RiskOf)
PairCapital  == Plans(PairAlert, CapitalOf)
PairValidity == Plans(PairAlert, ValidityOf)

\* The same on two symbols; a2 is research-only.
MixedValidity == [a \in PairAlert |-> 1]
MixedSymbolOf == (a1 :> s1) @@ (a2 :> s2)

\* One plan on its own, alive for three ticks.
EquityAlert    == {a1}
EquityKind     == Plans(EquityAlert, KindOf)
EquitySymbolOf == a1 :> s1
EquityRisk     == Plans(EquityAlert, RiskOf)
EquityCapital  == Plans(EquityAlert, CapitalOf)
EquityValidity == a1 :> 3

OptionAlert    == {a2}
OptionKind     == Plans(OptionAlert, KindOf)
OptionSymbolOf == a2 :> s1
OptionRisk     == Plans(OptionAlert, RiskOf)
OptionCapital  == Plans(OptionAlert, CapitalOf)
OptionValidity == a2 :> 3

Cap(alerts, order, day, open, fraction, grade) ==
  [admits |-> alerts, perOrder |-> order, daily |-> day, maxOpen |-> open,
   fraction |-> fraction, minGrade |-> grade]

\* Two units an order, three a day, and one or two intents open at a time.
OneOpen == {Cap({a1, a2}, 2, 3, 1, 80, 1)}
TwoOpen == {Cap({a1, a2}, 2, 3, 2, 80, 1)}
EitherCap == OneOpen \cup TwoOpen

\* Two equity plans that are valid over the night (SWING, LEAPS and HODL plans are
\* valid for eight hours to three days).
NightAlert    == {a1, a2}
NightKind     == [a \in NightAlert |-> "EQUITY"]
NightSymbolOf == [a \in NightAlert |-> s1]
NightRisk     == [a \in NightAlert |-> 2]
NightCapital  == [a \in NightAlert |-> 4]
NightValidity == (a1 :> 2) @@ (a2 :> 1)

\* Caps the operator may tighten or loosen while an intent is live.
EquityLimits == {Cap({a1}, 2, 3, 1, 80, 1), Cap({a1}, 1, 3, 1, 40, 1), Cap({}, 2, 2, 1, 80, 1)}
OptionLimits == {Cap({a2}, 1, 3, 1, 80, 1), Cap({a2}, 2, 3, 1, 40, 2)}
=============================================================================
