----------------------------- MODULE Strategies -----------------------------
(***************************************************************************)
(* The strategy registry (strategies.py) in its production configuration,  *)
(* the structural gates of the veto wall (veto.py) and the routing of the  *)
(* runner (runner.py), on one reading of the market.                       *)
(*                                                                         *)
(* Prices are integers with Unit to the price step, so that the factors of *)
(* the strategies (0.35, 0.15, 1.8, ...) stay exact; an indicator that has *)
(* not warmed up is Cold; a trend score is reduced to what is asked of it, *)
(* -2 .. 2: strongly or weakly down, neutral, weakly or strongly up.       *)
(***************************************************************************)
EXTENDS Integers, Sequences, FiniteSets, FiniteSetsExt

CONSTANTS
  Readings,  \* kind of strategy -> the readings it is shown
  Places,    \* [hour, auction]: the time of day and the state of the auction
  Cold

Unit == 20
Part(percent, x) == (percent * x) \div 100

\* A reading is of bars that traded: a close lies inside its bar, and a warm
\* average true range is positive, for Wilder's average never forgets a move.
ASSUME ReadingsAreBars ==
  \A r \in UNION {Readings[k] : k \in DOMAIN Readings} :
    /\ r.atr # Cold => r.atr \in Nat \ {0} /\ r.atr % Unit = 0
    /\ r.kind \in {"orb", "reclaim", "day"} => r.closes \in [1..3 -> Nat]
    /\ r.kind = "orb" => {r.high, r.low} \subseteq Nat
    /\ r.kind \in {"pullback", "reclaim9"} => {r.ema9, r.ema21, r.low, r.high, r.close} \subseteq Nat
    /\ r.kind = "reclaim" => {r.lowest, r.highest} \subseteq Nat /\ r.closes[3] \in r.lowest..r.highest
    /\ r.kind = "hour" => {r.close, r.ema50} \subseteq Nat
    /\ r.kind = "day" => r.pivot \in Nat

VARIABLES
  reading,  \* what the strategies see on the bar that just closed
  place     \* where in the day and in the auction that is

strategyVars == <<reading, place>>

Silence == [kind |-> "none"]

StrategyInit == reading = Silence /\ place = Silence

\* A bar closes.
BarCloses ==
  /\ reading = Silence
  /\ \E k \in DOMAIN Readings : reading' \in Readings[k]
  /\ place' \in Places

StrategySpec == StrategyInit /\ [][BarCloses]_strategyVars

Plan(strategy, long, entry, stop, targets) ==
  [strategy |-> strategy, long |-> long, entry |-> entry, stop |-> stop, targets |-> targets,
   zeroDte |-> strategy \in {"ORB_BREAKOUT", "EMA9_TREND_PULLBACK", "EMA9_MTF_0DTE", "VWAP_RECLAIM"},
   pop     |-> strategy \in {"PULLBACK_CONTINUATION", "PULLBACK_CONTINUATION_MACD"},
   live    |-> strategy \notin {"EMA9_MTF_0DTE", "PULLBACK_CONTINUATION", "PULLBACK_CONTINUATION_MACD"},
   monitor |-> strategy \in {"EMA9_MTF_0DTE", "PULLBACK_CONTINUATION_MACD"}]

Side(long) == IF long THEN 1 ELSE -1
Multiples(from, long, step, percents) ==
  [i \in 1..Len(percents) |-> from + Side(long) * Part(percents[i], step)]

\* b lies beyond a in the direction of the trade.
Beyond(long, a, b) == Side(long) * (b - a) > 0

\* OrbBreakout: the second of two closes outside the range fires, unless the
\* close before them was outside as well.  r.closes holds the last three.
Orb(r) ==
  {Plan("ORB_BREAKOUT", long, r.closes[3],
        IF long THEN r.high - Part(35, r.high - r.low) ELSE r.low + Part(35, r.high - r.low),
        Multiples(IF long THEN r.high ELSE r.low, long, r.high - r.low, <<50, 100, 175>>)) :
     long \in {d \in BOOLEAN :
       LET level == IF d THEN r.high ELSE r.low IN
       /\ r.complete /\ r.volume /\ r.high > r.low
       /\ Beyond(d, level, r.closes[2]) /\ Beyond(d, level, r.closes[3])
       /\ ~Beyond(d, level, r.closes[1])
       /\ r.h1 = Cold \/ Side(d) * r.h1 >= 0
       /\ r.vwap = Cold \/ ~Beyond(d, r.closes[3], r.vwap)}}

\* Ema9TrendPullback: the bar straddles the fast average of an established
\* trend and closes back on its side.
Pullback9(r) ==
  {Plan("EMA9_TREND_PULLBACK", long, r.close,
        r.ema21 - Side(long) * Part(25, r.atr), Multiples(r.close, long, r.atr, <<100, 180, 300>>)) :
     long \in {d \in BOOLEAN :
       /\ r.rsi # Cold
       /\ Side(d) * r.t5 = 2 /\ Beyond(d, r.ema21, r.ema9)
       /\ r.t15 = Cold \/ Side(d) * r.t15 >= 0
       /\ r.low <= r.ema9 /\ r.ema9 <= r.high
       /\ IF d THEN r.rsi >= 55 ELSE r.rsi <= 45
       /\ Beyond(d, r.ema9, r.close)}}

\* Ema9MtfZeroDte: four timeframes agree and the candle reclaims the average;
\* the targets are multiples of the risk.
Reclaim9(r) ==
  {LET anchor == IF long THEN Min({r.low, r.ema21}) ELSE Max({r.high, r.ema21})
       stop   == anchor - Side(long) * Part(15, r.atr)
       risk   == Side(long) * (r.close - stop)
   IN Plan("EMA9_MTF_0DTE", long, r.close, stop, Multiples(r.close, long, risk, <<100, 200, 300>>)) :
     long \in {d \in BOOLEAN :
       /\ r.allowed /\ r.between10and1515 /\ r.volume /\ r.rsi # Cold /\ r.vwap # Cold
       /\ r.aligned = Side(d) /\ Beyond(d, r.ema21, r.ema9)
       /\ r.high > r.low
       /\ IF d THEN r.low <= r.ema9 ELSE r.high >= r.ema9
       /\ Beyond(d, r.ema9, r.close) /\ Beyond(d, r.open, r.close) /\ Beyond(d, r.vwap, r.close)
       /\ IF d THEN 52 <= r.rsi /\ r.rsi <= 76 ELSE 24 <= r.rsi /\ r.rsi <= 48
       /\ IF d THEN 100 * (r.close - r.low) >= 60 * (r.high - r.low)
               ELSE 100 * (r.close - r.low) <= 40 * (r.high - r.low)}}

\* VwapReclaim: four of the six closes before were on the other side, the last
\* two are on this one, the one before them is not.  extreme is the lowest low
\* and the highest high of the last four bars.
Reclaim(r) ==
  {Plan("VWAP_RECLAIM", long, r.closes[3],
        (IF long THEN r.lowest ELSE r.highest) - Side(long) * Part(15, r.atr),
        Multiples(r.closes[3], long, r.atr, <<100, 180, 300>>)) :
     long \in {d \in BOOLEAN :
       /\ r.vwap # Cold /\ r.enough
       /\ (IF d THEN r.below ELSE r.above) >= 4
       /\ Beyond(d, r.vwap, r.closes[2]) /\ Beyond(d, r.vwap, r.closes[3])
       /\ ~Beyond(d, r.vwap, r.closes[1])
       /\ r.t15 = Cold \/ Side(d) * r.t15 >= -1}}

\* PullbackContinuation and its MACD variant, on the finished hour, long only.
Continuation(r) ==
  LET fires == /\ r.rsi # Cold
               /\ r.daily = 2 /\ r.ema21 > r.ema50
               /\ r.low <= r.ema21 /\ r.low >= r.ema50 - Part(50, r.atr)
               /\ r.rsi >= 52 /\ r.close > r.ema9
               /\ r.close > r.ema50 - r.atr
      plan(s) == Plan(s, TRUE, r.close, r.ema50 - r.atr, Multiples(r.close, TRUE, r.atr, <<80, 160, 280>>))
  IN {plan(s) : s \in IF ~fires THEN {}
                      ELSE {"PULLBACK_CONTINUATION"} \cup
                           IF r.macd > 0 THEN {"PULLBACK_CONTINUATION_MACD"} ELSE {}}

\* DailyBreakout: the second daily close above the highest recent pivot.
Breakout(r) ==
  IF /\ r.closes[2] > r.pivot /\ r.closes[3] > r.pivot /\ r.closes[1] <= r.pivot
     /\ r.volume /\ r.daily >= 1
  THEN {Plan("DAILY_BREAKOUT", TRUE, r.closes[3], r.pivot - Part(75, r.atr),
             Multiples(r.closes[3], TRUE, r.atr, <<150, 300, 500>>))}
  ELSE {}

Signals(r) ==
  CASE r.kind = "orb"      -> Orb(r)
    [] r.kind = "pullback" -> Pullback9(r)
    [] r.kind = "reclaim9" -> Reclaim9(r)
    [] r.kind = "reclaim"  -> Reclaim(r)
    [] r.kind = "hour"     -> Continuation(r)
    [] r.kind = "day"      -> Breakout(r)
    [] OTHER               -> {}

-----------------------------------------------------------------------------
(* run_gates, up to the counters that Discipline keeps.                    *)

Distance(a, b) == IF a > b THEN a - b ELSE b - a

\* Lockouts of zero-day plans, and the state of the auction.
TimeAllows(p) == p.zeroDte => place.hour = "day"
AuctionAllows(p) ==
  /\ place.auction = "one-timeframing up" => p.long
  /\ place.auction = "one-timeframing down" => ~p.long
  /\ place.auction = "p-shape" => ~p.long
  /\ place.auction = "b-shape" => p.long

NotExtended(r, p) == Distance(p.entry, r.ema21) <= 2 * r.atr

\* Fault: every plan is worth its risk.
FaultyWorthItsRisk(p) == p.entry # p.stop

\* Distances without direction: two to one to the second target, unless the
\* strategy is judged by its probability.
WorthItsRisk(p) ==
  /\ p.entry # p.stop
  /\ ~p.pop => Distance(p.targets[2], p.entry) >= 2 * Distance(p.entry, p.stop)

PassesGates(r, p) ==
  /\ r.atr # Cold /\ r.ema21 # Cold
  /\ TimeAllows(p) /\ AuctionAllows(p) /\ NotExtended(r, p) /\ WorthItsRisk(p)

\* _score_and_gate: a plan that may not go live is dropped before the gates,
\* or, if it is monitored, passes them into the shadow ledger.
Route(r, p) ==
  IF ~p.live /\ ~p.monitor THEN "disabled"
  ELSE IF ~PassesGates(r, p) THEN "suppressed"
  ELSE IF p.live THEN "alert" ELSE "shadow"

Emitted(r) == {p \in Signals(r) : Route(r, p) \in {"alert", "shadow"}}
-----------------------------------------------------------------------------
\* A plan that leaves the engine is a plan: its stop lies on the losing side of
\* its entry and its targets beyond the entry, one after the other.  The ledger
\* and the composer take this for granted, while the gates measure distances
\* only and ORB_BREAKOUT hangs its targets on the range, not on the entry.
PlanGeometry ==
  \A p \in Emitted(reading) :
    /\ Beyond(p.long, p.stop, p.entry)
    /\ Beyond(p.long, p.entry, p.targets[1])
    /\ \A i \in 1..(Len(p.targets) - 1) : Beyond(p.long, p.targets[i], p.targets[i + 1])
=============================================================================
