--------------------------- MODULE ReversalStudy ----------------------------
(***************************************************************************)
(* The opening-range-reversal backtest (opening_range_reversal.py), bar by *)
(* bar over one session: the opening range is built, a reversal candle is  *)
(* looked for, and the one position is managed until it is closed.         *)
(*                                                                         *)
(* Prices are integers; fractions of the average range are percents, and   *)
(* the size of the position is counted in halves.                          *)
(***************************************************************************)
EXTENDS Integers, Sequences, FiniteSets, FiniteSetsExt, Functions

CONSTANTS
  Setups,      \* configurations: [cutoff, flatten, body, buffer, partial, runner, levels,
               \*   tolerance, slippage, manipulation]
  Mornings,    \* [first, daily, high, low]: three bars, daily range and levels of the day before
  Candles,     \* [open, high, low, close] of a later bar
  Ranges,      \* average five-minute range before a signal, 0 when unknown
  SessionEnd   \* bound: the last bar of the session

ASSUME BarsAfterOpening == SessionEnd \in Nat /\ SessionEnd > 4
ASSUME SetupsAreValid ==
  \A c \in Setups : /\ {c.body, c.buffer, c.runner, c.tolerance, c.slippage, c.manipulation} \subseteq Nat
                    /\ c.partial \in {1, 2}
ASSUME CandlesAreBars ==
  /\ Ranges \subseteq Nat /\ \A m \in Mornings : {m.high, m.low} \subseteq Int
  /\ \A b \in Candles \cup {m.first[i] : m \in Mornings, i \in 1..3} :
       /\ {b.open, b.high, b.low, b.close} \subseteq Int
       /\ b.low <= b.open /\ b.open <= b.high /\ b.low <= b.close /\ b.close <= b.high

VARIABLES
  config, morning,
  tick,       \* number of the last bar, and
  last,      \* what it looked like
  phase,     \* "opening", "hunting", "holding", "done"
  trade,  \* [side, entry, initial, stop, one, two, risk, slip, partial]
  fills      \* exits: [reason, price, halves, bar]; the position stays to be reported

reversalVars == <<config, morning, tick, last, phase, trade, fills>>

Flat == [side |-> 0]
Of(percent, x) == (percent * x) \div 100
Gap(a, b) == IF a > b THEN a - b ELSE b - a

-----------------------------------------------------------------------------
(* The opening range of the first three bars.                              *)

OpeningHigh == Max({morning.first[i].high : i \in 1..3})
OpeningLow  == Min({morning.first[i].low : i \in 1..3})
Push == LET body == morning.first[3].close - morning.first[1].open IN
        IF body > 0 THEN 1 ELSE IF body < 0 THEN -1 ELSE 0

\* The range must be a good part of the daily one, and have pushed somewhere.
OpeningRange ==
  /\ phase = "opening"
  /\ tick' = 3 /\ last' = morning.first[3]
  /\ phase' = IF /\ OpeningHigh > OpeningLow /\ Push # 0
                 /\ 100 * (OpeningHigh - OpeningLow) >= config.manipulation * morning.daily
              THEN "hunting" ELSE "done"
  /\ UNCHANGED <<config, morning, trade, fills>>

-----------------------------------------------------------------------------
(* The entry: the bar after a reversal candle breaks it.                   *)

Reverses(signal) ==
  /\ (signal.close - signal.open) * Push < 0
  /\ 100 * Gap(signal.close, signal.open) >= config.body * (signal.high - signal.low)

\* _level_confluence
Confluent(side, atr) ==
  IF side < 0 THEN OpeningHigh >= morning.high - Of(config.tolerance, atr)
              ELSE OpeningLow <= morning.low + Of(config.tolerance, atr)

\* _fill_price: at the trigger, or at the open of a bar that gaps past it.
FillPrice(side, b, trigger, slip) ==
  IF side > 0 THEN Max({b.open, trigger}) + slip ELSE Min({b.open, trigger}) - slip

\* The position that signal and the bar b after it open, given the average range.
Entered(signal, b, atr5) ==
  LET side    == -Push
      trigger == IF side > 0 THEN signal.high ELSE signal.low
      atr     == Max({atr5, signal.high - signal.low})
      slip    == Of(config.slippage, atr)
      entry   == FillPrice(side, b, trigger, slip)
      stop    == (IF side > 0 THEN signal.low ELSE signal.high) - side * Of(config.buffer, atr)
      one     == IF side > 0 THEN OpeningHigh ELSE OpeningLow
  IN IF /\ Reverses(signal)
        /\ IF side > 0 THEN b.high >= trigger ELSE b.low <= trigger
        /\ config.levels => Confluent(side, atr)
        /\ side * (one - entry) > 0
     THEN [side |-> side, entry |-> entry, initial |-> stop, stop |-> stop, one |-> one,
           two |-> entry + side * Of(config.runner, Gap(entry, stop)), risk |-> Gap(entry, stop),
           slip |-> slip, partial |-> FALSE]
     ELSE Flat

-----------------------------------------------------------------------------
(* The management of a position on one bar, the entry bar included.        *)

Left(p) == IF p.partial THEN 2 - config.partial ELSE 2
ExitFill(p, raw) == raw - p.side * p.slip
Fill(reason, raw, halves, p, b) ==
  [reason |-> reason, price |-> ExitFill(p, raw), halves |-> halves, bar |-> b]

Touches(p, price, b) == IF p.side > 0 THEN b.low <= price ELSE b.high >= price
Reaches(p, price, b) == IF p.side > 0 THEN b.high >= price ELSE b.low <= price
StopRaw(p, b) == IF p.side > 0 THEN Min({b.open, p.stop}) ELSE Max({b.open, p.stop})

Ended(p, fill) == [position |-> p, fills |-> <<fill>>, over |-> TRUE]
Kept(p) == [position |-> p, fills |-> <<>>, over |-> FALSE]

Stopped(p, b) == Ended(p, Fill("STOP", StopRaw(p, b), Left(p), p, b))

\* The first target of a split position: the runner's stop goes to its entry.
Trimmed(p, b) ==
  [position |-> [p EXCEPT !.partial = TRUE, !.stop = p.entry],
   fills |-> <<Fill("TARGET_ONE", p.one, config.partial, p, b)>>, over |-> FALSE]

Target(p) == IF p.partial THEN p.two ELSE p.one
AtTarget(p, b) ==
  IF ~p.partial /\ config.partial < 2 THEN Trimmed(p, b)
  ELSE Ended(p, Fill("TARGET_TWO", Target(p), Left(p), p, b))

\* Fault: the target is looked at before the stop.
FaultyManaged(p, b, n) ==
  IF n >= config.flatten THEN Ended(p, Fill("SESSION_FLATTEN", b.open, Left(p), p, b))
  ELSE IF Reaches(p, Target(p), b) THEN AtTarget(p, b)
  ELSE IF Touches(p, p.stop, b) THEN Stopped(p, b)
  ELSE Kept(p)

Managed(p, b, n) ==
  IF n >= config.flatten THEN Ended(p, Fill("SESSION_FLATTEN", b.open, Left(p), p, b))
  ELSE IF Touches(p, p.stop, b) THEN Stopped(p, b)
  ELSE IF Reaches(p, Target(p), b) THEN AtTarget(p, b)
  ELSE Kept(p)

\* Bar bar + 1 manages p and moves on.
Manage(p, b) ==
  LET m == Managed(p, b, tick + 1) IN
  /\ trade' = m.position
  /\ fills' = fills \o m.fills
  /\ phase' = IF m.over THEN "done" ELSE "holding"

Next5m(b) ==
  /\ phase \in {"hunting", "holding"} /\ tick < SessionEnd
  /\ tick' = tick + 1 /\ last' = b
  /\ IF phase = "holding" THEN Manage(trade, b)
     ELSE IF tick > config.cutoff THEN phase' = "done" /\ UNCHANGED <<trade, fills>>
     ELSE \E atr5 \in Ranges :
            LET p == IF tick > 3 THEN Entered(last, b, atr5) ELSE Flat IN
            IF p = Flat THEN UNCHANGED <<phase, trade, fills>> ELSE Manage(p, b)
  /\ UNCHANGED <<config, morning>>

\* The session ends, at its close or in the middle of it, and what is left is
\* closed at the last price.
DataEnd ==
  /\ phase \in {"hunting", "holding"}
  /\ phase' = "done"
  /\ IF phase = "holding"
     THEN fills' = Append(fills, Fill("DATA_END", last.close, Left(trade), trade, last))
     ELSE fills' = fills
  /\ UNCHANGED <<config, morning, tick, last, trade>>

ReversalInit ==
  /\ config \in Setups /\ morning \in Mornings
  /\ tick = 0 /\ last = morning.first[1] /\ phase = "opening" /\ trade = Flat /\ fills = <<>>

ReversalNext == OpeningRange \/ (\E b \in Candles : Next5m(b)) \/ DataEnd

ReversalSpec == ReversalInit /\ [][ReversalNext]_reversalVars
-----------------------------------------------------------------------------
ReversalTypeOK ==
  /\ tick \in 0..SessionEnd /\ Len(fills) <= 2
  /\ fills # <<>> => trade # Flat

\* What a fill brings in, against the entry and for the halves it closes.
Gain(f) == f.halves * trade.side * (f.price - trade.entry)
Result == FoldFunction(+, 0, [i \in 1..Len(fills) |-> Gain(fills[i])])
StopBefore(f) == IF f.reason = "TARGET_TWO" /\ Len(fills) = 2 THEN trade.entry ELSE trade.initial
GapsPast(f, price) == trade.side * (f.bar.open - price) < 0

\* A trade of the study is booked no better than it could have gone: the whole
\* position is closed exactly once, nothing is sold above a bar's high or
\* bought back below its low, a bar that touches stop and target is a stop, the
\* runner gives back nothing but slippage once its partial is taken, and no
\* trade loses more than its risk and the slippage, unless a bar opens beyond
\* the stop.
ReversalHonest ==
  (phase = "done" /\ fills # <<>>) =>
    /\ (Len(fills) = 1 /\ fills[1].halves = 2)
         \/ (Len(fills) = 2 /\ fills[1].reason = "TARGET_ONE" /\ fills[1].halves + fills[2].halves = 2)
    /\ \A i \in 1..Len(fills) :
         LET f == fills[i] raw == f.price + trade.side * trade.slip IN
         /\ IF trade.side > 0 THEN raw <= f.bar.high ELSE raw >= f.bar.low
         /\ f.reason \in {"TARGET_ONE", "TARGET_TWO"} => ~Touches(trade, StopBefore(f), f.bar)
    /\ (Len(fills) = 2 /\ fills[2].reason = "STOP" /\ ~GapsPast(fills[2], trade.entry)) =>
         Gain(fills[2]) >= -fills[2].halves * trade.slip
    /\ (\A i \in 1..Len(fills) : ~GapsPast(fills[i], trade.initial)) =>
         Result >= -2 * (trade.risk + trade.slip)
=============================================================================
