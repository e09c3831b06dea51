----------------------------- MODULE MCTerminal -----------------------------
(***************************************************************************)
(* Instances of the parts of the terminal that share no state, for TLC.    *)
(* One behaviour explores one part; the others stay as they start.         *)
(***************************************************************************)
EXTENDS TLC, Accounts, Desk, Delivery, MarketData, Strategies, Composer, Calibration,
        StudyReport, ReversalStudy, CrossoverStudy

VARIABLE subject  \* the part that is explored

Parts == {"accounts", "desk", "delivery", "clock", "rollup", "strategies", "composer",
          "calibration", "tuning", "reversal", "crossover"}

terminalVars == <<subject, accountVars, deskVars, deliveryVars, marketVars, strategyVars, composerVars,
                  calibrationVars, studyVars, reversalVars, crossoverVars>>

Sym == Permutations(Email) \cup Permutations(Replica) \cup Permutations(Gateway)

-----------------------------------------------------------------------------
(* Inputs.                                                                 *)

Candle(o, h, l, c) == [open |-> o, high |-> h, low |-> l, close |-> c]

MCShipped == [m \in Area |-> 1]

MCShapes == {Candle(1, 3, 1, 2), Candle(3, 3, 2, 2)}

\* One reading of every strategy fires, on both sides where it has two, and
\* one fails each of its conditions.
MCGrid == {0, 20, 40, 60, 80}

MCBodies == {b \in [low: MCGrid, high: MCGrid, open: {20, 40}, close: MCGrid] :
               b.low <= Min({b.open, b.close}) /\ Max({b.open, b.close}) <= b.high}

MCReadings == [
  orb |-> [kind: {"orb"}, complete: {TRUE}, volume: BOOLEAN, high: {60}, low: {20},
           closes: [1..3 -> {0, 62, 84, 120}], h1: {0, -1}, vwap: {Cold, 62}, ema21: {40, 80}, atr: {20}],
  pullback |-> {b \in [kind: {"pullback"}, t5: {-2, 1, 2}, t15: {Cold, -1, 1}, ema9: {20, 30}, ema21: {20, 30},
                low: {0, 20, 40}, high: {20, 40, 60}, close: {10, 20, 40, 60}, rsi: {Cold, 45, 55}, atr: {40}] :
                  b.low <= b.close /\ b.close <= b.high},
  reclaim9 |-> {[kind |-> "reclaim9", allowed |-> TRUE, between10and1515 |-> t, volume |-> TRUE, rsi |-> m.rsi,
                 vwap |-> 20, aligned |-> m.aligned, ema9 |-> m.ema9, ema21 |-> m.ema21, atr |-> 20,
                 low |-> c.low, high |-> c.high, open |-> c.open, close |-> c.close] :
                  t \in BOOLEAN, c \in MCBodies,
                  m \in [rsi: {Cold, 24, 52}, aligned: {-1, 0, 1}, ema9: {20, 40}, ema21: {20, 40}]},
  reclaim |-> {b \in [kind: {"reclaim"}, enough: BOOLEAN, vwap: {40}, below: {2, 4}, above: {2, 4},
               closes: [1..3 -> {20, 40, 60}], lowest: {0, 20}, highest: {60, 80}, t15: {-2, -1, 2},
               ema21: {20, 60}, atr: {20, 60}] : b.below + b.above <= 6},
  hour |-> {b \in [kind: {"hour"}, rsi: {Cold, 51, 52}, daily: {1, 2}, ema9: {20, 40}, ema21: {20, 40},
            ema50: {20, 40}, low: MCGrid, close: MCGrid, macd: {-1, 1}, atr: {20, 40}] : b.low <= b.close},
  day |-> [kind: {"day"}, closes: [1..3 -> {20, 40, 60}], pivot: {20, 40}, volume: BOOLEAN,
           daily: {-1, 1, 2}, ema21: {20}, atr: {20, 40}]]

MCPlaces ==
  {[hour |-> "day", auction |-> a] :
     a \in {"none", "one-timeframing up", "one-timeframing down", "p-shape", "b-shape"}}
  \cup {[hour |-> h, auction |-> "none"] : h \in {"early", "late"}}

MCLevels ==
  {[long |-> e > s, entry |-> e, stop |-> s, targets |-> [i \in 1..n |-> e + i * (e - s)]] :
     e \in {100, 250, 1000}, s \in {90, 240, 250}, n \in {1, 3}}

MCQuotes ==
  {NoLeg, NoQuote} \cup
  {q \in [bid: {3, 4, 100, 240}, ask: {5, 104, 110, 250}, delta: {30, 45}] : q.bid <= q.ask}

MCResults == {-1, 2}

MCSetup == [cutoff |-> 5, flatten |-> 9, body |-> 50, buffer |-> 15, partial |-> 1, runner |-> 200,
            levels |-> FALSE, tolerance |-> 25, slippage |-> 5, manipulation |-> 20]
MCSetups == {MCSetup, [MCSetup EXCEPT !.flatten = 7], [MCSetup EXCEPT !.partial = 2],
             [MCSetup EXCEPT !.runner = 50, !.levels = TRUE]}

MCUp   == <<Candle(40, 60, 40, 60), Candle(60, 80, 60, 80), Candle(80, 100, 60, 80)>>
MCDown == <<Candle(100, 100, 80, 80), Candle(80, 80, 60, 60), Candle(60, 80, 40, 60)>>
MCMornings == [first: {MCUp, MCDown}, daily: {100, 400}, high: {90, 140}, low: {50, 20}]

MCCandles ==
  {Candle(100, 120, 90, 100), Candle(40, 60, 0, 20)} \cup
  {b \in [open: {40, 80}, high: {80, 100}, low: {20, 40, 60}, close: {40, 60, 80}] :
     b.low <= Min({b.open, b.close}) /\ Max({b.open, b.close}) <= b.high}

MCRules ==
  {[initial |-> 125, trail |-> 150, activation |-> 75, confirm |-> 1, align |-> FALSE,
    cooldown |-> 1, shorts |-> TRUE, offset |-> 10],
   [initial |-> 100, trail |-> 100, activation |-> 75, confirm |-> 2, align |-> TRUE,
    cooldown |-> 0, shorts |-> FALSE, offset |-> 10]}

\* A full session, whose last bar but one straddles the flatten time, and a
\* half day, which ends before it.
MCPatterns == {<<FALSE, FALSE, TRUE, FALSE>>, <<FALSE, FALSE>>}

MCPrices == {Candle(40, 60, 40, 60), Candle(60, 80, 40, 40), Candle(60, 80, 60, 80),
             Candle(80, 80, 60, 60), Candle(60, 61, 40, 40), Candle(40, 100, 20, 80),
             Candle(58, 59, 40, 40), Candle(30, 40, 20, 40)}

-----------------------------------------------------------------------------
(* The parts.                                                              *)

\* A part that is not explored stays in one of its initial states.
One(S) == CHOOSE x \in S : TRUE

MarketRest      == calendar = [trading |-> {0}, half |-> {}] /\ MarketInit
CalibrationRest == raw = <<[lo |-> Top - 2, hi |-> Top, n |-> 1, wins |-> 0]>> /\ CalibrationInit
StudyRest       == observed = 1 /\ trades = [v \in 1..Variants |-> <<>>] /\ StudyInit
ReversalRest    == config = One(Setups) /\ morning = One(Mornings) /\ ReversalInit

CrossoverRest ==
  /\ rule = One(Rules) /\ session = One(Patterns) /\ close = One({b.close : b \in Prices})
  /\ ema = One(Averages) /\ range = One(TrueRanges) /\ CrossoverInit

Init ==
  /\ subject \in Parts
  /\ AccountInit /\ DeliveryInit /\ StrategyInit /\ ComposerInit
  /\ IF subject = "desk" THEN DeskInit ELSE DeskInit /\ people = {}
  /\ IF subject = "clock" THEN MarketInit ELSE MarketRest
  /\ IF subject = "calibration" THEN CalibrationInit ELSE CalibrationRest
  /\ IF subject = "tuning" THEN StudyInit ELSE StudyRest
  /\ IF subject = "reversal" THEN ReversalInit ELSE ReversalRest
  /\ IF subject = "crossover" THEN CrossoverInit ELSE CrossoverRest

\* The parts that are not explored stay as they are.
OthersRest ==
  /\ IF subject = "accounts" THEN TRUE ELSE UNCHANGED accountVars
  /\ IF subject = "desk" THEN TRUE ELSE UNCHANGED deskVars
  /\ IF subject = "delivery" THEN TRUE ELSE UNCHANGED deliveryVars
  /\ IF subject \in {"clock", "rollup"} THEN TRUE ELSE UNCHANGED marketVars
  /\ IF subject = "strategies" THEN TRUE ELSE UNCHANGED strategyVars
  /\ IF subject = "composer" THEN TRUE ELSE UNCHANGED composerVars
  /\ IF subject = "calibration" THEN TRUE ELSE UNCHANGED calibrationVars
  /\ IF subject = "tuning" THEN TRUE ELSE UNCHANGED studyVars
  /\ IF subject = "reversal" THEN TRUE ELSE UNCHANGED reversalVars
  /\ IF subject = "crossover" THEN TRUE ELSE UNCHANGED crossoverVars

Next ==
  /\ subject' = subject /\ OthersRest
  /\ \/ subject = "accounts" /\ AccountNext
     \/ subject = "desk" /\ DeskNext
     \/ subject = "delivery" /\ DeliveryNext
     \/ subject = "clock" /\ NextHalfBar
     \/ subject = "rollup" /\ \E b \in Bars : Feed(b)
     \/ subject = "strategies" /\ BarCloses
     \/ subject = "composer" /\ Compose
     \/ subject = "calibration" /\ CalibrationNext
     \/ subject = "tuning" /\ Tune
     \/ subject = "reversal" /\ ReversalNext
     \/ subject = "crossover" /\ CrossoverNext

Spec == Init /\ [][Next]_terminalVars
-----------------------------------------------------------------------------
\* The state of every part has its type.
PartsTypeOK ==
  /\ AccountTypeOK /\ DeskTypeOK /\ DeliveryTypeOK /\ MarketTypeOK /\ ComposerTypeOK
  /\ CalibrationTypeOK /\ StudyTypeOK /\ ReversalTypeOK /\ CrossoverTypeOK
=============================================================================
