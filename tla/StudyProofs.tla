---------------------------- MODULE StudyProofs -----------------------------
(***************************************************************************)
(* Proofs about the learning and research side: what the two backtests     *)
(* book for a trade, the calibration of scores, and the choice of a        *)
(* winning variant.  The last section puts them beside the parts of        *)
(* TerminalProofs: MCTerminal is all of them, each by itself.              *)
(***************************************************************************)
EXTENDS MCTerminal, TerminalProofs

-----------------------------------------------------------------------------
(* Candles and sides.                                                      *)

Sides == {1, -1}

\* A candle.
Bar(b) == /\ b.open \in Int /\ b.high \in Int /\ b.low \in Int /\ b.close \in Int
          /\ b.low <= b.open /\ b.open <= b.high /\ b.low <= b.close /\ b.close <= b.high

\* Price a is on the side's winning side of price b, or at it.
NoWorse(side, a, b) == IF side > 0 THEN a >= b ELSE a <= b

\* A side is a sign.
LEMMA SideTimes ==
  ASSUME NEW side \in Sides, NEW x \in Int
  PROVE  side * x = IF side > 0 THEN x ELSE -x
BY DEF Sides

-----------------------------------------------------------------------------
(* The crossover backtest: a stop only tightens.                           *)

\* An order for the next bar, and a position.
Orders == [side : Sides, range : Nat]
Positions == [side : Sides, entry : Int, initial : Int, stop : Int, risk : Nat, best : Int]

\* The stop is no further from the entry than the risk.
Guarded(p) == NoWorse(p.side, p.stop, p.entry - p.side * p.risk)

\* The better and the worse of two prices, for a side.
LEMMA BetterIs ==
  ASSUME NEW side, NEW a \in Int, NEW b \in Int
  PROVE  /\ Better(side, a, b) = IF NoWorse(side, a, b) THEN a ELSE b
         /\ Worse(side, a, b) = IF NoWorse(side, b, a) THEN a ELSE b
BY TwoNumbers DEF Better, Worse, NoWorse

\* A percentage of a true range is a distance.
LEMMA MultipleIs ==
  ASSUME NEW percent \in Nat, NEW x \in Nat
  PROVE  Multiple(percent, x) \in Nat
<1>1. percent * x \in Nat
  OBVIOUS
<1> QED BY <1>1 DEF Multiple

\* A position opens at the bar's open, its stop as far away as its risk.
LEMMA OpenedIs ==
  ASSUME rule.initial \in Nat, NEW order \in Orders, NEW b, Bar(b)
  PROVE  LET p == Opened(order, b) IN
         /\ p \in Positions /\ Guarded(p) /\ p.side = order.side
         /\ p.stop = p.entry - p.side * p.risk /\ p.entry = b.open
<1>1. PICK risk \in Nat : risk = Multiple(rule.initial, order.range)
  BY MultipleIs DEF Orders
<1>2. PICK off \in Int : off = order.side * risk
  BY DEF Orders, Sides
<1>3. Opened(order, b) = [side |-> order.side, entry |-> b.open, initial |-> b.open - off,
                          stop |-> b.open - off, risk |-> risk, best |-> 0]
  BY <1>1, <1>2 DEF Opened
<1>4. order.side \in Sides /\ b.open \in Int
  BY DEF Orders, Bar
<1> QED BY <1>2, <1>3, <1>4 DEF Positions, Guarded, NoWorse

\* A trade of this position that ends at this price loses no more than its risk.
Affordable(p, price) == p.side * (price - p.entry) >= -p.risk

\* A price that has not passed the stop costs no more than the risk.
LEMMA AtTheStop ==
  ASSUME NEW p \in Positions, Guarded(p), NEW price \in Int, NoWorse(p.side, price, p.stop)
  PROVE  Affordable(p, price) /\ NoWorse(p.side, price, p.entry - p.side * p.risk)
<1>1. p.side \in Sides /\ p.entry \in Int /\ p.stop \in Int /\ p.risk \in Int
  BY DEF Positions
<1>2. PICK far \in Int : far = p.side * p.risk /\ far = IF p.side > 0 THEN p.risk ELSE -p.risk
  BY <1>1, SideTimes
<1>3. PICK won \in Int :
      won = p.side * (price - p.entry) /\ won = IF p.side > 0 THEN price - p.entry ELSE -(price - p.entry)
  BY <1>1, SideTimes
<1>4. NoWorse(p.side, price, p.entry - far)
  BY <1>1, <1>2 DEF Guarded, NoWorse
<1>5. won >= -p.risk
  BY <1>1, <1>2, <1>3, <1>4 DEF NoWorse
<1> QED BY <1>2, <1>3, <1>4, <1>5 DEF Affordable

\* And conversely.
LEMMA WithinRisk ==
  ASSUME NEW p \in Positions, NEW price \in Int, NoWorse(p.side, price, p.entry - p.side * p.risk)
  PROVE  Affordable(p, price)
<1>1. p.side \in Sides /\ p.entry \in Int /\ p.risk \in Int
  BY DEF Positions
<1>2. PICK far \in Int : far = p.side * p.risk /\ far = IF p.side > 0 THEN p.risk ELSE -p.risk
  BY <1>1, SideTimes
<1>3. PICK won \in Int :
      won = p.side * (price - p.entry) /\ won = IF p.side > 0 THEN price - p.entry ELSE -(price - p.entry)
  BY <1>1, SideTimes
<1>4. won >= -p.risk
  BY <1>1, <1>2, <1>3 DEF NoWorse
<1> QED BY <1>3, <1>4 DEF Affordable

\* A stop is filled at its price, or worse when the bar opens beyond it, and
\* no better than the bar reached, but for the spread.
LEMMA StopPriceIs ==
  ASSUME rule.offset \in Nat, range \in Nat, NEW p \in Positions, NEW b, Bar(b), StopHit(p, b)
  PROVE  LET f == StopFill(p, b) IN
         /\ f \in {p.stop, Worse(p.side, p.stop, b.open)}
         /\ p.side * (f - (IF p.side > 0 THEN b.high ELSE b.low)) <= Multiple(rule.offset, range)
         /\ f \in Int /\ (f = p.stop \/ p.side * (b.open - p.stop) < 0)
<1>1. p.side \in Sides /\ p.stop \in Int /\ b.open \in Int /\ b.high \in Int /\ b.low \in Int
      /\ b.low <= b.open /\ b.open <= b.high
  BY DEF Positions, Bar
<1>2. PICK off \in Nat : off = Multiple(rule.offset, range)
  BY MultipleIs
<1>3. PICK gap \in Int :
      gap = p.side * (b.open - p.stop) /\ gap = IF p.side > 0 THEN b.open - p.stop ELSE -(b.open - p.stop)
  BY <1>1, SideTimes
<1>4. PICK f : f = StopFill(p, b) /\ f = IF gap < -off THEN b.open ELSE p.stop
  BY <1>2, <1>3 DEF StopFill
<1>5. f \in Int
  BY <1>1, <1>4
<1>6. PICK edge \in Int : edge = IF p.side > 0 THEN b.high ELSE b.low
  BY <1>1
<1>7. PICK over \in Int :
      over = p.side * (f - edge) /\ over = IF p.side > 0 THEN f - edge ELSE -(f - edge)
  BY <1>1, <1>5, <1>6, SideTimes
<1>8. over <= off
  BY <1>1, <1>3, <1>4, <1>6, <1>7
<1>9. gap < -off => Worse(p.side, p.stop, b.open) = b.open /\ gap < 0
  BY <1>1, <1>3, BetterIs DEF NoWorse
<1> QED BY <1>2, <1>3, <1>4, <1>5, <1>6, <1>7, <1>8, <1>9

-----------------------------------------------------------------------------
CrossTypes ==
  /\ rule \in Rules /\ session \in Patterns /\ at \in 0..Len(session) /\ bar \in 0..LastBar
  /\ close \in Int /\ ema \in Int /\ range \in Nat
  /\ above \in 0..rule.confirm /\ below \in 0..rule.confirm /\ cooldown \in 0..rule.cooldown
  /\ rested \in Nat

\* What is open is no further under water than its risk, at the last close too.
Held(p) == p \in Positions /\ Guarded(p) /\ NoWorse(p.side, close, p.entry - p.side * p.risk)

Waiting ==
  /\ pending = Absent \/ pending \in Orders
  /\ position = Absent \/ Held(position)

\* The ghost counts at least what the cooldown has used up.
Cooling == rested + cooldown >= rule.cooldown

\* After the flatten bar nothing is open, and on its next bar nothing opens.
Flattened ==
  /\ (\E i \in 1..at : session[i]) => position = Absent
  /\ (at \in 1..Len(session) /\ session[at]) => pending = Absent

CrossInv == CrossTypes /\ Waiting /\ Cooling /\ Flattened

\* The position that a bar manages: the one there is, or the one it opens.
AtWork(b, flat) ==
  IF pending # Absent /\ position = Absent /\ ~flat /\ cooldown = 0 THEN Opened(pending, b) ELSE position

\* The position that a bar manages keeps its guard, and it opens on the order
\* of an earlier bar, outside the cooldown and before the flatten time.
LEMMA AtWorkIs ==
  ASSUME CrossInv, NEW b, Bar(b), NEW flat \in BOOLEAN
  PROVE  LET p == AtWork(b, flat) IN
         /\ p = Absent \/ (p \in Positions /\ Guarded(p))
         /\ position # Absent => p = position
         /\ (position = Absent /\ p # Absent) =>
              /\ cooldown = 0 /\ pending # Absent /\ ~flat
              /\ p.stop = p.entry - p.side * p.risk
<1>1. rule.initial \in Nat
  BY RulesAreValid DEF CrossInv, CrossTypes
<1>2. position = Absent \/ (position \in Positions /\ Guarded(position))
  BY DEF CrossInv, Waiting, Held
<1>3. CASE pending # Absent /\ position = Absent /\ ~flat /\ cooldown = 0
  <2>1. pending \in Orders /\ AtWork(b, flat) = Opened(pending, b)
    BY <1>3 DEF CrossInv, Waiting, AtWork
  <2> QED BY <1>1, <1>3, <2>1, OpenedIs
<1>4. CASE ~(pending # Absent /\ position = Absent /\ ~flat /\ cooldown = 0)
  <2>1. AtWork(b, flat) = position
    BY <1>4 DEF AtWork
  <2> QED BY <1>2, <2>1
<1> QED BY <1>3, <1>4

\* What the bar does to it before its close.
LEMMA IntrabarIs ==
  ASSUME NEW b, NEW flat \in BOOLEAN, NEW p, p = AtWork(b, flat)
  PROVE  LET i == Intrabar(b, flat) IN
         \/ p = Absent /\ i = [position |-> Absent, exit |-> Absent, stopped |-> FALSE]
         \/ /\ p # Absent /\ flat
            /\ i = [position |-> Absent, exit |-> Closed(p, "SESSION_FLATTEN", b.open, b), stopped |-> FALSE]
         \/ /\ p # Absent /\ ~flat /\ StopHit(p, b)
            /\ i = [position |-> Absent, exit |-> Closed(p, "TRAIL_STOP", StopFill(p, b), b), stopped |-> TRUE]
         \/ /\ p # Absent /\ ~flat /\ ~StopHit(p, b)
            /\ i = [position |-> [p EXCEPT !.best = Favourable(p, b)], exit |-> Absent, stopped |-> FALSE]
<1>1. Intrabar(b, flat) =
        IF p = Absent THEN [position |-> Absent, exit |-> Absent, stopped |-> FALSE]
        ELSE IF flat
        THEN [position |-> Absent, exit |-> Closed(p, "SESSION_FLATTEN", b.open, b), stopped |-> FALSE]
        ELSE IF StopHit(p, b)
        THEN [position |-> Absent, exit |-> Closed(p, "TRAIL_STOP", StopFill(p, b), b), stopped |-> TRUE]
        ELSE [position |-> [p EXCEPT !.best = Favourable(p, b)], exit |-> Absent, stopped |-> FALSE]
  BY DEF Intrabar, AtWork
<1> QED BY <1>1

\* A position whose stop the bar did not touch.
LEMMA StaysHeld ==
  ASSUME NEW b, Bar(b), NEW p \in Positions, Guarded(p), ~StopHit(p, b),
         NEW q, q = [p EXCEPT !.best = Favourable(p, b)]
  PROVE  /\ q \in Positions /\ Guarded(q)
         /\ q.side = p.side /\ q.entry = p.entry /\ q.stop = p.stop /\ q.risk = p.risk
         /\ NoWorse(q.side, b.close, q.entry - q.side * q.risk)
<1>1. Favourable(p, b) \in Int
  <2>1. p.best \in Int /\ p.entry \in Int /\ b.high \in Int /\ b.low \in Int
    BY DEF Positions, Bar
  <2>2. PICK x \in Int : x = IF p.side > 0 THEN b.high - p.entry ELSE p.entry - b.low
    BY <2>1
  <2> QED BY <2>1, <2>2, TwoNumbers DEF Favourable
<1>2. q \in Positions /\ q.side = p.side /\ q.entry = p.entry /\ q.stop = p.stop /\ q.risk = p.risk
  BY <1>1 DEF Positions
<1>3. NoWorse(p.side, b.close, p.stop)
  BY DEF StopHit, NoWorse, Positions, Bar
<1>4. NoWorse(p.side, b.close, p.entry - p.side * p.risk)
  BY <1>3, AtTheStop DEF Bar
<1> QED BY <1>2, <1>4 DEF Guarded

\* _simulate_symbol moves a stop towards the price or not at all.
LEMMA RatchetIs ==
  ASSUME NEW q \in Positions, Guarded(q), {rule.trail, rule.activation} \subseteq Nat,
         NEW e \in Int, NEW r \in Nat, NEW k, k = Ratchet(q, e, r)
  PROVE  /\ k \in Positions /\ Guarded(k)
         /\ k.side = q.side /\ k.entry = q.entry /\ k.risk = q.risk
         /\ Better(q.side, q.stop, k.stop) = k.stop
<1>1. q.side \in Sides /\ q.entry \in Int /\ q.stop \in Int /\ q.risk \in Nat /\ q.best \in Int
  BY DEF Positions
<1>2. PICK trail \in Int : trail = e - q.side * Multiple(rule.trail, r)
  <2>1. PICK x \in Nat : x = Multiple(rule.trail, r)
    BY MultipleIs
  <2>2. q.side * x \in Int
    BY <1>1, SideTimes
  <2> QED BY <2>1, <2>2
<1>3. PICK t \in Int : t = Trail(q, e, r)
  <2>1. Better(q.side, trail, q.entry) \in Int
    BY <1>1, BetterIs
  <2> QED BY <1>2, <2>1 DEF Trail
<1>4. PICK s \in Int : s = Better(q.side, q.stop, t) /\ NoWorse(q.side, s, q.stop)
  BY <1>1, BetterIs DEF NoWorse
<1>5. k = [q EXCEPT !.stop = s]
  BY <1>3, <1>4 DEF Ratchet
<1>6. k \in Positions /\ k.side = q.side /\ k.entry = q.entry /\ k.risk = q.risk /\ k.stop = s
  BY <1>5 DEF Positions
<1>7. Better(q.side, q.stop, s) = s
  BY <1>1, <1>4, BetterIs DEF NoWorse
<1>8. NoWorse(q.side, s, q.entry - q.side * q.risk)
  BY <1>4, AtTheStop
<1> QED BY <1>6, <1>7, <1>8 DEF Guarded

\* The orders and the counts.
LEMMA CountedIs ==
  ASSUME rule.confirm \in Nat \ {0}, NEW count \in 0..rule.confirm, NEW crossed, NEW beyond
  PROVE  Counted(count, crossed, beyond) \in 0..rule.confirm
<1>1. PICK n, c : n = count + 1 /\ c = rule.confirm /\ n \in Nat /\ c \in Nat /\ n \in Int /\ c \in Int
  OBVIOUS
<1>2. Min({n, c}) = IF n <= c THEN n ELSE c
  BY ONLY <1>1, TwoNumbers
<1>3. Min({n, c}) \in 0..c
  BY <1>1, <1>2
<1> QED BY <1>1, <1>3 DEF Counted

\* What is armed at the close is an order or nothing.
LEMMA ArmedIs ==
  ASSUME rule.confirm \in Nat \ {0}, range' \in Nat, NEW order, order = Absent \/ order \in Orders,
         NEW free, NEW up \in 0..rule.confirm, NEW down \in 0..rule.confirm, NEW allowed,
         NEW a, a = Armed(order, free, up, down, allowed)
  PROVE  /\ a.pending = Absent \/ a.pending \in Orders
         /\ a.above \in 0..rule.confirm /\ a.below \in 0..rule.confirm
<1>1. [side |-> 1, range |-> range'] \in Orders /\ [side |-> -1, range |-> range'] \in Orders
  BY DEF Orders, Sides
<1> DEFINE same == [pending |-> order, above |-> up, below |-> down]
<1>2. 0 \in 0..rule.confirm
  OBVIOUS
<1> DEFINE Sound(x) == /\ x.pending = Absent \/ x.pending \in Orders
                       /\ x.above \in 0..rule.confirm /\ x.below \in 0..rule.confirm
<1>4. Sound(same)
  OBVIOUS
<1>5. Sound([same EXCEPT !.pending = [side |-> 1, range |-> range'], !.above = 0])
  BY <1>1, <1>2
<1>6. Sound([same EXCEPT !.pending = [side |-> -1, range |-> range'], !.below = 0])
  BY <1>1, <1>2
<1>7. Sound([same EXCEPT !.pending = Absent])
  OBVIOUS
<1>3. a \in {same, [same EXCEPT !.pending = [side |-> 1, range |-> range'], !.above = 0],
             [same EXCEPT !.pending = [side |-> -1, range |-> range'], !.below = 0],
             [same EXCEPT !.pending = Absent]}
  BY DEF Armed
<1>8. Sound(a)
  <2> HIDE DEF Sound, same
  <2> QED BY <1>3, <1>4, <1>5, <1>6, <1>7
<1> QED BY <1>8

-----------------------------------------------------------------------------
\* One bar, with names for its intermediate results.
BarStep(b, flat, i, up, down, out, kept, order, armed) ==
  /\ i = Intrabar(b, flat)
  /\ up \in 0..rule.confirm /\ down \in 0..rule.confirm
  /\ out => i.position # Absent
  /\ kept = IF i.position = Absent \/ out THEN Absent ELSE Ratchet(i.position, ema', range')
  /\ order = IF i.position # Absent \/ i.exit # Absent THEN Absent ELSE pending
  /\ \E free, allowed : armed = Armed(order, free, up, down, allowed)
  /\ exit' = IF out THEN Closed(i.position, "EMA9_CROSS", b.close, b) ELSE i.exit
  /\ position' = kept
  /\ cooldown' = IF i.stopped THEN rule.cooldown ELSE Max({cooldown - 1, 0})
  /\ pending' = IF flat THEN Absent ELSE armed.pending
  /\ above' = armed.above /\ below' = armed.below
  /\ rested' = IF i.stopped THEN 0 ELSE Min({rested + 1, rule.cooldown + 1})

\* Every bar of the backtest is such a step.
LEMMA BarSteps ==
  ASSUME CrossInv, NEW b \in Prices, NextBar(b)
  PROVE  \E flat, i, up, down, out, kept, order, armed :
           flat = session'[at'] /\ out \in BOOLEAN /\ BarStep(b, flat, i, up, down, out, kept, order, armed)
<1> DEFINE flat == session'[at']
           i    == Intrabar(b, flat)
           up   == Counted(above, close <= ema, b.close > ema')
           down == Counted(below, close >= ema, b.close < ema')
           out  == i.position # Absent /\ CrossAgainst(i.position, up, down)
           kept == IF i.position = Absent \/ out THEN Absent ELSE Ratchet(i.position, ema', range')
           order == IF i.position # Absent \/ i.exit # Absent THEN Absent ELSE pending
           free == kept = Absent /\ ~(i.stopped /\ rule.cooldown > 0) /\ cooldown = 0
<1>1. PICK allowed :
        LET armed == Armed(order, free, up, down, allowed)
        IN /\ exit' = IF out THEN Closed(i.position, "EMA9_CROSS", b.close, b) ELSE i.exit
           /\ position' = kept
           /\ cooldown' = IF i.stopped THEN rule.cooldown ELSE Max({cooldown - 1, 0})
           /\ pending' = IF flat THEN Absent ELSE armed.pending
           /\ above' = armed.above /\ below' = armed.below
           /\ rested' = IF i.stopped THEN 0 ELSE Min({rested + 1, rule.cooldown + 1})
  BY DEF NextBar
<1>2. up \in 0..rule.confirm /\ down \in 0..rule.confirm
  <2>1. rule.confirm \in Nat \ {0} /\ above \in 0..rule.confirm /\ below \in 0..rule.confirm
    BY RulesAreValid DEF CrossInv, CrossTypes
  <2> QED BY <2>1, CountedIs
<1>3. out => i.position # Absent
  OBVIOUS
<1>4. out \in BOOLEAN
  OBVIOUS
<1> HIDE DEF free, out, up, down
<1>5. BarStep(b, flat, i, up, down, out, kept, order, Armed(order, free, up, down, allowed))
  BY <1>1, <1>2, <1>3 DEF BarStep
<1> QED BY <1>4, <1>5

\* What every bar leaves of the rules and the calendar of the session.
LEMMA BarFrame ==
  ASSUME CrossInv, NEW b \in Prices, NextBar(b)
  PROVE  /\ Bar(b) /\ rule' = rule /\ bar' = bar + 1 /\ bar' \in 0..LastBar
         /\ close' = b.close /\ ema' \in Int /\ range' \in Nat
         /\ session' \in Patterns /\ at' \in 1..Len(session') /\ Len(session') \in Nat
         /\ (session' = session /\ at' = at + 1) \/ at' = 1
<1>1. Bar(b)
  BY PricesAreBars DEF Bar
<1>2. rule' = rule /\ bar' = bar + 1 /\ bar' \in 0..LastBar
  BY DataEnds DEF NextBar, CrossInv, CrossTypes
<1>3. close' = b.close /\ ema' \in Int /\ range' \in Nat
  BY PricesAreBars DEF NextBar, Moved
<1>4. Tick /\ session \in Patterns /\ at \in 0..Len(session)
  BY DEF NextBar, CrossInv, CrossTypes
<1>5. \A s \in Patterns : s \in Seq(BOOLEAN) /\ s # <<>> /\ Len(s) \in Nat
  BY FlattenIsLate
<1>6. \A s \in Patterns : Len(s) >= 1
  BY <1>5
<1> QED BY <1>1, <1>2, <1>3, <1>4, <1>5, <1>6 DEF Tick

\* The cooldown counts down, and the ghost counts up with it.
LEMMA BarCools ==
  ASSUME CrossInv, rule' = rule, NEW stopped,
         cooldown' = IF stopped THEN rule.cooldown ELSE Max({cooldown - 1, 0}),
         rested' = IF stopped THEN 0 ELSE Min({rested + 1, rule.cooldown + 1})
  PROVE  cooldown' \in 0..rule'.cooldown /\ rested' \in Nat /\ Cooling'
<1>1. PICK c, d, r : /\ c = cooldown /\ d = rule.cooldown /\ r = rested
                     /\ c \in Int /\ d \in Int /\ r \in Int /\ 0 <= c /\ c <= d /\ 0 <= r /\ r + c >= d
  BY RulesAreValid DEF CrossInv, CrossTypes, Cooling
<1>2. Max({c - 1, 0}) = (IF c - 1 >= 0 THEN c - 1 ELSE 0) /\
      Min({r + 1, d + 1}) = (IF r + 1 <= d + 1 THEN r + 1 ELSE d + 1)
  <2>1. c - 1 \in Int /\ 0 \in Int /\ r + 1 \in Int /\ d + 1 \in Int
    BY <1>1
  <2> QED BY ONLY <2>1, TwoNumbers
<1>3. CASE stopped
  BY <1>1, <1>3 DEF Cooling
<1>4. CASE ~stopped
  BY <1>1, <1>2, <1>4 DEF Cooling
<1> QED BY <1>3, <1>4

\* What a closed trade is honest about.
Honest(x) ==
  x.side # 0 => \/ x.side * (x.price - x.entry) >= -x.risk
                \/ x.side * (x.bar.open - x.stop) < 0

\* A trade that is closed this way is honest.
LEMMA ClosedIs ==
  ASSUME NEW p \in Positions, NEW reason, NEW price, NEW b,
         Affordable(p, price) \/ p.side * (b.open - p.stop) < 0
  PROVE  /\ Honest(Closed(p, reason, price, b))
         /\ Closed(p, reason, price, b).reason = reason /\ Closed(p, reason, price, b).side = p.side
         /\ Closed(p, reason, price, b) # Absent
<1>1. p.side # 0
  BY DEF Positions, Sides
<1>2. Closed(p, reason, price, b) =
        [side |-> p.side, entry |-> p.entry, risk |-> p.risk, stop |-> p.stop, reason |-> reason, price |-> price, bar |-> b]
  BY DEF Closed
<1>3. Closed(p, reason, price, b).side # Absent.side
  BY <1>1, <1>2 DEF Absent
<1> QED BY <1>2, <1>3 DEF Honest, Affordable

\* What becomes of the managed position: it is flattened, stopped, crossed
\* out, or kept with a stop that has not loosened.
LEMMA BarOutcome ==
  ASSUME CrossInv, NEW b \in Prices, NextBar(b), NEW p, p = AtWork(b, session'[at'])
  PROVE  /\ pending' = Absent \/ pending' \in Orders
         /\ session'[at'] => pending' = Absent
         /\ above' \in 0..rule.confirm /\ below' \in 0..rule.confirm
         /\ cooldown' \in 0..rule'.cooldown /\ rested' \in Nat /\ Cooling'
         /\ \/ p = Absent /\ position' = Absent /\ exit' = Absent
            \/ p # Absent /\ position' = Absent /\ exit' = Closed(p, "SESSION_FLATTEN", b.open, b)
            \/ /\ p # Absent /\ StopHit(p, b)
               /\ position' = Absent /\ exit' = Closed(p, "TRAIL_STOP", StopFill(p, b), b)
            \/ /\ p # Absent /\ ~StopHit(p, b) /\ ~session'[at']
               /\ LET q == [p EXCEPT !.best = Favourable(p, b)] IN
                  \/ position' = Absent /\ exit' = Closed(q, "EMA9_CROSS", b.close, b)
                  \/ position' = Ratchet(q, ema', range') /\ exit' = Absent
<1>1. PICK flat, i, up, down, out, kept, order, armed :
        flat = session'[at'] /\ out \in BOOLEAN /\ BarStep(b, flat, i, up, down, out, kept, order, armed)
  BY BarSteps
<1>2. flat \in BOOLEAN
  <2>1. session' \in Seq(BOOLEAN) /\ at' \in 1..Len(session')
    BY BarFrame, FlattenIsLate
  <2> QED BY <1>1, <2>1
<1>3. \/ p = Absent /\ i = [position |-> Absent, exit |-> Absent, stopped |-> FALSE]
      \/ /\ p # Absent /\ flat
         /\ i = [position |-> Absent, exit |-> Closed(p, "SESSION_FLATTEN", b.open, b), stopped |-> FALSE]
      \/ /\ p # Absent /\ ~flat /\ StopHit(p, b)
         /\ i = [position |-> Absent, exit |-> Closed(p, "TRAIL_STOP", StopFill(p, b), b), stopped |-> TRUE]
      \/ /\ p # Absent /\ ~flat /\ ~StopHit(p, b)
         /\ i = [position |-> [p EXCEPT !.best = Favourable(p, b)], exit |-> Absent, stopped |-> FALSE]
  BY <1>1, <1>2, IntrabarIs DEF BarStep
<1>4. /\ pending' = Absent \/ pending' \in Orders
      /\ above' \in 0..rule.confirm /\ below' \in 0..rule.confirm
  <2>1. rule.confirm \in Nat \ {0} /\ range' \in Nat /\ (order = Absent \/ order \in Orders)
    BY <1>1, BarFrame, RulesAreValid DEF CrossInv, CrossTypes, Waiting, BarStep
  <2>2. PICK free, allowed : armed = Armed(order, free, up, down, allowed)
    BY <1>1 DEF BarStep
  <2>3. /\ armed.pending = Absent \/ armed.pending \in Orders
        /\ armed.above \in 0..rule.confirm /\ armed.below \in 0..rule.confirm
    BY <1>1, <2>1, <2>2, ArmedIs DEF BarStep
  <2> QED BY <1>1, <2>3 DEF BarStep
<1>5. cooldown' \in 0..rule'.cooldown /\ rested' \in Nat /\ Cooling'
  <2>1. rule' = rule
    BY BarFrame
  <2>2. PICK stopped : stopped = i.stopped
    OBVIOUS
  <2> QED BY <1>1, <2>1, <2>2, BarCools DEF BarStep
<1>6. session'[at'] => pending' = Absent
  BY <1>1 DEF BarStep
<1>7. \/ p = Absent /\ position' = Absent /\ exit' = Absent
      \/ p # Absent /\ position' = Absent /\ exit' = Closed(p, "SESSION_FLATTEN", b.open, b)
      \/ /\ p # Absent /\ StopHit(p, b)
         /\ position' = Absent /\ exit' = Closed(p, "TRAIL_STOP", StopFill(p, b), b)
      \/ /\ p # Absent /\ ~StopHit(p, b) /\ ~session'[at']
         /\ LET q == [p EXCEPT !.best = Favourable(p, b)] IN
            \/ position' = Absent /\ exit' = Closed(q, "EMA9_CROSS", b.close, b)
            \/ position' = Ratchet(q, ema', range') /\ exit' = Absent
  <2>1. PICK x, y : x = i.position /\ y = i.exit
    OBVIOUS
  <2>2. /\ (out => x # Absent)
        /\ exit' = IF out THEN Closed(x, "EMA9_CROSS", b.close, b) ELSE y
        /\ position' = IF x = Absent \/ out THEN Absent ELSE Ratchet(x, ema', range')
    BY <1>1, <2>1 DEF BarStep
  <2>3. \/ p = Absent /\ x = Absent /\ y = Absent
        \/ p # Absent /\ x = Absent /\ y = Closed(p, "SESSION_FLATTEN", b.open, b)
        \/ p # Absent /\ StopHit(p, b) /\ x = Absent /\ y = Closed(p, "TRAIL_STOP", StopFill(p, b), b)
        \/ p # Absent /\ ~StopHit(p, b) /\ ~flat /\ x = [p EXCEPT !.best = Favourable(p, b)] /\
              y = Absent
    BY <1>3, <2>1
  <2>4. x # Absent => p # Absent /\ ~StopHit(p, b) /\ ~flat /\
        x = [p EXCEPT !.best = Favourable(p, b)] /\ y = Absent
    BY <2>3
  <2>5. (p # Absent /\ ~StopHit(p, b)) => [p EXCEPT !.best = Favourable(p, b)] # Absent
    <3>1. p = Absent \/ (p \in Positions /\ Guarded(p))
      BY <1>2, <1>1, BarFrame, AtWorkIs
    <3>2. \A q \in Positions : q # Absent
      BY DEF Positions, Sides, Absent
    <3> QED BY <3>1, <3>2, BarFrame, StaysHeld
  <2> QED BY <1>1, <2>2, <2>3, <2>4, <2>5
<1> QED BY <1>4, <1>5, <1>6, <1>7

\* A bar keeps the invariant, and the trade it closes is honest.
LEMMA BarSound ==
  ASSUME CrossInv, NEW b \in Prices, NextBar(b)
  PROVE  CrossInv' /\ HonestBar
<1>1. /\ Bar(b) /\ rule' = rule /\ bar' = bar + 1 /\ bar' \in 0..LastBar
      /\ close' = b.close /\ ema' \in Int /\ range' \in Nat
      /\ session' \in Patterns /\ at' \in 1..Len(session') /\ Len(session') \in Nat
      /\ (session' = session /\ at' = at + 1) \/ at' = 1
  BY BarFrame
<1>2. {rule.initial, rule.trail, rule.activation, rule.cooldown, rule.offset} \subseteq Nat /\
      rule \in Rules
  BY RulesAreValid DEF CrossInv, CrossTypes
<1>3. PICK p : p = AtWork(b, session'[at'])
  OBVIOUS
<1>4. session'[at'] \in BOOLEAN
  BY <1>1, FlattenIsLate
<1>5. /\ p = Absent \/ (p \in Positions /\ Guarded(p))
      /\ position # Absent => p = position
      /\ (position = Absent /\ p # Absent) =>
           cooldown = 0 /\ pending # Absent /\ ~session'[at'] /\ p.stop = p.entry - p.side * p.risk
  BY <1>1, <1>3, <1>4, AtWorkIs
<1>6. /\ pending' = Absent \/ pending' \in Orders
      /\ session'[at'] => pending' = Absent
      /\ above' \in 0..rule.confirm /\ below' \in 0..rule.confirm
      /\ cooldown' \in 0..rule'.cooldown /\ rested' \in Nat /\ Cooling'
      /\ \/ p = Absent /\ position' = Absent /\ exit' = Absent
         \/ p # Absent /\ position' = Absent /\ exit' = Closed(p, "SESSION_FLATTEN", b.open, b)
         \/ /\ p # Absent /\ StopHit(p, b)
            /\ position' = Absent /\ exit' = Closed(p, "TRAIL_STOP", StopFill(p, b), b)
         \/ /\ p # Absent /\ ~StopHit(p, b) /\ ~session'[at']
            /\ LET q == [p EXCEPT !.best = Favourable(p, b)] IN
               \/ position' = Absent /\ exit' = Closed(q, "EMA9_CROSS", b.close, b)
               \/ position' = Ratchet(q, ema', range') /\ exit' = Absent
  BY <1>3, BarOutcome
\* Past the flatten bar.
<1>7. (\E i \in 1..at' : session'[i]) => position' = Absent
  <2> SUFFICES ASSUME NEW i \in 1..at', session'[i] PROVE position' = Absent
    OBVIOUS
  <2>1. i + 1 >= Len(session') /\ i \in Int /\ at' \in Int
    BY <1>1, FlattenIsLate
  <2>2. CASE i = at'
    BY <1>6, <2>2
  <2>3. CASE i # at'
    <3>1. at' = i + 1 /\ at' = at + 1 /\ session' = session /\ i = at /\ at \in 1..Len(session)
      BY <1>1, <2>1, <2>3 DEF CrossInv, CrossTypes
    <3>2. position = Absent /\ pending = Absent
      BY <3>1 DEF CrossInv, Flattened
    <3>3. p = Absent
      BY <1>3, <3>2 DEF AtWork
    <3> QED BY <1>6, <3>3
  <2> QED BY <2>2, <2>3
\* What stays open, and what is closed.
<1>8. /\ position' = Absent \/ Held(position)'
      /\ (position # Absent /\ position' # Absent) =>
            position'.entry = position.entry /\ Better(position.side, position.stop, position'.stop) = position'.stop
      /\ Honest(exit')
      /\ position' # Absent \/ exit' # Absent => p # Absent
      /\ (exit'.side # 0 /\ exit'.reason = "TRAIL_STOP") =>
            StopHit(p, b) /\ p # Absent /\ exit' = Closed(p, "TRAIL_STOP", StopFill(p, b), b)
  <2>1. CASE p = Absent /\ position' = Absent /\ exit' = Absent
    BY <2>1 DEF Honest, Absent
  <2>2. CASE p # Absent /\ position' = Absent /\ exit' = Closed(p, "SESSION_FLATTEN", b.open, b)
    <3>1. p \in Positions /\ Guarded(p)
      BY <1>5, <2>2
    <3>2. Affordable(p, b.open) \/ p.side * (b.open - p.stop) < 0
      <4>1. b.open \in Int /\ p.stop \in Int /\ p.side \in Sides
        BY <1>1, <3>1 DEF Bar, Positions
      <4>2. p.side * (b.open - p.stop) = IF p.side > 0 THEN b.open - p.stop ELSE -(b.open - p.stop)
        BY <4>1, SideTimes
      <4>3. NoWorse(p.side, b.open, p.stop) \/ p.side * (b.open - p.stop) < 0
        BY <4>1, <4>2 DEF NoWorse
      <4> QED BY <3>1, <4>1, <4>3, AtTheStop
    <3> QED BY <2>2, <3>1, <3>2, ClosedIs
  <2>3. CASE /\ p # Absent /\ StopHit(p, b)
             /\ position' = Absent /\ exit' = Closed(p, "TRAIL_STOP", StopFill(p, b), b)
    <3>1. p \in Positions /\ Guarded(p)
      BY <1>5, <2>3
    <3>2. Affordable(p, StopFill(p, b)) \/ p.side * (b.open - p.stop) < 0
      <4>1. StopFill(p, b) \in Int /\ (StopFill(p, b) = p.stop \/ p.side * (b.open - p.stop) < 0)
        BY <1>1, <1>2, <2>3, <3>1, StopPriceIs DEF CrossInv, CrossTypes
      <4>2. NoWorse(p.side, p.stop, p.stop) /\ p.stop \in Int
        BY <3>1 DEF Positions, NoWorse
      <4> QED BY <3>1, <4>1, <4>2, AtTheStop
    <3> QED BY <2>3, <3>1, <3>2, ClosedIs
  <2>4. CASE /\ p # Absent /\ ~StopHit(p, b) /\ ~session'[at']
             /\ LET q == [p EXCEPT !.best = Favourable(p, b)] IN
                \/ position' = Absent /\ exit' = Closed(q, "EMA9_CROSS", b.close, b)
                \/ position' = Ratchet(q, ema', range') /\ exit' = Absent
    <3>1. p \in Positions /\ Guarded(p)
      BY <1>5, <2>4
    <3>2. PICK q : q = [p EXCEPT !.best = Favourable(p, b)]
      OBVIOUS
    <3>3. /\ q \in Positions /\ Guarded(q)
          /\ q.side = p.side /\ q.entry = p.entry /\ q.stop = p.stop /\ q.risk = p.risk
          /\ NoWorse(q.side, b.close, q.entry - q.side * q.risk)
      BY <1>1, <2>4, <3>1, <3>2, StaysHeld
    <3>4. CASE position' = Absent /\ exit' = Closed(q, "EMA9_CROSS", b.close, b)
      <4>1. Affordable(q, b.close)
        BY <1>1, <3>3, WithinRisk DEF Bar
      <4>2. /\ Honest(exit') /\ exit'.reason = "EMA9_CROSS" /\ exit' # Absent
        BY <3>3, <3>4, <4>1, ClosedIs
      <4> QED BY <2>4, <3>4, <4>2
    <3>5. CASE position' = Ratchet(q, ema', range') /\ exit' = Absent
      <4>1. PICK k : k = Ratchet(q, ema', range')
        OBVIOUS
      <4>2. /\ k \in Positions /\ Guarded(k)
            /\ k.side = q.side /\ k.entry = q.entry /\ k.risk = q.risk
            /\ Better(q.side, q.stop, k.stop) = k.stop
        BY <1>1, <1>2, <3>3, <4>1, RatchetIs
      <4>3. Held(position)'
        BY <1>1, <3>3, <3>5, <4>1, <4>2 DEF Held, Guarded
      <4>4. Honest(exit') /\ exit'.side = 0
        BY <3>5 DEF Honest, Absent
      <4>5. position # Absent =>
              position'.entry = position.entry /\ Better(position.side, position.stop, position'.stop) = position'.stop
        BY <1>5, <3>3, <3>5, <4>1, <4>2
      <4> QED BY <2>4, <3>5, <4>3, <4>4, <4>5
    <3> QED BY <2>4, <3>2, <3>4, <3>5
  <2> QED BY <1>6, <2>1, <2>2, <2>3, <2>4
<1>9. CrossInv'
  <2>1. CrossTypes'
    <3>1. at' \in 0..Len(session') /\ close' \in Int /\ rule' \in Rules
      BY <1>1, <1>2 DEF Bar
    <3>2. above' \in 0..rule'.confirm /\ below' \in 0..rule'.confirm
      BY <1>1, <1>6
    <3> QED BY <1>1, <1>6, <3>1, <3>2 DEF CrossTypes
  <2>2. Waiting'
    BY <1>6, <1>8 DEF Waiting
  <2>3. Flattened'
    BY <1>6, <1>7 DEF Flattened
  <2> QED BY <1>6, <2>1, <2>2, <2>3 DEF CrossInv
<1>10. (position = Absent /\ (position' # Absent \/ exit' \notin {Absent, exit})) => rested >= rule.cooldown
  BY <1>2, <1>5, <1>8 DEF CrossInv, Cooling, CrossTypes
<1>11. (exit'.side # 0 /\ exit'.reason = "TRAIL_STOP") =>
       LET stop == IF position = Absent THEN exit'.entry - exit'.side * exit'.risk ELSE position.stop
           edge == IF exit'.side > 0 THEN exit'.bar.high ELSE exit'.bar.low
       IN /\ exit'.price \in {stop, Worse(exit'.side, stop, exit'.bar.open)}
          /\ exit'.side * (exit'.price - edge) <= Multiple(rule.offset, range)
  <2> SUFFICES ASSUME exit'.side # 0, exit'.reason = "TRAIL_STOP"
               PROVE  LET stop == IF position = Absent THEN exit'.entry - exit'.side * exit'.risk ELSE position.stop
                          edge == IF exit'.side > 0 THEN exit'.bar.high ELSE exit'.bar.low
                      IN /\ exit'.price \in {stop, Worse(exit'.side, stop, exit'.bar.open)}
                         /\ exit'.side * (exit'.price - edge) <= Multiple(rule.offset, range)
    OBVIOUS
  <2>1. StopHit(p, b) /\ p # Absent /\ exit' = Closed(p, "TRAIL_STOP", StopFill(p, b), b)
    BY <1>8
  <2>2. PICK f : f = StopFill(p, b)
    OBVIOUS
  <2>3. exit'.side = p.side /\ exit'.entry = p.entry /\ exit'.risk = p.risk /\ exit'.price = f /\
        exit'.bar = b
    BY <2>1, <2>2 DEF Closed
  <2>4. p.stop = IF position = Absent THEN p.entry - p.side * p.risk ELSE position.stop
    BY <1>5, <2>1
  <2>5. /\ f \in {p.stop, Worse(p.side, p.stop, b.open)}
        /\ p.side * (f - (IF p.side > 0 THEN b.high ELSE b.low)) <= Multiple(rule.offset, range)
    BY <1>1, <1>2, <1>5, <2>1, <2>2, StopPriceIs DEF CrossInv, CrossTypes
  <2> QED BY <2>3, <2>4, <2>5
<1> QED BY <1>7, <1>8, <1>9, <1>10, <1>11 DEF HonestBar, Honest

\* So does the end of the data.
LEMMA EndSound ==
  ASSUME CrossInv, EndOfData
  PROVE  CrossInv' /\ HonestBar
<1>1. Held(position) /\ position # Absent
  BY DEF EndOfData, CrossInv, Waiting
<1>2. PICK b : b = [open |-> close, high |-> close, low |-> close, close |-> close]
  OBVIOUS
<1>3. Affordable(position, close) /\ position \in Positions
  BY <1>1, WithinRisk DEF Held, CrossInv, CrossTypes
<1>4. exit' = Closed(position, "DATA_END", close, b)
  BY <1>2 DEF EndOfData
<1>5. Honest(exit') /\ exit'.reason = "DATA_END"
  BY <1>3, <1>4, ClosedIs
<1>6. position' = Absent /\ bar' = LastBar
      /\ UNCHANGED <<rule, session, at, close, ema, range, above, below, pending, cooldown, rested>>
  BY DEF EndOfData
<1>7. HonestBar
  BY <1>1, <1>5, <1>6 DEF HonestBar, Honest
<1>8. CrossInv'
  <2>1. CrossTypes'
    BY <1>6, DataEnds DEF CrossInv, CrossTypes
  <2>2. Waiting' /\ Cooling' /\ Flattened'
    BY <1>6 DEF CrossInv, Waiting, Cooling, Flattened
  <2> QED BY <2>1, <2>2 DEF CrossInv
<1> QED BY <1>7, <1>8

\* The state that the backtest of one symbol keeps.
THEOREM CrossoverInvariant == CrossoverSpec => []CrossInv
<1>1. CrossoverInit => CrossInv
  <2> SUFFICES ASSUME CrossoverInit PROVE CrossInv
    OBVIOUS
  <2>1. rule \in Rules /\ rule.cooldown \in Nat /\ rule.confirm \in Nat
    BY RulesAreValid DEF CrossoverInit
  <2>2. session \in Patterns /\ Len(session) \in Nat
    BY FlattenIsLate DEF CrossoverInit
  <2>3. close \in Int /\ ema \in Int /\ range \in Nat
    BY PricesAreBars DEF CrossoverInit
  <2>4. CrossTypes
    BY <2>1, <2>2, <2>3, DataEnds DEF CrossoverInit, CrossTypes
  <2>5. Waiting /\ Flattened
    BY DEF CrossoverInit, Waiting, Flattened
  <2>6. Cooling
    BY <2>1 DEF CrossoverInit, Cooling
  <2> QED BY <2>4, <2>5, <2>6 DEF CrossInv
<1>2. CrossInv /\ [CrossoverNext]_crossoverVars => CrossInv'
  <2>1. CrossInv /\ UNCHANGED crossoverVars => CrossInv'
    BY DEF crossoverVars, CrossInv, CrossTypes, Waiting, Held, Guarded, Cooling, Flattened
  <2> QED BY <2>1, BarSound, EndSound DEF CrossoverNext
<1> QED BY <1>1, <1>2, PTL DEF CrossoverSpec

\* The counters of the crossover backtest stay inside their rules.
THEOREM CrossoverTypeCorrect == CrossoverSpec => []CrossoverTypeOK
<1>1. CrossInv => CrossoverTypeOK
  BY DEF CrossInv, CrossTypes, CrossoverTypeOK
<1> QED BY <1>1, CrossoverInvariant, PTL

\* _simulate_symbol of ema9_crossover.py, for any prices and averages: a stop
\* only tightens, is filled where earlier bars had put it, a trade loses no more
\* than its risk unless a bar opens beyond its stop, and neither a cooldown nor
\* the flatten time is passed over.
THEOREM CrossoverIsHonest == CrossoverSpec => CrossoverHonest
<1>1. CrossInv /\ [CrossoverNext]_crossoverVars => [HonestBar]_crossoverVars
  BY BarSound, EndSound DEF CrossoverNext
<1> QED BY <1>1, CrossoverInvariant, PTL DEF CrossoverSpec, CrossoverHonest

-----------------------------------------------------------------------------
(* The reversal backtest: a position is closed once.                       *)

\* The position of a session: it enters on its side of the stop, short of its
\* first target, and its stop is at the entry once a part is taken.
Entries == [side : Sides, entry : Int, initial : Int, stop : Int, one : Int, two : Int,
            risk : Nat, slip : Nat, partial : BOOLEAN]

Placed(p) ==
  /\ p \in Entries
  /\ NoWorse(p.side, p.entry, p.initial) /\ p.risk = Gap(p.entry, p.initial)
  /\ NoWorse(p.side, p.one, p.entry) /\ NoWorse(p.side, p.two, p.entry)
  /\ p.stop = IF p.partial THEN p.entry ELSE p.initial
  /\ p.partial => config.partial = 1

\* A fill lies inside its bar, but for slippage.
Inside(p, f) ==
  /\ Bar(f.bar) /\ f.price \in Int /\ f.halves \in {1, 2}
  /\ NoWorse(p.side, IF p.side > 0 THEN f.bar.high ELSE f.bar.low, f.price + p.side * p.slip)

\* The first target of a split position, reached by a bar that does not touch
\* the first stop.
PartialFill(p, f) ==
  /\ Inside(p, f) /\ f.reason = "TARGET_ONE" /\ f.halves = 1
  /\ f.price = p.one - p.side * p.slip
  /\ ~Touches(p, p.initial, f.bar)

\* A fill that closes what is left.
LastFill(p, f) ==
  /\ Inside(p, f) /\ f.halves = Left(p) /\ f.reason # "TARGET_ONE"
  /\ f.reason = "TARGET_TWO" => ~Touches(p, p.stop, f.bar)
  /\ (f.reason = "STOP" /\ NoWorse(p.side, f.bar.open, p.stop)) => f.price = p.stop - p.side * p.slip
  /\ NoWorse(p.side, f.bar.open, p.initial) => NoWorse(p.side, f.price + p.side * p.slip, p.initial)

\* A asked price inside the bar makes a fill inside it.
LEMMA FillInside ==
  ASSUME NEW p \in Entries, NEW b, Bar(b), NEW reason, NEW asked \in Int, NEW halves \in {1, 2},
         NoWorse(p.side, IF p.side > 0 THEN b.high ELSE b.low, asked),
         NEW f, f = Fill(reason, asked, halves, p, b)
  PROVE  /\ Inside(p, f) /\ f.reason = reason /\ f.halves = halves /\ f.bar = b
         /\ f.price = asked - p.side * p.slip /\ f.price + p.side * p.slip = asked
<1>1. PICK cost \in Int : cost = p.side * p.slip
  BY SideTimes DEF Entries
<1>2. f = [reason |-> reason, price |-> asked - cost, halves |-> halves, bar |-> b]
  BY <1>1 DEF Fill, ExitFill
<1>3. asked - cost \in Int /\ asked - cost + cost = asked
  BY <1>1
<1> QED BY <1>1, <1>2, <1>3 DEF Inside

\* What a fill closes: both halves, or the one that the partial left.
LEMMA LeftIs ==
  ASSUME NEW p, Placed(p), config.partial \in {1, 2}
  PROVE  Left(p) \in {1, 2} /\ Left(p) = IF p.partial THEN 1 ELSE 2
BY DEF Left, Placed, Entries

\* The fill of a flatten closes what is left, at the open of its bar.
LEMMA FlattenFill ==
  ASSUME NEW p, Placed(p), config.partial \in {1, 2}, NEW b, Bar(b), NEW f, f = Fill("SESSION_FLATTEN", b.open, Left(p), p, b)
  PROVE  LastFill(p, f)
<1>1. p \in Entries /\ b.open \in Int /\ p.side \in Sides
  BY DEF Placed, Bar, Entries
<1>2. NoWorse(p.side, IF p.side > 0 THEN b.high ELSE b.low, b.open)
  BY DEF Bar, NoWorse
<1>3. /\ Inside(p, f) /\ f.reason = "SESSION_FLATTEN" /\ f.halves = Left(p) /\ f.bar = b
      /\ f.price + p.side * p.slip = b.open
  BY <1>1, <1>2, LeftIs, FillInside
<1> QED BY <1>3 DEF LastFill

\* So does the fill at the end of the data, at the last close.
LEMMA EndFill ==
  ASSUME NEW p, Placed(p), config.partial \in {1, 2}, NEW b, Bar(b), NoWorse(p.side, b.close, p.initial),
         NEW f, f = Fill("DATA_END", b.close, Left(p), p, b)
  PROVE  LastFill(p, f)
<1>1. p \in Entries /\ b.close \in Int /\ p.side \in Sides
  BY DEF Placed, Bar, Entries
<1>2. NoWorse(p.side, IF p.side > 0 THEN b.high ELSE b.low, b.close)
  BY DEF Bar, NoWorse
<1>3. /\ Inside(p, f) /\ f.reason = "DATA_END" /\ f.halves = Left(p) /\ f.bar = b
      /\ f.price + p.side * p.slip = b.close
  BY <1>1, <1>2, LeftIs, FillInside
<1> QED BY <1>3 DEF LastFill

\* A stop closes what is left, at its price or at a worse open.
LEMMA StopFillIs ==
  ASSUME NEW p, Placed(p), config.partial \in {1, 2}, NEW b, Bar(b), Touches(p, p.stop, b),
         NEW f, f = Fill("STOP", StopRaw(p, b), Left(p), p, b)
  PROVE  LastFill(p, f)
<1>1. p \in Entries /\ b.open \in Int /\ p.side \in Sides /\ p.stop \in Int /\ p.entry \in Int /\
      p.initial \in Int
  BY DEF Placed, Bar, Entries
<1>2. PICK asked \in Int :
      asked = StopRaw(p, b) /\ asked = IF NoWorse(p.side, b.open, p.stop) THEN p.stop ELSE b.open
  <2>1. PICK o \in Int, s \in Int : o = b.open /\ s = p.stop
    BY <1>1
  <2>2. Min({o, s}) = (IF o <= s THEN o ELSE s) /\ Max({o, s}) = (IF o >= s THEN o ELSE s)
    BY TwoNumbers
  <2>3. StopRaw(p, b) = IF p.side > 0 THEN Min({o, s}) ELSE Max({o, s})
    BY <2>1 DEF StopRaw
  <2> QED BY <2>1, <2>2, <2>3 DEF NoWorse
<1>3. NoWorse(p.side, IF p.side > 0 THEN b.high ELSE b.low, asked)
  BY <1>1, <1>2 DEF Bar, NoWorse
<1>4. /\ Inside(p, f) /\ f.reason = "STOP" /\ f.halves = Left(p) /\ f.bar = b
      /\ f.price = asked - p.side * p.slip /\ f.price + p.side * p.slip = asked
  BY <1>1, <1>2, <1>3, LeftIs, FillInside
<1>5. NoWorse(p.side, p.stop, p.initial)
  BY <1>1 DEF Placed, NoWorse
<1>6. NoWorse(p.side, b.open, p.initial) => NoWorse(p.side, asked, p.initial)
  BY <1>1, <1>2, <1>5 DEF NoWorse
<1> QED BY <1>2, <1>4, <1>6 DEF LastFill

\* The final target closes what is left when no stop was touched.
LEMMA TargetFill ==
  ASSUME NEW p, Placed(p), config.partial \in {1, 2}, NEW b, Bar(b), ~Touches(p, p.stop, b),
         NEW price \in Int, Reaches(p, price, b), NoWorse(p.side, price, p.initial),
         NEW f, f = Fill("TARGET_TWO", price, Left(p), p, b)
  PROVE  LastFill(p, f)
<1>1. p \in Entries /\ p.side \in Sides
  BY DEF Placed, Entries
<1>2. NoWorse(p.side, IF p.side > 0 THEN b.high ELSE b.low, price)
  BY DEF Bar, NoWorse, Reaches
<1>3. /\ Inside(p, f) /\ f.reason = "TARGET_TWO" /\ f.halves = Left(p) /\ f.bar = b
      /\ f.price + p.side * p.slip = price
  BY <1>1, <1>2, LeftIs, FillInside
<1> QED BY <1>3 DEF LastFill

-----------------------------------------------------------------------------
\* What a bar makes of a position: it ends it, takes a part, or leaves it.
LEMMA ManagedIs ==
  ASSUME NEW p, Placed(p), config.partial \in {1, 2}, NEW b, Bar(b), NEW n, NEW m, m = Managed(p, b, n)
  PROVE  \/ \E f : m = [position |-> p, fills |-> <<f>>, over |-> TRUE] /\ LastFill(p, f)
         \/ /\ ~p.partial /\ config.partial = 1
            /\ \E q, f : /\ m = [position |-> q, fills |-> <<f>>, over |-> FALSE]
                        /\ Placed(q) /\ q = [p EXCEPT !.partial = TRUE, !.stop = p.entry]
                        /\ PartialFill(q, f) /\ NoWorse(q.side, b.close, q.initial)
         \/ m = [position |-> p, fills |-> <<>>, over |-> FALSE] /\ NoWorse(p.side, b.close, p.initial)
<1>1. /\ p \in Entries /\ p.side \in Sides /\ p.stop \in Int /\ p.entry \in Int /\ p.initial \in Int
      /\ p.one \in Int /\ p.two \in Int
      /\ NoWorse(p.side, p.stop, p.initial) /\ NoWorse(p.side, p.one, p.initial) /\ NoWorse(p.side, p.two, p.initial)
  BY DEF Placed, Entries, NoWorse
<1>2. ~Touches(p, p.stop, b) => NoWorse(p.side, b.close, p.initial) /\ ~Touches(p, p.initial, b)
  BY <1>1 DEF Bar, NoWorse, Touches
<1>3. CASE m = Ended(p, Fill("SESSION_FLATTEN", b.open, Left(p), p, b))
  BY <1>3, FlattenFill DEF Ended
<1>4. CASE Touches(p, p.stop, b) /\ m = Stopped(p, b)
  BY <1>4, StopFillIs DEF Stopped, Ended
<1>5. CASE ~Touches(p, p.stop, b) /\ Reaches(p, Target(p), b) /\ m = AtTarget(p, b)
  <2>1. CASE ~p.partial /\ config.partial < 2
    <3>1. PICK q : q = [p EXCEPT !.partial = TRUE, !.stop = p.entry]
      OBVIOUS
    <3>2. PICK f : f = Fill("TARGET_ONE", p.one, config.partial, p, b)
      OBVIOUS
    <3>3. m = [position |-> q, fills |-> <<f>>, over |-> FALSE] /\ config.partial = 1
      BY <1>5, <2>1, <3>1, <3>2 DEF AtTarget, Trimmed
    <3>4. /\ q \in Entries /\ q.side = p.side /\ q.entry = p.entry /\ q.initial = p.initial /\ q.one = p.one
          /\ q.two = p.two /\ q.risk = p.risk /\ q.slip = p.slip /\ q.partial = TRUE /\ q.stop = p.entry
      BY <1>1, <3>1 DEF Entries
    <3>5. Placed(q)
      BY <3>3, <3>4 DEF Placed
    <3>6. NoWorse(p.side, IF p.side > 0 THEN b.high ELSE b.low, p.one)
      BY <1>5, <2>1 DEF Target, Reaches, NoWorse
    <3>7. Inside(p, f) /\ f.reason = "TARGET_ONE" /\ f.halves = 1 /\ f.bar = b /\
          f.price = p.one - p.side * p.slip
      BY <1>1, <3>2, <3>3, <3>6, FillInside
    <3>8. PartialFill(q, f)
      BY <1>2, <1>5, <3>4, <3>7 DEF PartialFill, Inside, Touches
    <3> QED BY <1>2, <1>5, <2>1, <3>1, <3>3, <3>4, <3>5, <3>8
  <2>2. CASE ~(~p.partial /\ config.partial < 2)
    <3>1. PICK f : f = Fill("TARGET_TWO", Target(p), Left(p), p, b)
      OBVIOUS
    <3>2. Target(p) \in Int /\ NoWorse(p.side, Target(p), p.initial)
      BY <1>1 DEF Target
    <3>3. LastFill(p, f)
      BY <1>5, <3>1, <3>2, TargetFill
    <3> QED BY <1>5, <2>2, <3>1, <3>3 DEF AtTarget, Ended
  <2> QED BY <2>1, <2>2
<1>6. CASE ~Touches(p, p.stop, b) /\ m = Kept(p)
  BY <1>2, <1>6 DEF Kept
<1> QED BY <1>3, <1>4, <1>5, <1>6 DEF Managed

\* The opening range has a high and a low.
LEMMA OpeningNumbers ==
  ASSUME morning \in Mornings
  PROVE  OpeningHigh \in Int /\ OpeningLow \in Int
<1>1. PICK x \in Int, y \in Int, z \in Int :
      x = morning.first[1].high /\ y = morning.first[2].high /\ z = morning.first[3].high
  BY CandlesAreBars
<1>2. PICK u \in Int, v \in Int, w \in Int :
      u = morning.first[1].low /\ v = morning.first[2].low /\ w = morning.first[3].low
  BY CandlesAreBars
<1>3. {morning.first[i].high : i \in 1..3} = {x, y, z} /\ {morning.first[i].low : i \in 1..3} = {u, v, w}
  BY <1>1, <1>2
<1>4. /\ \E m \in {x, y, z} : \A n \in {x, y, z} : m >= n
      /\ \E m \in {u, v, w} : \A n \in {u, v, w} : m <= n
  OBVIOUS
<1> QED BY <1>3, <1>4 DEF OpeningHigh, OpeningLow, Max, Min

\* The position that a reversal candle and the bar after it open.
LEMMA EnteredIs ==
  ASSUME config \in Setups, morning \in Mornings, Push # 0, NEW signal, Bar(signal), NEW b, Bar(b),
         NEW atr5 \in Nat, NEW p, p = Entered(signal, b, atr5), p # Flat
  PROVE  Placed(p) /\ ~p.partial
<1>1. Push \in {1, -1}
  BY DEF Push
<1>2. PICK side \in Sides : side = -Push
  BY <1>1 DEF Sides
<1>3. {config.buffer, config.runner, config.slippage} \subseteq Nat
  BY SetupsAreValid
<1>4. \A x, y \in Nat : Of(x, y) \in Nat
  <2> SUFFICES ASSUME NEW x \in Nat, NEW y \in Nat PROVE Of(x, y) \in Nat
    OBVIOUS
  <2>1. x * y \in Nat
    OBVIOUS
  <2> QED BY <2>1 DEF Of
<1>5. PICK atr \in Nat : atr = Max({atr5, signal.high - signal.low})
  <2>1. signal.high - signal.low \in Nat /\ signal.high - signal.low \in Int /\ atr5 \in Int
    BY DEF Bar
  <2> QED BY <2>1, TwoNumbers
<1>6. PICK slip \in Nat, room \in Nat : slip = Of(config.slippage, atr) /\ room = Of(config.buffer, atr)
  BY <1>3, <1>4
<1>7. PICK trigger \in Int : trigger = IF side > 0 THEN signal.high ELSE signal.low
  BY DEF Bar
<1>8. PICK entry \in Int : entry = FillPrice(side, b, trigger, slip) /\ NoWorse(side, entry, trigger)
  <2>1. b.open \in Int
    BY DEF Bar
  <2>2. Max({b.open, trigger}) = (IF b.open >= trigger THEN b.open ELSE trigger)
        /\ Min({b.open, trigger}) = (IF b.open <= trigger THEN b.open ELSE trigger)
    BY <2>1, TwoNumbers
  <2> QED BY <2>1, <2>2 DEF FillPrice, NoWorse
<1>9. PICK far \in Int : far = side * room /\ far = IF side > 0 THEN room ELSE -room
  BY SideTimes
<1>10. PICK stop \in Int :
      stop = (IF side > 0 THEN signal.low ELSE signal.high) - side * room /\ NoWorse(side, entry, stop)
  BY <1>7, <1>8, <1>9 DEF Bar, NoWorse
<1>11. PICK gap \in Nat : gap = Gap(entry, stop)
  <2>1. Gap(entry, stop) = IF entry > stop THEN entry - stop ELSE stop - entry
    BY DEF Gap
  <2>2. (IF entry > stop THEN entry - stop ELSE stop - entry) \in Nat
    BY ONLY entry \in Int, stop \in Int
  <2> QED BY <2>1, <2>2
<1>12. PICK reward \in Nat : reward = Of(config.runner, gap)
  BY <1>3, <1>4
<1>13. PICK two \in Int : two = entry + side * reward /\ NoWorse(side, two, entry)
  <2>1. PICK x \in Int : x = side * reward /\ x = IF side > 0 THEN reward ELSE -reward
    BY SideTimes
  <2> QED BY <2>1 DEF NoWorse
<1>14. PICK one : one = IF side > 0 THEN OpeningHigh ELSE OpeningLow
  OBVIOUS
<1>15. p = [side |-> side, entry |-> entry, initial |-> stop, stop |-> stop, one |-> one,
            two |-> two, risk |-> gap, slip |-> slip, partial |-> FALSE]
       /\ side * (one - entry) > 0
  BY <1>2, <1>5, <1>6, <1>7, <1>8, <1>10, <1>11, <1>12, <1>13, <1>14 DEF Entered
<1>16. one \in Int
  BY <1>14, OpeningNumbers
<1>17. NoWorse(side, one, entry)
  <2>1. PICK x \in Int : x = side * (one - entry) /\ x = IF side > 0 THEN one - entry ELSE -(one - entry)
    BY <1>16, SideTimes
  <2> QED BY <1>15, <1>16, <2>1 DEF NoWorse
<1> QED BY <1>10, <1>11, <1>13, <1>15, <1>16, <1>17 DEF Placed, Entries

-----------------------------------------------------------------------------
\* What a fill can lose, from a price that is not beyond the first stop.
LEMMA LossIs ==
  ASSUME NEW p, Placed(p), NEW price \in Int, NEW halves \in {1, 2},
         NoWorse(p.side, price + p.side * p.slip, p.initial)
  PROVE  /\ halves * p.side * (price - p.entry) \in Int
         /\ halves * p.side * (price - p.entry) >= -halves * (p.risk + p.slip)
<1>1. /\ p.side \in Sides /\ p.entry \in Int /\ p.initial \in Int /\ p.slip \in Nat
      /\ NoWorse(p.side, p.entry, p.initial)
  BY DEF Placed, Entries
<1>2. PICK side \in Sides, entry \in Int, initial \in Int, slip \in Nat, risk \in Nat :
        side = p.side /\ entry = p.entry /\ initial = p.initial /\ slip = p.slip /\ risk = p.risk
  BY DEF Placed, Entries
<1>3. risk = IF entry > initial THEN entry - initial ELSE initial - entry
  BY <1>2 DEF Placed, Gap
<1>4. CASE side = 1
  <2>1. entry >= initial /\ price + slip >= initial
    BY <1>1, <1>2, <1>4 DEF NoWorse
  <2>2. price - entry >= -(risk + slip)
    BY ONLY <2>1, <1>3, entry \in Int, initial \in Int, slip \in Nat, risk \in Nat, price \in Int
  <2>3. 1 * 1 * (price - entry) >= -1 * (risk + slip) /\ 2 * 1 * (price - entry) >= -2 * (risk + slip)
    BY ONLY <2>2, entry \in Int, slip \in Nat, risk \in Nat, price \in Int
  <2>4. 1 * 1 * (price - entry) \in Int /\ 2 * 1 * (price - entry) \in Int
    BY ONLY entry \in Int, price \in Int
  <2> QED BY <1>2, <1>4, <2>3, <2>4
<1>5. CASE side = -1
  <2>1. entry <= initial /\ price - slip <= initial
    BY <1>1, <1>2, <1>5 DEF NoWorse
  <2>2. entry - price >= -(risk + slip)
    BY ONLY <2>1, <1>3, entry \in Int, initial \in Int, slip \in Nat, risk \in Nat, price \in Int
  <2>3. 1 * (-1) * (price - entry) >= -1 * (risk + slip) /\
        2 * (-1) * (price - entry) >= -2 * (risk + slip)
    BY ONLY <2>2, entry \in Int, slip \in Nat, risk \in Nat, price \in Int
  <2>4. 1 * (-1) * (price - entry) \in Int /\ 2 * (-1) * (price - entry) \in Int
    BY ONLY entry \in Int, price \in Int
  <2> QED BY <1>2, <1>5, <2>3, <2>4
<1> QED BY <1>4, <1>5 DEF Sides

\* A runner stopped at its entry pays the slippage.
LEMMA RunnerStopped ==
  ASSUME NEW p, Placed(p), NEW halves \in {1, 2}, NEW price, price = p.entry - p.side * p.slip
  PROVE  halves * p.side * (price - p.entry) >= -halves * p.slip
<1>1. PICK side \in Sides, entry \in Int, slip \in Nat :
      side = p.side /\ entry = p.entry /\ slip = p.slip
  BY DEF Placed, Entries
<1>2. CASE side = 1
  <2>1. price = entry - slip
    BY <1>1, <1>2
  <2>2. 1 * 1 * (price - entry) >= -1 * slip /\ 2 * 1 * (price - entry) >= -2 * slip
    BY ONLY <2>1, entry \in Int, slip \in Nat
  <2> QED BY <1>1, <1>2, <2>2
<1>3. CASE side = -1
  <2>1. price = entry + slip
    BY <1>1, <1>3
  <2>2. 1 * (-1) * (price - entry) >= -1 * slip /\ 2 * (-1) * (price - entry) >= -2 * slip
    BY ONLY <2>1, entry \in Int, slip \in Nat
  <2> QED BY <1>1, <1>3, <2>2
<1> QED BY <1>2, <1>3 DEF Sides

\* The sum of a function with one value, or with two.
LEMMA OneOrTwo ==
  ASSUME NEW n \in {1, 2}, NEW h \in [1..n -> Int]
  PROVE  Total(h, 1..n) = IF n = 1 THEN h[1] ELSE h[1] + h[2]
<1>2. IsFiniteSet(1..n) /\ n \in 1..n
  BY FS_Interval
<1>3. Total(h, 1..n) = h[n] + Total(h, (1..n) \ {n})
  BY <1>2, TotalSplit
<1>4. Total(h, {}) = 0
  BY TotalEmpty
<1>5. CASE n = 1
  <2>1. (1..n) \ {n} = {} /\ h[1] \in Int
    BY <1>5
  <2> QED BY <1>3, <1>4, <1>5, <2>1
<1>6. CASE n = 2
  <2>1. (1..n) \ {n} = {1} /\ {1} \ {1} = {} /\ {1} \subseteq 1..n /\ h[1] \in Int /\ h[2] \in Int
    BY <1>6
  <2>2. Total(h, {1}) = h[1] + Total(h, {})
    BY <1>2, <2>1, TotalSplit
  <2> QED BY <1>3, <1>4, <1>6, <2>1, <2>2
<1> QED BY <1>5, <1>6

-----------------------------------------------------------------------------
\* A closed trade: its fills, the first of two taking a part.
ClosedOut(p, fs) ==
  \/ ~p.partial /\ \E f : fs = <<f>> /\ LastFill(p, f)
  \/ p.partial /\ \E f, g : fs = <<f, g>> /\ PartialFill(p, f) /\ LastFill(p, g)

\* The fills of a position that is still held.
Begun(p, fs) ==
  \/ ~p.partial /\ fs = <<>>
  \/ p.partial /\ \E f : fs = <<f>> /\ PartialFill(p, f)

RevInv ==
  /\ config \in Setups /\ morning \in Mornings /\ tick \in 0..SessionEnd /\ Bar(last)
  /\ phase \in {"opening", "hunting", "holding", "done"}
  /\ phase = "opening" => tick = 0
  /\ phase \in {"opening", "hunting"} => trade = Flat /\ fills = <<>>
  /\ phase = "hunting" => Push # 0
  /\ phase = "holding" => Placed(trade) /\ Begun(trade, fills) /\ NoWorse(trade.side, last.close, trade.initial)
  /\ phase = "done" => fills = <<>> \/ (Placed(trade) /\ ClosedOut(trade, fills))

\* What the invariant says of one fill of a closed trade.
LEMMA FillHonest ==
  ASSUME NEW p, Placed(p), NEW f, PartialFill(p, f) \/ LastFill(p, f), config.partial \in {1, 2}
  PROVE  LET asked == f.price + p.side * p.slip IN
         /\ IF p.side > 0 THEN asked <= f.bar.high ELSE asked >= f.bar.low
         /\ f.reason = "TARGET_ONE" => ~Touches(p, p.initial, f.bar)
         /\ f.reason = "TARGET_TWO" => ~Touches(p, p.stop, f.bar)
         /\ ~(p.side * (f.bar.open - p.initial) < 0) =>
              f.halves * p.side * (f.price - p.entry) >= -f.halves * (p.risk + p.slip)
         /\ f.halves * p.side * (f.price - p.entry) \in Int
<1>1. /\ p.side \in Sides /\ p.initial \in Int /\ p.slip \in Int /\ p.entry \in Int /\ p.one \in Int
      /\ p.risk \in Int /\ NoWorse(p.side, p.one, p.initial)
  BY DEF Placed, Entries, NoWorse
<1>2. Bar(f.bar) /\ f.price \in Int /\ f.halves \in {1, 2} /\ Inside(p, f)
  BY DEF PartialFill, LastFill, Inside
<1>3. PICK cost \in Int : cost = p.side * p.slip
  BY <1>1, SideTimes
<1>4. f.price + cost \in Int
  BY <1>2, <1>3
<1>5. IF p.side > 0 THEN f.price + cost <= f.bar.high ELSE f.price + cost >= f.bar.low
  BY <1>1, <1>2, <1>3, <1>4 DEF Inside, NoWorse, Bar
<1>6. (f.reason = "TARGET_ONE" => ~Touches(p, p.initial, f.bar)) /\
      (f.reason = "TARGET_TWO" => ~Touches(p, p.stop, f.bar))
  BY DEF PartialFill, LastFill
<1>7. ~(p.side * (f.bar.open - p.initial) < 0) => NoWorse(p.side, f.bar.open, p.initial)
  <2>1. f.bar.open \in Int /\ f.bar.open - p.initial \in Int
    BY <1>1, <1>2 DEF Bar
  <2>2. PICK x \in Int :
        x = p.side * (f.bar.open - p.initial) /\ x = IF p.side > 0 THEN f.bar.open - p.initial ELSE -(f.bar.open - p.initial)
    BY <1>1, <2>1, SideTimes
  <2> QED BY <1>1, <2>1, <2>2 DEF NoWorse
<1>8. NoWorse(p.side, f.bar.open, p.initial) => NoWorse(p.side, f.price + p.side * p.slip, p.initial)
  <2>1. CASE LastFill(p, f)
    BY <2>1 DEF LastFill
  <2>2. CASE PartialFill(p, f)
    <3>1. f.price + cost = p.one
      BY <1>1, <1>3, <2>2 DEF PartialFill
    <3> QED BY <1>1, <1>3, <3>1
  <2> QED BY <2>1, <2>2
<1>9. f.halves * p.side * (f.price - p.entry) \in Int
  <2>1. \A h \in {1, 2}, s \in Sides, x \in Int : h * s * x \in Int
    BY DEF Sides
  <2> QED BY <1>1, <1>2, <2>1
<1>10. ~(p.side * (f.bar.open - p.initial) < 0) =>
              f.halves * p.side * (f.price - p.entry) >= -f.halves * (p.risk + p.slip)
  BY <1>2, <1>7, <1>8, LossIs
<1> QED BY <1>3, <1>5, <1>6, <1>9, <1>10

\* The result of a trade is the sum of its fills.
LEMMA ResultIs ==
  Result = Total([i \in 1..Len(fills) |-> Gain(fills[i])], 1..Len(fills))
BY DEF Result, FoldFunction, FoldFunctionOnSet, Total, MapThenSumSet

\* A closed trade is honest.
LEMMA ClosedIsHonest ==
  ASSUME Placed(trade), ClosedOut(trade, fills), config.partial \in {1, 2}
  PROVE  ReversalHonest /\ Len(fills) <= 2 /\ trade # Flat
<1> USE DEF Gain, GapsPast
<1>0. trade # Flat
  <2>1. DOMAIN trade # DOMAIN Flat
    <3>1. "entry" \in DOMAIN trade
      BY DEF Placed, Entries
    <3>2. "entry" \notin DOMAIN Flat
      BY DEF Flat
    <3> QED BY <3>1, <3>2
  <2> QED BY <2>1
<1>1. CASE ~trade.partial /\ \E f : fills = <<f>> /\ LastFill(trade, f)
  <2>1. PICK f : fills = <<f>> /\ LastFill(trade, f)
    BY <1>1
  <2>2. Len(fills) = 1 /\ fills[1] = f /\ 1..Len(fills) = {1}
    BY <2>1
  <2>3. f.halves = 2 /\ trade.stop = trade.initial /\ f.reason # "TARGET_ONE"
    BY <1>1, <2>1, LeftIs DEF LastFill, Placed
  <2>4. StopBefore(f) = trade.initial
    BY <2>2 DEF StopBefore
  <2> DEFINE asked == f.price + trade.side * trade.slip
             honest == /\ IF trade.side > 0 THEN asked <= f.bar.high ELSE asked >= f.bar.low
                       /\ f.reason \in {"TARGET_ONE", "TARGET_TWO"} => ~Touches(trade, StopBefore(f), f.bar)
  <2>5. honest
    BY <2>1, <2>3, <2>4, FillHonest
  <2>6. ~GapsPast(f, trade.initial) => Gain(f) >= -2 * (trade.risk + trade.slip)
    BY <2>1, <2>3, FillHonest
  <2>7. Result = Gain(f)
    <3>1. [i \in 1..Len(fills) |-> Gain(fills[i])] \in [1..1 -> Int]
      BY <2>1, <2>2, FillHonest
    <3> HIDE DEF Gain
    <3> QED BY <2>2, <3>1, OneOrTwo, ResultIs
  <2> HIDE DEF Gain, GapsPast
  <2> QED BY <1>0, <2>2, <2>3, <2>5, <2>6, <2>7 DEF ReversalHonest
<1>2. CASE trade.partial /\ \E f, g : fills = <<f, g>> /\ PartialFill(trade, f) /\ LastFill(trade, g)
  <2>1. PICK f, g : fills = <<f, g>> /\ PartialFill(trade, f) /\ LastFill(trade, g)
    BY <1>2
  <2>2. Len(fills) = 2 /\ fills[1] = f /\ fills[2] = g /\ 1..Len(fills) = {1, 2}
    BY <2>1
  <2>3. f.halves = 1 /\ g.halves = 1 /\ trade.stop = trade.entry /\ f.reason = "TARGET_ONE" /\
        g.reason # "TARGET_ONE"
    BY <1>2, <2>1, LeftIs DEF LastFill, PartialFill, Placed
  <2>4. StopBefore(f) = trade.initial /\ (g.reason = "TARGET_TWO" => StopBefore(g) = trade.stop)
    BY <2>2, <2>3 DEF StopBefore
  <2> DEFINE honest(h) == LET asked == h.price + trade.side * trade.slip IN
                       /\ IF trade.side > 0 THEN asked <= h.bar.high ELSE asked >= h.bar.low
                       /\ h.reason \in {"TARGET_ONE", "TARGET_TWO"} => ~Touches(trade, StopBefore(h), h.bar)
  <2>5. honest(f) /\ honest(g)
    <3>1. honest(f)
      BY <2>1, <2>3, <2>4, FillHonest
    <3>2. honest(g)
      BY <2>1, <2>3, <2>4, FillHonest
    <3> QED BY <3>1, <3>2
  <2>6. /\ ~GapsPast(f, trade.initial) => Gain(f) >= -(trade.risk + trade.slip)
        /\ ~GapsPast(g, trade.initial) => Gain(g) >= -(trade.risk + trade.slip)
        /\ Gain(f) \in Int /\ Gain(g) \in Int
    <3>1. -1 * (trade.risk + trade.slip) = -(trade.risk + trade.slip)
      BY DEF Placed, Entries
    <3>2. ~GapsPast(f, trade.initial) => Gain(f) >= -1 * (trade.risk + trade.slip)
      BY <2>1, <2>3, FillHonest
    <3>3. ~GapsPast(g, trade.initial) => Gain(g) >= -1 * (trade.risk + trade.slip)
      BY <2>1, <2>3, FillHonest
    <3>4. Gain(f) \in Int /\ Gain(g) \in Int
      BY <2>1, FillHonest
    <3> QED BY <3>1, <3>2, <3>3, <3>4
  <2>7. Result = Gain(f) + Gain(g)
    <3>1. [i \in 1..Len(fills) |-> Gain(fills[i])] \in [1..2 -> Int]
      <4>1. 1..Len(fills) = 1..2 /\ \A i \in 1..2 : Gain(fills[i]) \in Int
        BY <2>2, <2>6
      <4> HIDE DEF Gain
      <4> QED BY <4>1
    <3> HIDE DEF Gain
    <3> QED BY <2>2, <3>1, OneOrTwo, ResultIs
  <2>8. (g.reason = "STOP" /\ ~GapsPast(g, trade.entry)) => Gain(g) >= -g.halves * trade.slip
    <3> SUFFICES ASSUME g.reason = "STOP", ~(trade.side * (g.bar.open - trade.entry) < 0)
                 PROVE  g.halves * trade.side * (g.price - trade.entry) >= -g.halves * trade.slip
      OBVIOUS
    <3>1. trade.side \in Sides /\ trade.entry \in Int /\ g.bar.open \in Int /\
          g.bar.open - trade.entry \in Int
      BY <2>1 DEF Placed, Entries, LastFill, Inside, Bar
    <3>2. PICK x \in Int :
          x = trade.side * (g.bar.open - trade.entry) /\ x = IF trade.side > 0 THEN g.bar.open - trade.entry ELSE -(g.bar.open - trade.entry)
      BY <3>1, SideTimes
    <3>3. NoWorse(trade.side, g.bar.open, trade.stop)
      BY <2>3, <3>1, <3>2 DEF NoWorse
    <3>4. g.price = trade.entry - trade.side * trade.slip
      BY <2>1, <2>3, <3>3 DEF LastFill
    <3> QED BY <2>3, <3>4, RunnerStopped
  <2>9. (~GapsPast(f, trade.initial) /\ ~GapsPast(g, trade.initial)) => Gain(f) + Gain(g) >= -2 * (trade.risk + trade.slip)
    <3>1. trade.risk \in Int /\ trade.slip \in Int
      BY DEF Placed, Entries
    <3> HIDE DEF Gain, GapsPast
    <3> QED BY <2>6, <3>1
  <2> HIDE DEF Gain, GapsPast
  <2>10. f.halves + g.halves = 2
    BY <2>3
  <2> QED BY <1>0, <2>2, <2>3, <2>5, <2>7, <2>8, <2>9, <2>10 DEF ReversalHonest
<1> QED BY <1>1, <1>2 DEF ClosedOut

-----------------------------------------------------------------------------
\* A session starts inside the invariant.
LEMMA ReversalInitInvariant == ReversalInit => RevInv
<1> SUFFICES ASSUME ReversalInit PROVE RevInv
  OBVIOUS
<1>1. 0 \in 0..SessionEnd
  BY BarsAfterOpening
<1>2. Bar(last)
  BY CandlesAreBars DEF ReversalInit, Bar
<1> QED BY <1>1, <1>2 DEF ReversalInit, RevInv

\* The opening range keeps the invariant: a bias or no trade.
LEMMA OpeningRangeInvariant == RevInv /\ OpeningRange => RevInv'
<1> SUFFICES ASSUME RevInv, OpeningRange PROVE RevInv'
  OBVIOUS
<1>1. 3 \in 0..SessionEnd
  BY BarsAfterOpening
<1>2. Bar(last')
  BY CandlesAreBars DEF OpeningRange, RevInv, Bar
<1>3. phase' = "hunting" => Push' # 0
  BY DEF OpeningRange, Push
<1>4. phase' \in {"hunting", "done"} /\ trade' = Flat /\ fills' = <<>> /\ config' = config /\
      morning' = morning /\ tick' = 3
  BY DEF OpeningRange, RevInv
<1> QED BY <1>1, <1>2, <1>3, <1>4 DEF RevInv

\* Sequences of one fill and of two.
LEMMA TwoFills ==
  ASSUME NEW e, NEW f
  PROVE  <<e>> \o <<f>> = <<e, f>> /\ Append(<<e>>, f) = <<e, f>> /\ Len(<<e>>) = 1
<1> DEFINE S == {e, f}
<1>1. <<e>> \in Seq(S) /\ <<f>> \in Seq(S) /\ <<e, f>> \in Seq(S) /\ f \in S
  OBVIOUS
<1>2. Append(<<e>>, f) = <<e, f>>
  <2>1. Append(<<e>>, f) \in Seq(S) /\ Len(Append(<<e>>, f)) = 2
    BY <1>1
  <2>2. \A i \in 1..2 : Append(<<e>>, f)[i] = <<e, f>>[i]
    BY <1>1
  <2>3. Len(<<e, f>>) = 2
    OBVIOUS
  <2> QED BY <1>1, <2>1, <2>2, <2>3, SeqEqual
<1>3. <<e>> \o <<f>> = <<e, f>>
  <2>1. <<e>> \o <<f>> \in Seq(S) /\ Len(<<e>> \o <<f>>) = 2
    BY <1>1
  <2>2. \A i \in 1..2 : (<<e>> \o <<f>>)[i] = <<e, f>>[i]
    BY <1>1
  <2>3. Len(<<e, f>>) = 2
    OBVIOUS
  <2> QED BY <1>1, <2>1, <2>2, <2>3, SeqEqual
<1> QED BY <1>2, <1>3

\* A bar that a position is managed on keeps the invariant.
LEMMA ManageKeeps ==
  ASSUME config \in Setups, NEW p, Placed(p), NEW b, Bar(b), NEW fs, Begun(p, fs), fills = fs,
         Manage(p, b), config' = config, last' = b
  PROVE  /\ phase' \in {"holding", "done"}
         /\ phase' = "holding" => /\ Placed(trade)' /\ Begun(trade, fills)'
                                  /\ NoWorse(trade.side, last.close, trade.initial)'
         /\ phase' = "done" => Placed(trade)' /\ ClosedOut(trade, fills)'
<1>1. PICK m : m = Managed(p, b, tick + 1)
  OBVIOUS
<1>2. trade' = m.position /\ fills' = fs \o m.fills /\ phase' = IF m.over THEN "done" ELSE "holding"
  BY <1>1 DEF Manage
<1>3. config.partial \in {1, 2}
  BY SetupsAreValid
<1>4. p.partial \in BOOLEAN
  BY DEF Placed, Entries
<1>5. CASE \E f : m = [position |-> p, fills |-> <<f>>, over |-> TRUE] /\ LastFill(p, f)
  <2>1. PICK f : m = [position |-> p, fills |-> <<f>>, over |-> TRUE] /\ LastFill(p, f)
    BY <1>5
  <2>2. phase' = "done" /\ trade' = p /\ fills' = fs \o <<f>>
    BY <1>2, <2>1
  <2>3. Placed(p)' /\ LastFill(p, f)'
    BY <2>1 DEF Placed, LastFill, Left, Inside, Bar, NoWorse, Touches
  <2>4. ClosedOut(p, fs \o <<f>>)'
    <3>1. CASE ~p.partial /\ fs = <<>>
      <4>1. fs \o <<f>> = <<f>>
        BY <3>1
      <4> QED BY <2>3, <3>1, <4>1 DEF ClosedOut
    <3>2. CASE p.partial /\ \E e : fs = <<e>> /\ PartialFill(p, e)
      <4>1. PICK e : fs = <<e>> /\ PartialFill(p, e)
        BY <3>2
      <4>2. fs \o <<f>> = <<e, f>>
        BY <4>1, TwoFills
      <4>3. PartialFill(p, e)'
        BY <4>1 DEF PartialFill, Inside, Bar, NoWorse, Touches
      <4> QED BY <2>3, <3>2, <4>2, <4>3 DEF ClosedOut
    <3> QED BY <3>1, <3>2 DEF Begun
  <2>5. Placed(trade)' /\ ClosedOut(trade, fills)'
    BY <2>2, <2>3, <2>4
  <2> QED BY <2>2, <2>5
<1>6. CASE /\ ~p.partial /\ config.partial = 1
           /\ \E q, f : /\ m = [position |-> q, fills |-> <<f>>, over |-> FALSE]
                        /\ Placed(q) /\ q = [p EXCEPT !.partial = TRUE, !.stop = p.entry]
                        /\ PartialFill(q, f) /\ NoWorse(q.side, b.close, q.initial)
  <2>1. PICK q, f : /\ m = [position |-> q, fills |-> <<f>>, over |-> FALSE]
                    /\ Placed(q) /\ q = [p EXCEPT !.partial = TRUE, !.stop = p.entry]
                    /\ PartialFill(q, f) /\ NoWorse(q.side, b.close, q.initial)
    BY <1>6
  <2>2. fs = <<>>
    BY <1>6 DEF Begun
  <2>3. phase' = "holding" /\ trade' = q /\ fills' = <<f>>
    BY <1>2, <2>1, <2>2
  <2>4. q.partial = TRUE
    BY <2>1 DEF Placed, Entries
  <2>5. Placed(q)' /\ PartialFill(q, f)'
    BY <2>1 DEF Placed, PartialFill, Inside, Bar, NoWorse, Touches
  <2>6. Placed(trade)' /\ Begun(trade, fills)'
    BY <2>3, <2>4, <2>5 DEF Begun
  <2>7. NoWorse(trade.side, last.close, trade.initial)'
    BY <2>1, <2>3 DEF NoWorse
  <2> QED BY <2>3, <2>6, <2>7
<1>7. CASE m = [position |-> p, fills |-> <<>>, over |-> FALSE] /\ NoWorse(p.side, b.close, p.initial)
  <2>1. fs \o <<>> = fs
    BY DEF Begun
  <2>2. phase' = "holding" /\ trade' = p /\ fills' = fs
    BY <1>2, <1>7, <2>1
  <2>3. Placed(p)'
    BY DEF Placed
  <2>4. Begun(p, fs)'
    BY DEF Begun, PartialFill, Inside, Bar, NoWorse, Touches
  <2>5. NoWorse(p.side, last.close, p.initial)'
    BY <1>7 DEF NoWorse
  <2> QED BY <2>2, <2>3, <2>4, <2>5
<1> QED BY <1>1, <1>3, <1>5, <1>6, <1>7, ManagedIs

\* A five-minute bar keeps the invariant, whether it is passed by, enters,
\* or meets an open position.
LEMMA Next5mInvariant ==
  ASSUME RevInv, NEW b \in Candles, Next5m(b)
  PROVE  RevInv'
<1>1. config' = config /\ morning' = morning /\ tick' \in 0..SessionEnd /\ last' = b /\ tick' # 0
  BY BarsAfterOpening DEF Next5m, RevInv
<1>2. Bar(b)
  BY CandlesAreBars DEF Bar
<1>3. Bar(last)'
  BY <1>1, <1>2
<1>4. (Push # 0) => (Push # 0)'
  BY <1>1 DEF Push
<1>5. /\ config' \in Setups /\ morning' \in Mornings /\ tick' \in 0..SessionEnd /\ Bar(last)'
  BY <1>1, <1>3 DEF RevInv
<1>6. CASE phase = "holding"
  <2>1. Manage(trade, b)
    BY <1>6 DEF Next5m
  <2>2. Placed(trade) /\ Begun(trade, fills)
    BY <1>6 DEF RevInv
  <2>3. /\ phase' \in {"holding", "done"}
        /\ phase' = "holding" => /\ Placed(trade)' /\ Begun(trade, fills)'
                                 /\ NoWorse(trade.side, last.close, trade.initial)'
        /\ phase' = "done" => Placed(trade)' /\ ClosedOut(trade, fills)'
    BY <1>1, <1>2, <1>5, <2>1, <2>2, ManageKeeps
  <2> QED BY <1>5, <2>3 DEF RevInv
<1>7. CASE phase = "hunting"
  <2>1. Push # 0 /\ trade = Flat /\ fills = <<>> /\ config \in Setups /\ morning \in Mornings /\
        Bar(last)
    BY <1>7 DEF RevInv
  <2>2. CASE phase' = "done" /\ UNCHANGED <<trade, fills>>
    BY <1>5, <2>1, <2>2 DEF RevInv
  <2>3. CASE UNCHANGED <<phase, trade, fills>>
    BY <1>4, <1>5, <1>7, <2>1, <2>3 DEF RevInv
  <2>4. CASE \E atr5 \in Ranges : LET p == Entered(last, b, atr5) IN p # Flat /\ Manage(p, b)
    <3>1. PICK atr5 \in Ranges : Entered(last, b, atr5) # Flat /\ Manage(Entered(last, b, atr5), b)
      BY <2>4
    <3>2. PICK p : p = Entered(last, b, atr5)
      OBVIOUS
    <3>3. Placed(p) /\ ~p.partial
      BY <1>2, <2>1, <3>1, <3>2, EnteredIs, CandlesAreBars
    <3>4. Begun(p, <<>>)
      BY <3>3 DEF Begun
    <3>5. Manage(p, b)
      BY <3>1, <3>2
    <3>6. /\ phase' \in {"holding", "done"}
          /\ phase' = "holding" => /\ Placed(trade)' /\ Begun(trade, fills)'
                                   /\ NoWorse(trade.side, last.close, trade.initial)'
          /\ phase' = "done" => Placed(trade)' /\ ClosedOut(trade, fills)'
      BY <1>1, <1>2, <2>1, <3>3, <3>4, <3>5, ManageKeeps
    <3> QED BY <1>5, <3>6 DEF RevInv
  <2> QED BY <1>7, <2>2, <2>3, <2>4 DEF Next5m
<1> QED BY <1>6, <1>7 DEF Next5m

\* The end of the data closes what is open.
LEMMA DataEndInvariant == RevInv /\ DataEnd => RevInv'
<1> SUFFICES ASSUME RevInv, DataEnd PROVE RevInv'
  OBVIOUS
<1>1. phase' = "done" /\ UNCHANGED <<config, morning, tick, last, trade>>
  BY DEF DataEnd
<1>2. /\ config' \in Setups /\ morning' \in Mornings /\ tick' \in 0..SessionEnd /\ Bar(last)'
  BY <1>1 DEF RevInv, Bar
<1>3. CASE phase = "hunting"
  <2>1. fills' = <<>>
    BY <1>3 DEF DataEnd, RevInv
  <2> QED BY <1>1, <1>2, <2>1 DEF RevInv
<1>4. CASE phase = "holding"
  <2>1. PICK f : f = Fill("DATA_END", last.close, Left(trade), trade, last)
    OBVIOUS
  <2>2. fills' = Append(fills, f)
    BY <1>4, <2>1 DEF DataEnd
  <2>3. Placed(trade) /\ Begun(trade, fills) /\ NoWorse(trade.side, last.close, trade.initial) /\
        Bar(last)
    BY <1>4 DEF RevInv
  <2>4. config.partial \in {1, 2}
    BY SetupsAreValid DEF RevInv
  <2>5. LastFill(trade, f)
    BY <2>1, <2>3, <2>4, EndFill
  <2>6. Placed(trade)' /\ LastFill(trade, f)'
    BY <1>1, <2>3, <2>5 DEF Placed, LastFill, Left, Inside, Bar, NoWorse, Touches
  <2>7. ClosedOut(trade, fills)'
    <3>1. CASE ~trade.partial /\ fills = <<>>
      <4>1. fills' = <<f>>
        BY <2>2, <3>1
      <4> QED BY <1>1, <2>6, <3>1, <4>1 DEF ClosedOut
    <3>2. CASE trade.partial /\ \E e : fills = <<e>> /\ PartialFill(trade, e)
      <4>1. PICK e : fills = <<e>> /\ PartialFill(trade, e)
        BY <3>2
      <4>2. fills' = <<e, f>>
        BY <2>2, <4>1, TwoFills
      <4>3. PartialFill(trade, e)'
        BY <1>1, <4>1 DEF PartialFill, Inside, Bar, NoWorse, Touches
      <4> QED BY <1>1, <2>6, <3>2, <4>2, <4>3 DEF ClosedOut
    <3> QED BY <2>3, <3>1, <3>2 DEF Begun
  <2> QED BY <1>1, <1>2, <2>6, <2>7 DEF RevInv
<1> QED BY <1>3, <1>4 DEF DataEnd

-----------------------------------------------------------------------------
\* A session of the study keeps its invariant.
THEOREM ReversalInvariant == ReversalSpec => []RevInv
<1>1. RevInv /\ [ReversalNext]_reversalVars => RevInv'
  <2> SUFFICES ASSUME RevInv, [ReversalNext]_reversalVars PROVE RevInv'
    OBVIOUS
  <2>1. CASE OpeningRange
    BY <2>1, OpeningRangeInvariant
  <2>2. CASE \E b \in Candles : Next5m(b)
    BY <2>2, Next5mInvariant
  <2>3. CASE DataEnd
    BY <2>3, DataEndInvariant
  <2>4. CASE UNCHANGED reversalVars
    BY <2>4 DEF reversalVars, RevInv, Placed, Begun, ClosedOut, PartialFill, LastFill, Left, Inside, Touches, NoWorse, Bar, Push
  <2> QED BY <2>1, <2>2, <2>3, <2>4 DEF ReversalNext
<1> QED BY <1>1, ReversalInitInvariant, PTL DEF ReversalSpec

\* What the invariant says of a finished trade.
LEMMA InvariantIsHonest == RevInv => ReversalHonest /\ ReversalTypeOK
<1> SUFFICES ASSUME RevInv PROVE ReversalHonest /\ ReversalTypeOK
  OBVIOUS
<1>1. config.partial \in {1, 2}
  BY SetupsAreValid DEF RevInv
<1>2. CASE phase = "done" /\ fills # <<>>
  BY <1>1, <1>2, ClosedIsHonest DEF RevInv, ReversalTypeOK
<1>3. CASE phase = "holding"
  <2>1. Len(fills) <= 2
    <3>1. CASE fills = <<>>
      BY <3>1
    <3>2. CASE \E f : fills = <<f>>
      <4>1. PICK f : fills = <<f>>
        BY <3>2
      <4>2. Len(fills) = 1
        BY <4>1
      <4> QED BY <4>2
    <3> QED BY <1>3, <3>1, <3>2 DEF RevInv, Begun
  <2>2. trade # Flat
    <3>1. "entry" \in DOMAIN trade
      BY <1>3 DEF RevInv, Placed, Entries
    <3>2. "entry" \notin DOMAIN Flat
      BY DEF Flat
    <3> QED BY <3>1, <3>2
  <2> QED BY <1>3, <2>1, <2>2 DEF RevInv, ReversalHonest, ReversalTypeOK
<1>4. CASE fills = <<>>
  BY <1>4 DEF RevInv, ReversalHonest, ReversalTypeOK
<1> QED BY <1>2, <1>3, <1>4 DEF RevInv

\* A session is in one of its phases, and a trade makes two fills at most.
THEOREM ReversalTypeCorrect == ReversalSpec => []ReversalTypeOK
BY ReversalInvariant, InvariantIsHonest, PTL

\* _simulate_session of opening_range_reversal.py, for any candles and setups:
\* a trade is closed exactly once, no fill is better than its bar, stop before
\* target inside a bar, and no loss beyond the risk but by a gap.
THEOREM ReversalIsHonest == ReversalSpec => []ReversalHonest
BY ReversalInvariant, InvariantIsHonest, PTL

-----------------------------------------------------------------------------
(* Calibration: pools of buckets with rising win rates.                    *)

-----------------------------------------------------------------------------
(* Fractions.                                                              *)

Fractions == [num : Nat, den : Nat \ {0}]

\* A product keeps the order of its factors.
LEMMA TimesOrder ==
  ASSUME NEW a \in Nat, NEW b \in Nat, NEW c \in Nat
  PROVE  /\ a <= b => a * c <= b * c
         /\ c > 0 /\ a * c <= b * c => a <= b
<1>1. ASSUME NEW x \in Nat, NEW y \in Nat, x <= y PROVE x * c <= y * c
  <2>1. (y - x) * c \in Nat
    BY <1>1
  <2>2. (y - x) * c = y * c - x * c
    OBVIOUS
  <2> QED BY <2>1, <2>2
<1>2. ASSUME c > 0, a * c <= b * c, ~(a <= b) PROVE FALSE
  <2>1. (b + 1) * c <= a * c
    BY <1>1, <1>2
  <2>2. (b + 1) * c = b * c + c /\ b * c \in Nat /\ a * c \in Nat
    OBVIOUS
  <2> QED BY <1>2, <2>1, <2>2
<1> QED BY <1>1, <1>2

\* Fractions are compared without dividing.
LEMMA LessIs ==
  ASSUME NEW a \in Fractions, NEW b \in Fractions
  PROVE  ~Less(a, b) <=> b.num * a.den <= a.num * b.den
<1>1. b.num * a.den \in Nat /\ a.num * b.den \in Nat
  BY DEF Fractions
<1> QED BY <1>1 DEF Less

\* The order of the fractions is transitive, total and reflexive.
LEMMA LessOrders ==
  ASSUME NEW a \in Fractions, NEW b \in Fractions, NEW c \in Fractions
  PROVE  /\ ~Less(b, a) /\ ~Less(c, b) => ~Less(c, a)
         /\ Less(a, b) => ~Less(b, a)
         /\ ~Less(a, a)
<1>1. ASSUME ~Less(b, a), ~Less(c, b) PROVE ~Less(c, a)
  <2>1. PICK x1 \in Nat, y1 \in Nat, x2 \in Nat, y2 \in Nat, x3 \in Nat, y3 \in Nat :
          x1 = a.num /\ y1 = a.den /\ x2 = b.num /\ y2 = b.den /\ x3 = c.num /\ y3 = c.den /\ y2 > 0
    BY DEF Fractions
  <2>2. x1 * y2 <= x2 * y1 /\ x2 * y3 <= x3 * y2
    BY <1>1, <2>1, LessIs
  <2>3. /\ x1 * y2 \in Nat /\ x2 * y1 \in Nat /\ x2 * y3 \in Nat /\ x3 * y2 \in Nat
        /\ x1 * y3 \in Nat /\ x3 * y1 \in Nat
    OBVIOUS
  <2>4. (x1 * y2) * y3 <= (x2 * y1) * y3 /\ (x2 * y3) * y1 <= (x3 * y2) * y1
    BY ONLY <2>2, <2>3, TimesOrder, y1 \in Nat, y3 \in Nat
  <2>5. (x1 * y3) * y2 <= (x3 * y1) * y2
    <3>1. (x1 * y2) * y3 = (x1 * y3) * y2 /\ (x2 * y1) * y3 = (x2 * y3) * y1 /\
          (x3 * y2) * y1 = (x3 * y1) * y2
      OBVIOUS
    <3>2. (x1 * y2) * y3 \in Int /\ (x2 * y1) * y3 \in Int /\ (x3 * y2) * y1 \in Int
      OBVIOUS
    <3> QED BY ONLY <2>4, <3>1, <3>2
  <2>6. x1 * y3 <= x3 * y1
    BY ONLY <2>1, <2>3, <2>5, TimesOrder
  <2> QED BY <2>1, <2>6, LessIs
<1>2. a.num * b.den \in Int /\ b.num * a.den \in Int /\ a.num * a.den \in Int
  BY DEF Fractions
<1>3. (Less(a, b) => ~Less(b, a)) /\ ~Less(a, a)
  BY <1>2 DEF Less
<1> QED BY <1>1, <1>3

\* The smaller of two fractions.
LEMMA LeastIs ==
  ASSUME NEW a \in Fractions, NEW b \in Fractions
  PROVE  Least(a, b) \in {a, b} /\ ~Less(a, Least(a, b)) /\ ~Less(b, Least(a, b))
BY LessOrders DEF Least

\* It grows with the first of them.
LEMMA LeastGrows ==
  ASSUME NEW a \in Fractions, NEW b \in Fractions, NEW h \in Fractions, ~Less(b, a)
  PROVE  ~Less(Least(b, h), Least(a, h))
<1>1. Least(a, h) \in Fractions /\ ~Less(a, Least(a, h)) /\ ~Less(h, Least(a, h))
  BY LeastIs
<1>2. ~Less(b, Least(a, h))
  BY <1>1, LessOrders
<1> QED BY <1>1, <1>2 DEF Least

-----------------------------------------------------------------------------
(* Sums of a column that grows or is pooled at its end.                    *)

\* One column more.
LEMMA SumAppend ==
  ASSUME NEW k \in Nat, NEW f \in [1..k -> Int], NEW g \in [1..(k + 1) -> Int],
         \A i \in 1..k : g[i] = f[i]
  PROVE  Total(g, 1..(k + 1)) = Total(f, 1..k) + g[k + 1]
<1>1. IsFiniteSet(1..(k + 1)) /\ IsFiniteSet(1..k)
  BY FS_Interval
<1>2. Total(g, 1..(k + 1)) = g[k + 1] + Total(g, (1..(k + 1)) \ {k + 1})
  <2>1. k + 1 \in 1..(k + 1)
    OBVIOUS
  <2> QED BY <1>1, <2>1, TotalSplit
<1>3. (1..(k + 1)) \ {k + 1} = 1..k
  OBVIOUS
<1>4. Total(f, 1..k) = Total(g, 1..k)
  <2>1. \A i \in 1..k : f[i] = g[i] /\ f[i] \in Int
    OBVIOUS
  <2> QED BY <1>1, <2>1, TotalSame
<1>5. Total(f, 1..k) \in Int /\ g[k + 1] \in Int
  BY <1>1, TotalType
<1>6. Total(g, 1..(k + 1)) = g[k + 1] + Total(f, 1..k)
  BY ONLY <1>2, <1>3, <1>4
<1> QED BY ONLY <1>5, <1>6

\* Two columns put together keep the sum.
LEMMA SumMerge ==
  ASSUME NEW k \in Nat, NEW f \in [1..(k + 2) -> Int], NEW g \in [1..(k + 1) -> Int],
         \A i \in 1..k : g[i] = f[i], g[k + 1] = f[k + 1] + f[k + 2]
  PROVE  Total(g, 1..(k + 1)) = Total(f, 1..(k + 2))
<1> DEFINE low == [i \in 1..k |-> f[i]]
           mid == [i \in 1..(k + 1) |-> f[i]]
<1>1. low \in [1..k -> Int] /\ mid \in [1..(k + 1) -> Int] /\ f[k + 1] \in Int /\ f[k + 2] \in Int
  OBVIOUS
<1>2. Total(g, 1..(k + 1)) = Total(low, 1..k) + g[k + 1]
  BY <1>1, SumAppend
<1>3. Total(mid, 1..(k + 1)) = Total(low, 1..k) + f[k + 1]
  <2>1. mid[k + 1] = f[k + 1] /\ \A i \in 1..k : mid[i] = low[i]
    OBVIOUS
  <2> HIDE DEF mid, low
  <2> QED BY <1>1, <2>1, SumAppend
<1>4. Total(f, 1..((k + 1) + 1)) = Total(mid, 1..(k + 1)) + f[(k + 1) + 1]
  <2>1. k + 1 \in Nat /\ f \in [1..((k + 1) + 1) -> Int] /\ \A i \in 1..(k + 1) : f[i] = mid[i]
    OBVIOUS
  <2> HIDE DEF mid
  <2> QED BY <1>1, <2>1, SumAppend
<1>5. Total(low, 1..k) \in Int
  BY <1>1, FS_Interval, TotalType
<1>6. (k + 1) + 1 = k + 2
  OBVIOUS
<1> HIDE DEF low, mid
<1> QED BY <1>1, <1>2, <1>3, <1>4, <1>5, <1>6

-----------------------------------------------------------------------------
(* The fit.                                                                *)

ScoreBuckets == [lo : Int, hi : Int, n : Nat, wins : Nat]

\* Buckets or pools in the order of their scores, none over another.
Adjoining(ps) ==
  /\ \A i \in 1..Len(ps) : ps[i].lo < ps[i].hi
  /\ \A i \in 1..(Len(ps) - 1) : ps[i].hi <= ps[i + 1].lo

\* No rate falls below the one before it, but for the last pool.
Rising(ps) == \A i \in 1..(Len(ps) - 2) : ~Less(Rate(ps[i + 1]), Rate(ps[i]))

\* The columns of the first k buckets.
SamplesOf(ps) == [i \in 1..Len(ps) |-> ps[i].n]
WinsOf(ps) == [i \in 1..Len(ps) |-> ps[i].wins]

CalInv ==
  /\ raw \in Seq(ScoreBuckets) /\ Adjoining(raw)
  /\ pools \in Seq(ScoreBuckets) /\ Adjoining(pools) /\ Rising(pools)
  /\ taken \in 0..Len(raw) /\ Len(pools) <= taken
  /\ (taken = 0) = (Len(pools) = 0)
  /\ taken > 0 => pools[Len(pools)].hi = raw[taken].hi
  /\ Total(SamplesOf(pools), 1..Len(pools)) = Total(SamplesOf(raw), 1..taken)
  /\ Total(WinsOf(pools), 1..Len(pools)) = Total(WinsOf(raw), 1..taken)

\* The columns are numbers.
LEMMA ColumnsAre ==
  ASSUME NEW ps \in Seq(ScoreBuckets)
  PROVE  SamplesOf(ps) \in [1..Len(ps) -> Int] /\ WinsOf(ps) \in [1..Len(ps) -> Int]
<1>1. \A i \in 1..Len(ps) : ps[i] \in ScoreBuckets
  OBVIOUS
<1>2. \A i \in 1..Len(ps) : ps[i].n \in Int /\ ps[i].wins \in Int
  BY <1>1 DEF ScoreBuckets
<1> QED BY <1>2 DEF SamplesOf, WinsOf

\* The buckets of the first scores, one more of them.
LEMMA OneMore ==
  ASSUME NEW ps \in Seq(ScoreBuckets), NEW k \in Nat, k < Len(ps)
  PROVE  /\ Total(SamplesOf(ps), 1..(k + 1)) = Total(SamplesOf(ps), 1..k) + ps[k + 1].n
         /\ Total(WinsOf(ps), 1..(k + 1)) = Total(WinsOf(ps), 1..k) + ps[k + 1].wins
<1>1. ASSUME NEW f \in [1..Len(ps) -> Int]
      PROVE  Total(f, 1..(k + 1)) = Total(f, 1..k) + f[k + 1]
  <2>1. IsFiniteSet(1..Len(ps)) /\ 1..(k + 1) \in SUBSET (1..Len(ps)) /\ k + 1 \in 1..(k + 1)
    BY FS_Interval
  <2>2. Total(f, 1..(k + 1)) = f[k + 1] + Total(f, (1..(k + 1)) \ {k + 1})
    BY <2>1, TotalSplit
  <2>3. (1..(k + 1)) \ {k + 1} = 1..k /\ f[k + 1] \in Int
    BY <2>1
  <2>4. Total(f, 1..k) \in Int
    <3>1. 1..k \subseteq 1..Len(ps) /\ IsFiniteSet(1..k)
      BY FS_Interval
    <3> DEFINE h == [i \in 1..k |-> f[i]]
    <3>2. h \in [1..k -> Int] /\ \A i \in 1..k : h[i] = f[i] /\ h[i] \in Int
      BY <3>1
    <3> HIDE DEF h
    <3>3. Total(h, 1..k) \in Int
      BY <3>1, <3>2, TotalType
    <3>4. Total(h, 1..k) = Total(f, 1..k)
      BY <3>1, <3>2, TotalSame
    <3> QED BY <3>3, <3>4
  <2>5. Total(f, 1..(k + 1)) = f[k + 1] + Total(f, 1..k)
    BY ONLY <2>2, <2>3
  <2> QED BY ONLY <2>3, <2>4, <2>5
<1>2. k + 1 \in 1..Len(ps) /\ SamplesOf(ps)[k + 1] = ps[k + 1].n /\ WinsOf(ps)[k + 1] = ps[k + 1].wins
  BY DEF SamplesOf, WinsOf
<1> QED BY <1>1, <1>2, ColumnsAre

\* Taking the next bucket keeps the invariant: only the last rate can fall.
LEMMA TakeInvariant == CalInv /\ Take => CalInv'
<1> SUFFICES ASSUME CalInv, Take PROVE CalInv'
  OBVIOUS
<1>1. /\ raw \in Seq(ScoreBuckets) /\ pools \in Seq(ScoreBuckets) /\ taken \in Nat /\ taken < Len(raw)
      /\ raw' = raw /\ taken' = taken + 1 /\ Len(pools) \in Nat /\ Len(raw) \in Nat
  BY DEF CalInv, Take
<1>2. PICK b \in ScoreBuckets : b = raw[taken + 1]
  BY <1>1
<1>3. pools' = Append(pools, b)
  BY <1>2 DEF Take
<1> DEFINE k == Len(pools)
<1>4. /\ pools' \in Seq(ScoreBuckets) /\ Len(pools') = k + 1 /\ pools'[k + 1] = b
      /\ \A i \in 1..k : pools'[i] = pools[i]
  BY <1>1, <1>3, AppendProperties
<1>5. Adjoining(pools)'
  <2>1. b.lo < b.hi
    BY <1>1, <1>2 DEF CalInv, Adjoining
  <2>2. k > 0 => pools[k].hi <= b.lo
    <3>1. k > 0 => taken > 0 /\ pools[k].hi = raw[taken].hi
      BY <1>1 DEF CalInv
    <3>2. taken > 0 => raw[taken].hi <= raw[taken + 1].lo
      <4>1. taken > 0 => taken \in 1..(Len(raw) - 1)
        BY <1>1
      <4> QED BY <4>1 DEF CalInv, Adjoining
    <3> QED BY <1>2, <3>1, <3>2
  <2>3. ASSUME NEW i \in 1..(k + 1) PROVE pools'[i].lo < pools'[i].hi
    <3>1. i = k + 1 \/ i \in 1..k
      BY <1>1
    <3> QED BY <1>4, <2>1, <3>1 DEF CalInv, Adjoining
  <2>4. ASSUME NEW i \in 1..k PROVE pools'[i].hi <= pools'[i + 1].lo
    <3>1. CASE i = k
      BY <1>1, <1>4, <2>2, <3>1
    <3>2. CASE i # k
      <4>1. i \in 1..(k - 1) /\ i + 1 \in 1..k
        BY <1>1, <3>2
      <4> QED BY <1>4, <4>1 DEF CalInv, Adjoining
    <3> QED BY <3>1, <3>2
  <2>5. (k + 1) - 1 = k
    BY <1>1
  <2> QED BY <1>4, <2>3, <2>4, <2>5 DEF Adjoining
<1>6. Rising(pools)'
  <2>1. ASSUME NEW i \in 1..(k - 1) PROVE ~Less(Rate(pools'[i + 1]), Rate(pools'[i]))
    <3>1. i \in 1..k /\ i + 1 \in 1..k
      BY <1>1
    <3>2. pools'[i] = pools[i] /\ pools'[i + 1] = pools[i + 1]
      BY <1>4, <3>1
    <3>3. CASE i = k - 1
      <4>1. i + 1 = k /\ k >= 2
        BY <1>1, <3>3
      <4>2. ~Less(Rate(pools[k]), Rate(pools[k - 1]))
        BY <4>1 DEF Take, Falling
      <4> QED BY <3>2, <3>3, <4>1, <4>2
    <3>4. CASE i # k - 1
      <4>1. i \in 1..(k - 2)
        BY <1>1, <3>4
      <4> QED BY <3>2, <4>1 DEF CalInv, Rising
    <3> QED BY <3>3, <3>4
  <2>2. (k + 1) - 2 = k - 1
    BY <1>1
  <2> QED BY <1>4, <2>1, <2>2 DEF Rising
<1>7. /\ taken' \in 0..Len(raw') /\ Len(pools') <= taken' /\ (taken' = 0) = (Len(pools') = 0)
      /\ pools'[Len(pools')].hi = raw'[taken'].hi
  BY <1>1, <1>2, <1>4 DEF CalInv
<1>8. ASSUME NEW f \in [1..k -> Int], NEW g \in [1..(k + 1) -> Int], \A i \in 1..k : g[i] = f[i]
      PROVE  Total(g, 1..(k + 1)) = Total(f, 1..k) + g[k + 1]
  BY <1>1, <1>8, SumAppend
<1>9. /\ Total(SamplesOf(pools'), 1..Len(pools')) = Total(SamplesOf(pools), 1..k) + b.n
      /\ Total(WinsOf(pools'), 1..Len(pools')) = Total(WinsOf(pools), 1..k) + b.wins
  <2>1. SamplesOf(pools) \in [1..k -> Int] /\ WinsOf(pools) \in [1..k -> Int]
    BY <1>1, ColumnsAre
  <2>2. SamplesOf(pools') \in [1..(k + 1) -> Int] /\ WinsOf(pools') \in [1..(k + 1) -> Int]
    BY <1>4, ColumnsAre
  <2>3. /\ \A i \in 1..k : SamplesOf(pools')[i] = SamplesOf(pools)[i] /\ WinsOf(pools')[i] = WinsOf(pools)[i]
        /\ SamplesOf(pools')[k + 1] = b.n /\ WinsOf(pools')[k + 1] = b.wins
    BY <1>1, <1>4 DEF SamplesOf, WinsOf
  <2> HIDE DEF k
  <2>4. Total(SamplesOf(pools'), 1..(k + 1)) = Total(SamplesOf(pools), 1..k) + b.n
    BY <1>8, <2>1, <2>2, <2>3
  <2>5. Total(WinsOf(pools'), 1..(k + 1)) = Total(WinsOf(pools), 1..k) + b.wins
    BY <1>8, <2>1, <2>2, <2>3
  <2> QED BY <1>4, <2>4, <2>5
<1>10. /\ Total(SamplesOf(raw), 1..(taken + 1)) = Total(SamplesOf(raw), 1..taken) + b.n
       /\ Total(WinsOf(raw), 1..(taken + 1)) = Total(WinsOf(raw), 1..taken) + b.wins
  BY <1>1, <1>2, OneMore
<1>11. /\ Total(SamplesOf(pools'), 1..Len(pools')) = Total(SamplesOf(raw), 1..(taken + 1))
       /\ Total(WinsOf(pools'), 1..Len(pools')) = Total(WinsOf(raw), 1..(taken + 1))
  BY <1>9, <1>10 DEF CalInv
<1>12. raw' \in Seq(ScoreBuckets) /\ Adjoining(raw)'
  BY <1>1 DEF CalInv, Adjoining
<1> QED BY <1>1, <1>4, <1>5, <1>6, <1>7, <1>11, <1>12 DEF CalInv, SamplesOf, WinsOf

\* Pooling the last two pools keeps the samples and the wins of both.
LEMMA MergeInvariant == CalInv /\ Merge => CalInv'
<1> SUFFICES ASSUME CalInv, Merge PROVE CalInv'
  OBVIOUS
<1>1. /\ raw \in Seq(ScoreBuckets) /\ pools \in Seq(ScoreBuckets) /\ raw' = raw /\ taken' = taken
      /\ Len(pools) \in Nat /\ Len(pools) >= 2
  BY DEF CalInv, Merge, Falling
<1>2. PICK k \in Nat : Len(pools) = k + 2
  <2>1. Len(pools) - 2 \in Nat /\ Len(pools) = (Len(pools) - 2) + 2
    BY <1>1
  <2> QED BY <2>1
<1>3. PICK a \in ScoreBuckets, c \in ScoreBuckets : a = pools[k + 2] /\ c = pools[k + 1]
  BY <1>1, <1>2
<1>4. PICK m : m = Pooled(c, a)
  OBVIOUS
<1>5. m \in ScoreBuckets /\ m.lo = c.lo /\ m.hi = a.hi /\ m.n = c.n + a.n /\ m.wins = c.wins + a.wins
  <2>1. c.n + a.n \in Nat /\ c.wins + a.wins \in Nat /\ a.hi \in Int /\ c.lo \in Int
    BY DEF ScoreBuckets
  <2> QED BY <1>4, <2>1 DEF ScoreBuckets, Pooled
<1>6. /\ Front(pools) \in Seq(ScoreBuckets) /\ Len(Front(pools)) = k + 1
      /\ \A i \in 1..(k + 1) : Front(pools)[i] = pools[i]
  <2>1. Front(pools) = SubSeq(pools, 1, k + 1)
    <3>1. Len(pools) - 1 = k + 1
      BY <1>1, <1>2
    <3> QED BY <3>1 DEF Front
  <2>2. \A i \in 1..(k + 1) : pools[i] \in ScoreBuckets
    BY <1>1, <1>2
  <2> QED BY <1>1, <1>2, <2>1, <2>2, SubSeqProperties
<1>7. pools' = [Front(pools) EXCEPT ![k + 1] = m]
  <2>1. Len(pools) - 1 = k + 1 /\ pools[Len(pools) - 1] = c /\ pools[Len(pools)] = a
    BY <1>1, <1>2, <1>3
  <2> QED BY <1>4, <2>1 DEF Merge
<1>8. /\ pools' \in Seq(ScoreBuckets) /\ Len(pools') = k + 1 /\ pools'[k + 1] = m
      /\ \A i \in 1..k : pools'[i] = pools[i]
  <2>1. k + 1 \in 1..(k + 1)
    OBVIOUS
  <2> QED BY <1>5, <1>6, <1>7, <2>1, ExceptSeq
<1>9. Adjoining(pools)'
  <2>1. m.lo < m.hi
    <3>1. c.lo < c.hi /\ c.hi <= a.lo /\ a.lo < a.hi
      <4>1. k + 1 \in 1..((k + 2) - 1) /\ k + 2 \in 1..(k + 2) /\ k + 1 \in 1..(k + 2) /\
            (k + 1) + 1 = k + 2
        OBVIOUS
      <4> QED BY <1>2, <1>3, <4>1 DEF CalInv, Adjoining
    <3> QED BY <1>3, <1>5, <3>1 DEF ScoreBuckets
  <2>2. ASSUME NEW i \in 1..(k + 1) PROVE pools'[i].lo < pools'[i].hi
    <3>1. i = k + 1 \/ i \in 1..k
      OBVIOUS
    <3>2. 1..k \subseteq 1..Len(pools)
      BY <1>2
    <3> QED BY <1>8, <2>1, <3>1, <3>2 DEF CalInv, Adjoining
  <2>3. ASSUME NEW i \in 1..k PROVE pools'[i].hi <= pools'[i + 1].lo
    <3>1. i \in 1..(Len(pools) - 1)
      BY <1>2
    <3>2. pools[i].hi <= pools[i + 1].lo
      BY <3>1 DEF CalInv, Adjoining
    <3>3. pools'[i + 1].lo = pools[i + 1].lo
      <4>1. i = k \/ i + 1 \in 1..k
        OBVIOUS
      <4> QED BY <1>3, <1>5, <1>8, <4>1
    <3> QED BY <1>8, <3>2, <3>3
  <2>4. (k + 1) - 1 = k
    OBVIOUS
  <2> QED BY <1>8, <2>2, <2>3, <2>4 DEF Adjoining
<1>10. Rising(pools)'
  <2>1. ASSUME NEW i \in 1..(k - 1) PROVE ~Less(Rate(pools'[i + 1]), Rate(pools'[i]))
    <3>1. i \in 1..k /\ i + 1 \in 1..k /\ i \in 1..(Len(pools) - 2)
      BY <1>2
    <3>2. pools'[i] = pools[i] /\ pools'[i + 1] = pools[i + 1]
      BY <1>8, <3>1
    <3> QED BY <3>1, <3>2 DEF CalInv, Rising
  <2>2. (k + 1) - 2 = k - 1
    OBVIOUS
  <2> QED BY <1>8, <2>1, <2>2 DEF Rising
<1>11. /\ taken' \in 0..Len(raw') /\ Len(pools') <= taken' /\ (taken' = 0) = (Len(pools') = 0)
       /\ pools'[Len(pools')].hi = raw'[taken'].hi
  <2>1. taken \in Nat /\ taken # 0 /\ k + 2 <= taken /\ taken \in 0..Len(raw) /\
        pools[k + 2].hi = raw[taken].hi
    BY <1>2 DEF CalInv
  <2> QED BY <1>1, <1>3, <1>5, <1>8, <2>1
<1>12. /\ Total(SamplesOf(pools'), 1..(k + 1)) = Total(SamplesOf(pools), 1..(k + 2))
       /\ Total(WinsOf(pools'), 1..(k + 1)) = Total(WinsOf(pools), 1..(k + 2))
  <2>1. SamplesOf(pools) \in [1..(k + 2) -> Int] /\ WinsOf(pools) \in [1..(k + 2) -> Int]
    BY <1>1, <1>2, ColumnsAre
  <2>2. SamplesOf(pools') \in [1..(k + 1) -> Int] /\ WinsOf(pools') \in [1..(k + 1) -> Int]
    BY <1>8, ColumnsAre
  <2>3. /\ \A i \in 1..k : SamplesOf(pools')[i] = SamplesOf(pools)[i] /\ WinsOf(pools')[i] = WinsOf(pools)[i]
        /\ SamplesOf(pools')[k + 1] = m.n /\ WinsOf(pools')[k + 1] = m.wins
        /\ SamplesOf(pools)[k + 1] = c.n /\ WinsOf(pools)[k + 1] = c.wins
        /\ SamplesOf(pools)[k + 2] = a.n /\ WinsOf(pools)[k + 2] = a.wins
    BY <1>2, <1>3, <1>8 DEF SamplesOf, WinsOf
  <2>4. ASSUME NEW f \in [1..(k + 2) -> Int], NEW g \in [1..(k + 1) -> Int],
               \A i \in 1..k : g[i] = f[i], g[k + 1] = f[k + 1] + f[k + 2]
        PROVE  Total(g, 1..(k + 1)) = Total(f, 1..(k + 2))
    BY <2>4, SumMerge
  <2>5. SamplesOf(pools')[k + 1] = SamplesOf(pools)[k + 1] + SamplesOf(pools)[k + 2]
    BY <1>5, <2>3
  <2>6. WinsOf(pools')[k + 1] = WinsOf(pools)[k + 1] + WinsOf(pools)[k + 2]
    BY <1>5, <2>3
  <2>7. Total(SamplesOf(pools'), 1..(k + 1)) = Total(SamplesOf(pools), 1..(k + 2))
    BY <2>1, <2>2, <2>3, <2>4, <2>5
  <2>8. Total(WinsOf(pools'), 1..(k + 1)) = Total(WinsOf(pools), 1..(k + 2))
    BY <2>1, <2>2, <2>3, <2>4, <2>6
  <2> QED BY <2>7, <2>8
<1>13. /\ Total(SamplesOf(pools'), 1..Len(pools')) = Total(SamplesOf(raw'), 1..taken')
       /\ Total(WinsOf(pools'), 1..Len(pools')) = Total(WinsOf(raw'), 1..taken')
  BY <1>1, <1>2, <1>8, <1>12 DEF CalInv
<1>14. raw' \in Seq(ScoreBuckets) /\ Adjoining(raw)'
  BY <1>1 DEF CalInv, Adjoining
<1> QED BY <1>8, <1>9, <1>10, <1>11, <1>13, <1>14 DEF CalInv, SamplesOf, WinsOf

\* No bucket is taken at the start.
LEMMA CalibrationInitInvariant == CalibrationInit => CalInv
<1> SUFFICES ASSUME CalibrationInit PROVE CalInv
  OBVIOUS
<1> DEFINE Hi(past, gap, l, i) == Top + past - 2 * (l - i) - (IF i = 1 THEN gap ELSE 0)
<1>0. PICK counts \in UNION {[1..k -> Counts] : k \in 1..MaxBuckets}, gap \in {0, 2}, past \in {0, 2} :
        raw = [i \in 1..Len(counts) |-> [lo |-> Hi(past, gap, Len(counts), i) - 2, hi |-> Hi(past, gap, Len(counts), i),
                                         n |-> counts[i].n, wins |-> counts[i].wins]]
  BY DEF CalibrationInit
<1>1. PICK k \in 1..MaxBuckets : counts \in [1..k -> Counts]
  OBVIOUS
<1>2. k \in Nat /\ Top \in Nat
  BY CountsAreNatural
<1>3. Len(counts) = k
  BY <1>1, <1>2
<1>4. \A i \in 1..k : Hi(past, gap, k, i) \in Int
  <2> SUFFICES ASSUME NEW i \in 1..k PROVE Hi(past, gap, k, i) \in Int
    OBVIOUS
  <2>1. i \in Int /\ 2 * (k - i) \in Int
    BY <1>2
  <2> QED BY <1>2, <2>1
<1>5. ASSUME NEW i \in 1..(k - 1) PROVE Hi(past, gap, k, i) <= Hi(past, gap, k, i + 1) - 2
  <2>1. i \in Int /\ k \in Int /\ Top \in Int /\ past \in Int /\ gap \in {0, 2} /\ i + 1 # 1
    BY <1>2
  <2>2. 2 * (k - (i + 1)) = 2 * (k - i) - 2 /\ 2 * (k - i) \in Int
    BY <2>1
  <2> QED BY <2>1, <2>2
<1>6. ASSUME NEW i \in 1..k PROVE counts[i].n \in Nat /\ counts[i].wins \in Nat
  <2>1. counts[i] \in Counts
    BY <1>1
  <2>2. MaxSamples \in Nat
    BY CountsAreNatural
  <2> QED BY <2>1, <2>2 DEF Counts
<1> HIDE DEF Hi
<1>7. raw = [i \in 1..k |-> [lo |-> Hi(past, gap, k, i) - 2, hi |-> Hi(past, gap, k, i),
                             n |-> counts[i].n, wins |-> counts[i].wins]]
  BY <1>0, <1>3
<1>8. ASSUME NEW i \in 1..k
      PROVE  [lo |-> Hi(past, gap, k, i) - 2, hi |-> Hi(past, gap, k, i),
              n |-> counts[i].n, wins |-> counts[i].wins] \in ScoreBuckets
  <2>1. Hi(past, gap, k, i) - 2 \in Int /\ Hi(past, gap, k, i) \in Int
    BY <1>4
  <2> QED BY <1>6, <2>1 DEF ScoreBuckets
<1>9. raw \in [1..k -> ScoreBuckets]
  BY <1>7, <1>8
<1>10. raw \in Seq(ScoreBuckets) /\ Len(raw) = k
  BY <1>2, <1>9
<1>11. Adjoining(raw)
  <2>1. ASSUME NEW i \in 1..k PROVE raw[i].lo < raw[i].hi
    <3>1. raw[i].lo = Hi(past, gap, k, i) - 2 /\ raw[i].hi = Hi(past, gap, k, i)
      BY <1>7
    <3> QED BY <1>4, <3>1
  <2>2. ASSUME NEW i \in 1..(k - 1) PROVE raw[i].hi <= raw[i + 1].lo
    <3>1. i \in 1..k /\ i + 1 \in 1..k
      BY <1>2
    <3>2. raw[i + 1].lo = Hi(past, gap, k, i + 1) - 2 /\ raw[i].hi = Hi(past, gap, k, i)
      BY <1>7, <3>1
    <3> QED BY <1>5, <3>2
  <2> QED BY <1>10, <2>1, <2>2 DEF Adjoining
<1>12. taken = 0 /\ pools = <<>> /\ Len(pools) = 0 /\ pools \in Seq(ScoreBuckets)
  BY DEF CalibrationInit
<1>13. Adjoining(pools) /\ Rising(pools)
  BY <1>12 DEF Adjoining, Rising
<1>14. 1..0 = {}
  OBVIOUS
<1>15. /\ Total(SamplesOf(pools), 1..Len(pools)) = Total(SamplesOf(raw), 1..taken)
       /\ Total(WinsOf(pools), 1..Len(pools)) = Total(WinsOf(raw), 1..taken)
  BY <1>12, <1>14, TotalEmpty
<1> QED BY <1>2, <1>10, <1>11, <1>12, <1>13, <1>15 DEF CalInv

-----------------------------------------------------------------------------
(* What the fitted map claims.                                             *)

\* In a row where no pair falls, nothing is below anything before it.
LEMMA NeverFalls ==
  ASSUME NEW k \in Nat, NEW f \in [1..k -> Fractions],
         \A i \in 1..(k - 1) : ~Less(f[i + 1], f[i]),
         NEW i \in 1..k, NEW j \in 1..k, i <= j
  PROVE  ~Less(f[j], f[i])
<1> DEFINE Bad == {m \in Nat : i <= m /\ m <= k /\ Less(f[m], f[i])}
<1> SUFFICES ASSUME Bad # {} PROVE FALSE
  BY i \in Nat /\ j \in Nat
<1>1. PICK m \in Bad : \A x \in Bad : m <= x
  BY LeastNumber
<1>2. m # i
  BY <1>1, LessOrders
<1>3. /\ m - 1 \in Nat /\ i <= m - 1 /\ m - 1 <= k /\ m - 1 \notin Bad
      /\ m - 1 \in 1..(k - 1) /\ (m - 1) + 1 = m /\ m \in 1..k /\ m - 1 \in 1..k
  BY <1>1, <1>2
<1>4. ~Less(f[m - 1], f[i]) /\ ~Less(f[m], f[m - 1])
  BY <1>3
<1>5. f[m - 1] \in Fractions /\ f[m] \in Fractions /\ f[i] \in Fractions
  BY <1>3
<1> QED BY <1>1, <1>4, <1>5, LessOrders

\* Pools in order lie apart: one ends before a later one begins.
LEMMA LiesBefore ==
  ASSUME NEW ps \in Seq(ScoreBuckets), Adjoining(ps), NEW i \in 1..Len(ps), NEW j \in 1..Len(ps), i < j
  PROVE  ps[i].hi <= ps[j].lo
<1> DEFINE Bad == {m \in Nat : i < m /\ m <= Len(ps) /\ ~(ps[i].hi <= ps[m].lo)}
<1> SUFFICES ASSUME Bad # {} PROVE FALSE
  BY i \in Nat /\ j \in Nat
<1>1. PICK m \in Bad : \A x \in Bad : m <= x
  BY LeastNumber
<1>2. m - 1 \in 1..(Len(ps) - 1) /\ (m - 1) + 1 = m /\ m \in 1..Len(ps) /\ m - 1 \in 1..Len(ps)
  BY <1>1
<1>3. ps[m - 1].hi <= ps[m].lo /\ ps[m - 1].lo < ps[m - 1].hi
  BY <1>2 DEF Adjoining
<1>4. ps[m - 1].lo \in Int /\ ps[m - 1].hi \in Int /\ ps[m].lo \in Int /\ ps[i].hi \in Int
  <2>1. ps[m - 1] \in ScoreBuckets /\ ps[m] \in ScoreBuckets /\ ps[i] \in ScoreBuckets
    BY <1>2
  <2> QED BY <2>1 DEF ScoreBuckets
<1>5. CASE m - 1 = i
  BY <1>1, <1>3, <1>5
<1>6. CASE m - 1 # i
  <2>1. m - 1 \notin Bad /\ m - 1 \in Nat /\ i < m - 1 /\ m - 1 <= Len(ps)
    BY <1>1, <1>2, <1>6
  <2>2. ps[i].hi <= ps[m - 1].lo
    BY <2>1
  <2> QED BY <1>1, <1>3, <1>4, <2>2
<1> QED BY <1>5, <1>6

\* Everything that is compared is a fraction.
LEMMA ClaimsAre ==
  /\ Unvalidated \in Fractions /\ Highest \in Fractions /\ ~Less(Highest, Unvalidated)
  /\ \A s \in 0..Top : Conservative(s) \in Fractions
  /\ \A p \in ScoreBuckets : Rate(p) \in Fractions
<1>1. Unvalidated \in Fractions /\ Highest \in Fractions /\ ~Less(Highest, Unvalidated)
  BY DEF Unvalidated, Highest, Fractions, Less
<1>2. Top \in Nat /\ Top > 0
  BY CountsAreNatural
<1>3. \A s \in 0..Top : 9 * s \in Nat /\ 10 * Top \in Nat \ {0}
  BY <1>2
<1>4. \A p \in ScoreBuckets : p.wins + 1 \in Nat /\ p.n + 2 \in Nat \ {0}
  BY DEF ScoreBuckets
<1> QED BY <1>1, <1>3, <1>4 DEF Conservative, Rate, Fractions

\* There are no more pools than buckets taken.
LEMMA TypesOfCalibration == CalInv => CalibrationTypeOK
BY DEF CalInv, CalibrationTypeOK

\* A better score with a sufficient pool is never claimed less for.
LEMMA ClaimsGrow ==
  ASSUME CalInv, ~Falling(pools), NEW s \in 0..Top, NEW t \in 0..Top, s <= t,
         \E p \in ToSet(pools) : Holds(p, s) /\ p.n >= MinN,
         \E p \in ToSet(pools) : Holds(p, t) /\ p.n >= MinN
  PROVE  ~Less(Confidence(TRUE, t), Confidence(TRUE, s))
<1> DEFINE found(x) == {i \in 1..Len(pools) : Holds(pools[i], x) /\ pools[i].n >= MinN}
           first(x) == CHOOSE i \in found(x) : \A j \in found(x) : i <= j
           rates == [i \in 1..Len(pools) |-> Rate(pools[i])]
<1>1. pools \in Seq(ScoreBuckets) /\ Adjoining(pools) /\ Len(pools) \in Nat
  BY DEF CalInv
<1>2. ASSUME NEW x, \E p \in ToSet(pools) : Holds(p, x) /\ p.n >= MinN PROVE found(x) # {}
  BY <1>1, <1>2 DEF ToSet
<1>3. ASSUME NEW x, found(x) # {} PROVE first(x) \in found(x) /\ \A j \in found(x) : first(x) <= j
  <2>1. found(x) \subseteq Nat
    OBVIOUS
  <2> HIDE DEF found
  <2>2. \E i \in found(x) : \A j \in found(x) : i <= j
    BY <1>3, <2>1, LeastNumber
  <2> QED BY <2>2
<1>4. ASSUME NEW x, found(x) # {} PROVE Confidence(TRUE, x) = Least(Rate(pools[first(x)]), Highest)
  BY <1>4 DEF Confidence
<1>5. found(s) # {} /\ found(t) # {}
  BY <1>2
<1>6. /\ first(s) \in 1..Len(pools) /\ Holds(pools[first(s)], s)
      /\ first(t) \in 1..Len(pools) /\ Holds(pools[first(t)], t)
  BY <1>3, <1>5
<1>7. s = t => first(s) = first(t)
  OBVIOUS
<1> HIDE DEF first
<1>8. PICK i \in 1..Len(pools), j \in 1..Len(pools) : i = first(s) /\ j = first(t)
  BY <1>6
<1>9. i <= j
  <2> SUFFICES ASSUME s < t, j < i PROVE FALSE
    BY <1>7, <1>8
  <2>1. pools[j].hi <= pools[i].lo
    BY <1>1, LiesBefore
  <2>2. pools[i] \in ScoreBuckets /\ pools[j] \in ScoreBuckets
    BY <1>1
  <2>3. /\ pools[i].lo \in Int /\ pools[i].hi \in Int /\ pools[j].lo \in Int /\ pools[j].hi \in Int
        /\ Top \in Int /\ s \in Int /\ t \in Int /\ s <= Top /\ t <= Top
    BY <2>2, CountsAreNatural DEF ScoreBuckets
  <2>4. pools[i].lo <= s /\ s < pools[i].hi
    BY <1>6, <1>8, <2>3 DEF Holds
  <2>5. t < pools[j].hi \/ pools[j].hi = Top
    BY <1>6, <1>8 DEF Holds
  <2> QED BY <2>1, <2>3, <2>4, <2>5
<1>10. rates \in [1..Len(pools) -> Fractions]
  <2>1. \A x \in 1..Len(pools) : pools[x] \in ScoreBuckets
    BY <1>1
  <2> QED BY <2>1, ClaimsAre
<1>11. \A x \in 1..(Len(pools) - 1) : ~Less(rates[x + 1], rates[x])
  <2> SUFFICES ASSUME NEW x \in 1..(Len(pools) - 1) PROVE ~Less(Rate(pools[x + 1]), Rate(pools[x]))
    BY <1>1
  <2>1. CASE x \in 1..(Len(pools) - 2)
    BY <2>1 DEF CalInv, Rising
  <2>2. CASE x = Len(pools) - 1
    <3>1. x + 1 = Len(pools) /\ Len(pools) >= 2
      BY <1>1, <2>2
    <3> QED BY <2>2, <3>1 DEF Falling
  <2> QED BY <1>1, <2>1, <2>2
<1>12. ~Less(rates[j], rates[i]) /\ rates[i] = Rate(pools[i]) /\ rates[j] = Rate(pools[j])
       /\ Rate(pools[i]) \in Fractions /\ Rate(pools[j]) \in Fractions
  <2>1. rates[i] = Rate(pools[i]) /\ rates[j] = Rate(pools[j])
    OBVIOUS
  <2> HIDE DEF rates
  <2> QED BY <1>1, <1>9, <1>10, <1>11, <2>1, NeverFalls
<1>13. ~Less(Least(Rate(pools[j]), Highest), Least(Rate(pools[i]), Highest))
  BY <1>12, ClaimsAre, LeastGrows
<1>14. /\ Confidence(TRUE, s) = Least(Rate(pools[first(s)]), Highest)
       /\ Confidence(TRUE, t) = Least(Rate(pools[first(t)]), Highest)
  <2> HIDE DEF found
  <2> QED BY <1>4, <1>5
<1> HIDE DEF found
<1> QED BY <1>8, <1>13, <1>14

\* No claim passes its cap.
LEMMA ClaimsAreCapped ==
  ASSUME CalInv, NEW s \in 0..Top
  PROVE  /\ ~Less(Unvalidated, Confidence(FALSE, s))
         /\ ~Less(Highest, Confidence(TRUE, s))
<1>1. /\ Conservative(s) \in Fractions /\ Unvalidated \in Fractions /\ Highest \in Fractions
      /\ ~Less(Highest, Unvalidated)
  BY ClaimsAre
<1>2. /\ Least(Conservative(s), Unvalidated) \in Fractions
      /\ ~Less(Unvalidated, Least(Conservative(s), Unvalidated))
  BY <1>1, LeastIs
<1>3. ~Less(Highest, Least(Conservative(s), Unvalidated))
  BY <1>1, <1>2, LessOrders
<1>4. ASSUME NEW i \in 1..Len(pools) PROVE ~Less(Highest, Least(Rate(pools[i]), Highest))
  <2>1. pools[i] \in ScoreBuckets
    BY DEF CalInv
  <2> QED BY <1>1, <2>1, ClaimsAre, LeastIs
<1> DEFINE found == {i \in 1..Len(pools) : Holds(pools[i], s) /\ pools[i].n >= MinN}
           first == CHOOSE i \in found : \A j \in found : i <= j
<1>5. found # {} => first \in 1..Len(pools)
  <2>1. found \subseteq Nat /\ found \subseteq 1..Len(pools)
    BY DEF CalInv
  <2> HIDE DEF found
  <2>2. found # {} => \E i \in found : \A j \in found : i <= j
    BY <2>1, LeastNumber
  <2> QED BY <2>1, <2>2
<1>6. Confidence(TRUE, s) = IF found # {} THEN Least(Rate(pools[first]), Highest)
                                          ELSE Least(Conservative(s), Unvalidated)
  BY DEF Confidence
<1>7. Confidence(FALSE, s) = Least(Conservative(s), Unvalidated)
  BY DEF Confidence
<1> HIDE DEF found, first
<1> QED BY <1>2, <1>3, <1>4, <1>5, <1>6, <1>7

\* What the invariant says of a finished fit.
LEMMA FittedIsIsotonic == CalInv => CalibrationIsotonic
<1> SUFFICES ASSUME CalInv, Fitted PROVE CalibrationIsotonic
  BY DEF CalibrationIsotonic
<1>1. ~Falling(pools) /\ taken = Len(raw)
  BY DEF Fitted
<1>2. \A i \in 1..(Len(pools) - 1) : ~Less(Rate(pools[i + 1]), Rate(pools[i])) /\
      pools[i].hi <= pools[i + 1].lo
  <2> SUFFICES ASSUME NEW i \in 1..(Len(pools) - 1)
               PROVE  ~Less(Rate(pools[i + 1]), Rate(pools[i])) /\ pools[i].hi <= pools[i + 1].lo
    OBVIOUS
  <2>1. pools[i].hi <= pools[i + 1].lo /\ Len(pools) \in Nat
    <3>1. pools \in Seq(ScoreBuckets) /\ Adjoining(pools)
      BY ONLY CalInv DEF CalInv
    <3> QED BY ONLY <3>1, i \in 1..(Len(pools) - 1) DEF Adjoining
  <2>2. CASE i \in 1..(Len(pools) - 2)
    BY <2>1, <2>2 DEF CalInv, Rising
  <2>3. CASE i = Len(pools) - 1
    <3>1. i + 1 = Len(pools) /\ Len(pools) >= 2
      BY <2>1, <2>3
    <3> QED BY <1>1, <2>1, <2>3, <3>1 DEF Falling
  <2> QED BY <2>1, <2>2, <2>3
<1>3. Samples(pools) = Total(SamplesOf(pools), 1..Len(pools)) /\
      Samples(raw) = Total(SamplesOf(raw), 1..Len(raw))
  BY DEF Samples, SamplesOf, FoldFunction, FoldFunctionOnSet, Total, MapThenSumSet
<1>4. Won(pools) = Total(WinsOf(pools), 1..Len(pools)) /\ Won(raw) = Total(WinsOf(raw), 1..Len(raw))
  BY DEF Won, WinsOf, FoldFunction, FoldFunctionOnSet, Total, MapThenSumSet
<1>5. Samples(pools) = Samples(raw) /\ Won(pools) = Won(raw)
  BY <1>1, <1>3, <1>4 DEF CalInv
<1>6. LET sure == {s \in 0..Top : \E p \in ToSet(pools) : Holds(p, s) /\ p.n >= MinN} IN
      \A s, t \in sure : s <= t => ~Less(Confidence(TRUE, t), Confidence(TRUE, s))
  BY <1>1, ClaimsGrow
<1>7. \A s \in 0..Top : /\ ~Less(Unvalidated, Confidence(FALSE, s))
                        /\ ~Less(Highest, Confidence(TRUE, s))
  BY ClaimsAreCapped
<1> QED BY <1>2, <1>5, <1>6, <1>7 DEF CalibrationIsotonic

-----------------------------------------------------------------------------
\* fit of calibration.py keeps the pools ordered, rising but for the last one,
\* and made of exactly the samples of the buckets taken so far.
THEOREM CalibrationInvariant == CalibrationSpec => []CalInv
<1>1. CalInv /\ [CalibrationNext]_calibrationVars => CalInv'
  <2> SUFFICES ASSUME CalInv, [CalibrationNext]_calibrationVars PROVE CalInv'
    OBVIOUS
  <2>1. CASE Take
    BY <2>1, TakeInvariant
  <2>2. CASE Merge
    BY <2>2, MergeInvariant
  <2>3. CASE UNCHANGED calibrationVars
    BY <2>3 DEF calibrationVars, CalInv, Adjoining, Rising
  <2> QED BY <2>1, <2>2, <2>3 DEF CalibrationNext
<1> QED BY <1>1, CalibrationInitInvariant, PTL DEF CalibrationSpec

\* There are no more pools than buckets taken, and no more of those than
\* buckets.
THEOREM CalibrationTypeCorrect == CalibrationSpec => []CalibrationTypeOK
BY CalibrationInvariant, TypesOfCalibration, PTL

\* For every history of scores and outcomes, the fitted curve never falls as
\* the score rises from one pool with enough samples to another (a score that
\* falls into a pool with too few may claim less than a lower one), it is made of
\* every sample once, and an unvalidated claim stays under its cap.
THEOREM CalibrationIsIsotonic == CalibrationSpec => []CalibrationIsotonic
BY CalibrationInvariant, FittedIsIsotonic, PTL

-----------------------------------------------------------------------------
(* The study report: how a winner is chosen.                               *)

\* What a variant traded in the sessions of a study.
Recorded(n, ts) ==
  DOMAIN ts = 1..Len(ts) /\ Len(ts) \in Nat
  /\ \A i \in 1..Len(ts) : /\ ts[i].entry \in 1..n /\ ts[i].exit \in Int /\ ts[i].net \in Int
                           /\ ts[i].exit <= ts[i].entry + Carry

\* A study of some sessions.
Studied == observed \in 1..MaxSessions /\ \A v \in 1..Variants : Recorded(observed, trades[v])

\* A variant made n trades.
Filed(v, n) == Studied /\ n = Len(trades[v])

\* What the i-th trade of a variant adds to a part, and what those of I do.
NetAt(v, P, i) == IF i \in Traded(v, P) THEN trades[v][i].net ELSE 0
Upto(v, P, I)  == Net(v, Traded(v, P) \cap I)

\* The trades of a variant have results that are numbers.
LEMMA TradesAre ==
  ASSUME NEW v \in 1..Variants, NEW n, Filed(v, n)
  PROVE  /\ n \in Nat /\ Len(trades[v]) = n /\ IsFiniteSet(1..n)
         /\ Nets(v) \in [1..n -> Int] /\ \A i \in 1..n : Nets(v)[i] = trades[v][i].net
         /\ \A P : Traded(v, P) \subseteq 1..n
         /\ \A P, i : NetAt(v, P, i) \in Int
<1>1. n \in Nat /\ Len(trades[v]) = n /\ \A i \in 1..n : trades[v][i].net \in Int
  BY DEF Filed, Studied, Recorded
<1>2. \A P : Traded(v, P) \subseteq 1..n
  BY <1>1 DEF Traded
<1>3. \A P, i : NetAt(v, P, i) \in Int
  BY <1>1, <1>2 DEF NetAt
<1>4. Nets(v) \in [1..n -> Int] /\ \A i \in 1..n : Nets(v)[i] = trades[v][i].net
  BY <1>1 DEF Nets
<1>5. IsFiniteSet(1..n)
  BY <1>1, FS_Interval
<1> QED BY <1>1, <1>2, <1>3, <1>4, <1>5, Zenon

\* What some trades come to.
LEMMA NetTotals ==
  ASSUME NEW v \in 1..Variants, NEW n, Filed(v, n), NEW T \in SUBSET (1..n)
  PROVE  /\ IsFiniteSet(T) /\ Cardinality(T) \in Nat
         /\ Net(v, T) = Total(Nets(v), T) /\ Net(v, T) \in Int
         /\ \A i \in T : Net(v, T) = trades[v][i].net + Net(v, T \ {i})
<1>0. PICK U : U = 1..n
  OBVIOUS
<1>1. PICK h \in [U -> Int] : h = Nets(v) /\ \A i \in 1..n : h[i] = trades[v][i].net
  BY <1>0, TradesAre
<1>2. IsFiniteSet(1..n)
  BY TradesAre
<1>3. IsFiniteSet(T) /\ Cardinality(T) \in Nat
  BY <1>2, FS_Subset, FS_CardinalityType
<1>4. \A S : Net(v, S) = Total(h, S)
  BY <1>1 DEF Net, Total
<1>5. PICK g : g = [x \in T |-> h[x]]
  OBVIOUS
<1>6. g \in [T -> Int] /\ \A x \in T : h[x] = g[x] /\ h[x] \in Int
  BY <1>0, <1>5
<1>7. Total(h, T) = Total(g, T)
  BY ONLY <1>3, <1>6, TotalSame
<1>8. Total(g, T) \in Int
  BY ONLY <1>3, <1>6, TotalType
<1>9. ASSUME NEW i \in T PROVE Net(v, T) = trades[v][i].net + Net(v, T \ {i})
  <2>1. Total(h, T) = h[i] + Total(h, T \ {i})
    <3>1. PICK S \in SUBSET U : S = T
      BY <1>0
    <3>2. PICK x \in S : x = i
      BY <3>1
    <3>3. IsFiniteSet(U)
      BY <1>0, <1>2
    <3>4. Total(h, S) = h[x] + Total(h, S \ {x})
      BY ONLY <3>3, TotalSplit
    <3> QED BY ONLY <3>1, <3>2, <3>4
  <2>2. h[i] = trades[v][i].net
    BY <1>1
  <2> QED BY <1>4, <2>1, <2>2
<1> QED BY <1>1, <1>3, <1>4, <1>7, <1>8, <1>9

\* The trades of a part, and what they come to.
LEMMA NetIs ==
  ASSUME NEW v \in 1..Variants, NEW P, NEW n, Filed(v, n), NEW Q \in SUBSET (1..n)
  PROVE  /\ Upto(v, P, Q) \in Int
         /\ \A i \in (1..n) \ Q : Upto(v, P, Q \cup {i}) = Upto(v, P, Q) + NetAt(v, P, i)
<1>1. ASSUME NEW S PROVE Upto(v, P, S) \in Int
  <2>1. Traded(v, P) \cap S \in SUBSET (1..n)
    BY TradesAre
  <2> QED BY <2>1, NetTotals DEF Upto
<1>2. ASSUME NEW i \in (1..n) \ Q
      PROVE  Upto(v, P, Q \cup {i}) = Upto(v, P, Q) + NetAt(v, P, i)
  <2>1. CASE i \in Traded(v, P)
    <3>1. PICK T \in SUBSET (1..n) : /\ T = Traded(v, P) \cap (Q \cup {i})
                                     /\ i \in T /\ T \ {i} = Traded(v, P) \cap Q
      <4>1. Traded(v, P) \subseteq 1..n /\ i \in 1..n /\ i \notin Q
        BY <1>2, TradesAre
      <4>2. PICK T : T = Traded(v, P) \cap (Q \cup {i})
        OBVIOUS
      <4>3. i \in T
        BY ONLY <2>1, <4>2
      <4>4. T \ {i} = Traded(v, P) \cap Q
        BY ONLY <4>1, <4>2
      <4>5. T \in SUBSET (1..n)
        BY ONLY <4>1, <4>2
      <4> QED BY ONLY <4>2, <4>3, <4>4, <4>5
    <3>2. Net(v, T) = trades[v][i].net + Net(v, T \ {i})
      BY <3>1, NetTotals
    <3>3. Upto(v, P, Q \cup {i}) = trades[v][i].net + Upto(v, P, Q)
      BY <3>1, <3>2 DEF Upto
    <3>4. NetAt(v, P, i) = trades[v][i].net
      BY <2>1 DEF NetAt
    <3>5. NetAt(v, P, i) \in Int /\ Upto(v, P, Q) \in Int
      BY <1>1, TradesAre
    <3> QED BY ONLY <3>3, <3>4, <3>5
  <2>2. CASE i \notin Traded(v, P)
    <3>1. Traded(v, P) \cap (Q \cup {i}) = Traded(v, P) \cap Q
      BY <2>2
    <3> QED BY <1>1, <2>2, <3>1 DEF Upto, NetAt
  <2> QED BY <2>1, <2>2
<1> QED BY <1>1, <1>2

\* A stretch of the trades makes the difference between two running totals.
LEMMA StretchIs ==
  ASSUME NEW v \in 1..Variants, NEW P, NEW n, Filed(v, n)
  PROVE  /\ Upto(v, P, {}) = 0 /\ 1..0 = {}
         /\ \A j \in 0..n : Upto(v, P, 1..j) \in Int
         /\ \A j \in 0..(n - 1) : Upto(v, P, 1..(j + 1)) = Upto(v, P, 1..j) + NetAt(v, P, j + 1)
         /\ \A i \in 1..n, j \in 0..n : i <= j + 1 => Upto(v, P, i..j) = Upto(v, P, 1..j) - Upto(v, P, 1..(i - 1))
<1>1. Upto(v, P, {}) = 0
  <2>1. Traded(v, P) \cap {} = {}
    OBVIOUS
  <2>2. Net(v, {}) = Total(Nets(v), {})
    BY DEF Net, Total
  <2> QED BY <2>1, <2>2, TotalEmpty DEF Upto
<1>2. n \in Nat
  BY TradesAre
<1>3. ASSUME NEW i \in 1..n, NEW j \in 0..(n - 1), i <= j + 1
      PROVE  Upto(v, P, i..(j + 1)) = Upto(v, P, i..j) + NetAt(v, P, j + 1)
  <2>1. i..(j + 1) = (i..j) \cup {j + 1} /\ i..j \in SUBSET (1..n) /\ j + 1 \in (1..n) \ (i..j)
    BY <1>2, <1>3
  <2> QED BY <2>1, NetIs
<1>4. ASSUME NEW j \in 0..n PROVE Upto(v, P, 1..j) \in Int
  <2>1. 1..j \in SUBSET (1..n)
    BY <1>2
  <2> QED BY <2>1, NetIs
<1>5. \A j \in 0..(n - 1) : Upto(v, P, 1..(j + 1)) = Upto(v, P, 1..j) + NetAt(v, P, j + 1)
  <2> SUFFICES ASSUME NEW j \in 0..(n - 1) PROVE Upto(v, P, 1..(j + 1)) = Upto(v, P, 1..j) + NetAt(v, P, j + 1)
    OBVIOUS
  <2>1. 1 \in 1..n /\ 1 <= j + 1
    BY <1>2
  <2> QED BY <1>3, <2>1
<1>6. ASSUME NEW i \in 1..n, NEW j \in 0..n, i <= j + 1
      PROVE  Upto(v, P, i..j) = Upto(v, P, 1..j) - Upto(v, P, 1..(i - 1))
  <2> DEFINE Adds(m) == Upto(v, P, i..m) = Upto(v, P, 1..m) - Upto(v, P, 1..(i - 1))
  <2>1. Adds(i - 1)
    <3>1. i..(i - 1) = {} /\ i - 1 \in 0..n
      BY <1>2
    <3>2. Upto(v, P, 1..(i - 1)) \in Int
      BY <1>4, <3>1
    <3> QED BY <1>1, <3>1, <3>2
  <2>2. ASSUME NEW m \in 0..(n - 1), i <= m + 1, Adds(m) PROVE Adds(m + 1)
    <3>1. PICK a \in Int, b \in Int, c \in Int :
            a = Upto(v, P, 1..m) /\ b = Upto(v, P, 1..(i - 1)) /\ c = NetAt(v, P, m + 1)
      <4>1. i - 1 \in 0..n /\ m \in 0..n /\ m + 1 \in 1..n
        BY <1>2
      <4> QED BY <1>4, <4>1, TradesAre
    <3>2. Upto(v, P, i..m) = a - b /\ Upto(v, P, i..(m + 1)) = Upto(v, P, i..m) + c /\
          Upto(v, P, 1..(m + 1)) = a + c
      BY <1>3, <1>5, <2>2, <3>1
    <3>3. Upto(v, P, i..(m + 1)) = Upto(v, P, 1..(m + 1)) - Upto(v, P, 1..(i - 1))
      BY ONLY <3>1, <3>2, a \in Int, b \in Int, c \in Int
    <3> QED BY <3>3
  <2> HIDE DEF Adds
  <2> SUFFICES ASSUME ~Adds(j) PROVE FALSE
    BY DEF Adds
  <2> DEFINE Bad == {m \in Nat : i <= m + 1 /\ m <= n /\ ~Adds(m)}
  <2>3. j \in Bad /\ Bad \subseteq Nat
    BY <1>2, <1>6
  <2>4. PICK m \in Bad : \A k \in Bad : m <= k
    BY <2>3, LeastNumber
  <2>5. m \in Nat /\ i <= m + 1 /\ m <= n /\ ~Adds(m)
    BY <2>4
  <2>6. m # i - 1
    BY <2>1, <2>5
  <2>7. m - 1 \in Nat /\ i <= (m - 1) + 1 /\ m - 1 <= n /\ m - 1 \in 0..(n - 1) /\ (m - 1) + 1 = m /\
        ~(m <= m - 1)
    BY <1>2, <2>5, <2>6
  <2>8. Adds(m - 1)
    BY <2>4, <2>7
  <2> QED BY <2>2, <2>5, <2>7, <2>8
<1> QED BY <1>1, <1>4, <1>5, <1>6

\* The running state of the report: how much was made so far, the most it ever
\* was, and the worst slide below that.
Runs == [equity : Int, peak : Int, worst : Int]
Started0 == [equity |-> 0, peak |-> 0, worst |-> 0]

\* after is the state that follows acc when a trade makes x.
RunsOn(after, acc, x) ==
  \E e \in Int, p \in Int, w \in Int :
    /\ after = [equity |-> e, peak |-> p, worst |-> w] /\ after \in Runs
    /\ e = acc.equity + x
    /\ p = (IF acc.peak >= e THEN acc.peak ELSE e) /\ w = (IF acc.worst >= p - e THEN acc.worst ELSE p - e)

\* One step of the run through the trades.
LEMMA ThroughIs ==
  ASSUME NEW v \in 1..Variants, NEW P, NEW n, Filed(v, n), NEW acc \in Runs, NEW s \in 1..n
  PROVE  RunsOn(Through(v, P, acc, s), acc, NetAt(v, P, s))
<1>1. PICK e \in Int : e = acc.equity + NetAt(v, P, s)
  BY TradesAre DEF Runs
<1>2. e = acc.equity + (IF s \in Traded(v, P) THEN trades[v][s].net ELSE 0)
  BY <1>1 DEF NetAt, Traded
<1>3. PICK a \in Int, b \in Int : a = acc.peak /\ b = acc.worst
  BY DEF Runs
<1>4. PICK p \in Int : p = (IF a >= e THEN a ELSE e) /\ p = Max({a, e})
  <2>1. Max({a, e}) = IF a >= e THEN a ELSE e
    BY ONLY a \in Int, e \in Int, TwoNumbers
  <2> QED BY <2>1
<1>5. PICK d \in Int : d = p - e
  OBVIOUS
<1>6. PICK w \in Int : w = (IF b >= d THEN b ELSE d) /\ w = Max({b, d})
  <2>1. Max({b, d}) = IF b >= d THEN b ELSE d
    BY ONLY b \in Int, d \in Int, TwoNumbers
  <2> QED BY <2>1
<1>7. Through(v, P, acc, s) = [equity |-> e, peak |-> p, worst |-> w]
  BY <1>2, <1>3, <1>4, <1>5, <1>6 DEF Through
<1>8. Through(v, P, acc, s) \in Runs
  BY <1>7 DEF Runs
<1> QED BY ONLY <1>1, <1>3, <1>4, <1>5, <1>6, <1>7, <1>8, e \in Int, p \in Int, w \in Int DEF RunsOn

\* g is the state of the run after each of the trades of a variant.
Slid(g, v, P, n) ==
  /\ Slide(v, P) = g[1..n].worst /\ g[1..0] = Started0
  /\ \A j \in 0..n : g[1..j] \in Runs
  /\ \A j \in 0..(n - 1) : g[1..(j + 1)] = Through(v, P, g[1..j], j + 1)

\* The fold goes through the trades one by one.
LEMMA SlideSteps ==
  ASSUME NEW v \in 1..Variants, NEW P, NEW n, Filed(v, n)
  PROVE  \E g : Slid(g, v, P, n)
<1>1. n \in Nat /\ Len(trades[v]) = n /\ IsFiniteSet(1..n)
  BY TradesAre
<1>2. PICK q : q = [s \in 1..n |-> s]
  OBVIOUS
<1>3. DOMAIN q = 1..n /\ \A s \in 1..n : q[s] = s
  BY <1>2
<1> DEFINE Fold(g) == g = [s \in SUBSET (1..n) |->
             IF s = {} THEN Started0 ELSE Through(v, P, g[s \ {Max(s)}], q[Max(s)])]
           iter == CHOOSE g : Fold(g)
<1>4. Slide(v, P) = iter[1..n].worst
  BY <1>1, <1>2, <1>3 DEF Slide, FoldLeft, MapThenFoldSet, Started0
<1>5. ASSUME NEW s \in SUBSET (1..n), s # {} PROVE Max(s) \in s /\ Max(s) \in 1..n
  <2>1. s \subseteq Int /\ \A k \in s : k <= n
    BY <1>1
  <2>2. n \in Int
    BY <1>1
  <2>3. Max(s) \in s
    BY ONLY <1>5, <2>1, <2>2, GreatestNumber
  <2> QED BY <2>3
<1>6. \E g \in [SUBSET (1..n) -> Runs] : Fold(g)
  <2>1. PICK op : op = [p \in (1..n) \X Runs |-> Through(v, P, p[2], p[1])]
    OBVIOUS
  <2>2. PICK choose : choose = [s \in SUBSET (1..n) |-> Max(s)]
    OBVIOUS
  <2>3. \A s \in 1..n, acc \in Runs : Through(v, P, acc, s) \in Runs
    BY ThroughIs DEF RunsOn
  <2>4. op \in [(1..n) \X Runs -> Runs]
    BY <2>1, <2>3
  <2>5. Chooses(choose, 1..n)
    BY <1>5, <2>2 DEF Chooses
  <2>6. Started0 \in Runs
    BY DEF Started0, Runs
  <2>7. PICK g \in [SUBSET (1..n) -> Runs] : Folds(g, Started0, op, choose, 1..n)
    BY ONLY <1>1, <2>4, <2>5, <2>6, FoldExists
  <2>8. ASSUME NEW s \in SUBSET (1..n)
        PROVE  g[s] = IF s = {} THEN Started0 ELSE Through(v, P, g[s \ {Max(s)}], q[Max(s)])
    <3>1. g[s] = IF s = {} THEN Started0 ELSE op[<<choose[s], g[s \ {choose[s]}]>>]
      BY <2>7 DEF Folds
    <3>2. CASE s # {}
      <4>1. choose[s] = Max(s) /\ Max(s) \in 1..n /\ q[Max(s)] = Max(s)
        BY <1>3, <1>5, <2>2, <3>2
      <4>2. g[s \ {Max(s)}] \in Runs
        BY <2>7
      <4>3. op[<<Max(s), g[s \ {Max(s)}]>>] = Through(v, P, g[s \ {Max(s)}], Max(s))
        BY <2>1, <4>1, <4>2
      <4> QED BY <3>1, <3>2, <4>1, <4>3
    <3> QED BY <3>1, <3>2
  <2>9. Fold(g)
    <3>1. g = [s \in SUBSET (1..n) |-> g[s]]
      OBVIOUS
    <3> QED BY <2>8, <3>1
  <2> QED BY <2>9
<1>7. Fold(iter)
  BY <1>6
<1>8. PICK g : g = iter /\ g = [s \in SUBSET (1..n) |->
             IF s = {} THEN Started0 ELSE Through(v, P, g[s \ {Max(s)}], q[Max(s)])]
  BY <1>7
<1>9. \A s \in SUBSET (1..n) : g[s] = IF s = {} THEN Started0 ELSE Through(v, P, g[s \ {Max(s)}], q[Max(s)])
  BY ONLY <1>8
<1> HIDE DEF iter, Fold
<1>10. ASSUME NEW j \in 0..(n - 1)
       PROVE  g[1..(j + 1)] = Through(v, P, g[1..j], j + 1)
  <2>1. PICK s \in SUBSET (1..n) : s = 1..(j + 1) /\ s # {} /\ s \ {j + 1} = 1..j /\ j + 1 \in 1..n
    BY <1>1
  <2>2. Max(s) = j + 1
    <3>1. s \subseteq Int /\ (\A k \in s : k <= j + 1) /\ j + 1 \in Int /\ j + 1 \in s
      BY <1>1, <2>1
    <3>2. Max(s) \in s /\ \A k \in s : k <= Max(s)
      BY ONLY <2>1, <3>1, GreatestNumber
    <3>3. PICK m \in Int : m = Max(s)
      BY <3>1, <3>2
    <3>4. m <= j + 1 /\ j + 1 <= m
      BY ONLY <3>1, <3>2, <3>3
    <3> QED BY ONLY <3>1, <3>3, <3>4, m \in Int
  <2>3. g[s] = Through(v, P, g[s \ {Max(s)}], q[Max(s)])
    BY <1>9, <2>1
  <2> QED BY <1>3, <2>1, <2>2, <2>3
<1>11. g[1..0] = Started0 /\ Started0 \in Runs
  <2>1. 1..0 = {} /\ {} \in SUBSET (1..n)
    OBVIOUS
  <2>2. g[1..0] = Started0
    BY ONLY <1>9, <2>1
  <2>3. Started0 \in Runs
    BY DEF Started0, Runs
  <2> QED BY <2>2, <2>3
<1>12. \A j \in 0..n : g[1..j] \in Runs
  <2> SUFFICES ASSUME NEW k \in 0..n, g[1..k] \notin Runs PROVE FALSE
    OBVIOUS
  <2> DEFINE Bad == {m \in Nat : m <= n /\ g[1..m] \notin Runs}
  <2>1. PICK m \in Bad : \A i \in Bad : m <= i
    <3>1. k \in Bad /\ Bad \subseteq Nat
      BY <1>1
    <3> QED BY <3>1, LeastNumber
  <2>2. m \in Nat /\ m <= n /\ g[1..m] \notin Runs /\ m # 0
    BY <1>11, <2>1
  <2>3. m - 1 \in 0..(n - 1) /\ (m - 1) + 1 = m /\ m - 1 \in Nat /\ m - 1 <= n /\ ~(m <= m - 1) /\
        m \in 1..n
    BY <1>1, <2>2
  <2>4. g[1..(m - 1)] \in Runs
    BY <2>1, <2>3
  <2>5. g[1..m] = Through(v, P, g[1..(m - 1)], m)
    BY <1>10, <2>3
  <2>6. Through(v, P, g[1..(m - 1)], m) \in Runs
    BY <2>3, <2>4, ThroughIs DEF RunsOn
  <2> QED BY <2>2, <2>5, <2>6
<1>13. Slide(v, P) = g[1..n].worst
  BY <1>4, <1>8
<1>14. Slid(g, v, P, n)
  BY <1>10, <1>11, <1>12, <1>13 DEF Slid
<1> QED BY <1>14

\* The worst slide is the worst that the trades of the part made between two of them.
LEMMA SlideIs ==
  ASSUME NEW v \in 1..Variants, NEW P, NEW n, Filed(v, n)
  PROVE  Slide(v, P) = -Min(Slides(v, P) \cup {0})
<1>1. n \in Nat /\ Len(trades[v]) = n
  BY TradesAre
<1>0. PICK g : Slid(g, v, P, n)
  BY SlideSteps
<1>2. /\ Slide(v, P) = g[1..n].worst /\ g[1..0] = Started0
      /\ \A j \in 0..n : g[1..j] \in Runs
      /\ \A j \in 0..(n - 1) : g[1..(j + 1)] = Through(v, P, g[1..j], j + 1)
  BY <1>0 DEF Slid
<1>3. PICK E \in [0..n -> Int] : \A j \in 0..n : E[j] = Upto(v, P, 1..j)
  <2>1. [j \in 0..n |-> Upto(v, P, 1..j)] \in [0..n -> Int]
    BY StretchIs
  <2> QED BY <2>1
<1>4. E[0] = 0 /\ \A j \in 0..(n - 1) : E[j + 1] = E[j] + NetAt(v, P, j + 1)
  <2>1. E[0] = 0
    BY <1>1, <1>3, StretchIs
  <2>2. ASSUME NEW j \in 0..(n - 1) PROVE E[j + 1] = E[j] + NetAt(v, P, j + 1)
    <3>1. j \in 0..n /\ j + 1 \in 0..n
      BY <1>1
    <3>2. Upto(v, P, 1..(j + 1)) = Upto(v, P, 1..j) + NetAt(v, P, j + 1)
      BY StretchIs
    <3> QED BY <1>3, <3>1, <3>2
  <2> QED BY <2>1, <2>2
<1> DEFINE Seen(j, e, p, w) ==
      /\ e = E[j]
      /\ (\E k \in 0..j : p = E[k]) /\ \A k \in 0..j : E[k] <= p
      /\ (\E l \in 0..j : \E k \in 0..l : w = E[k] - E[l]) /\ \A l \in 0..j : \A k \in 0..l : E[k] - E[l] <= w
    Good(j) == Seen(j, g[1..j].equity, g[1..j].peak, g[1..j].worst)
<1>5. Good(0)
  <2>1. g[1..0].equity = 0 /\ g[1..0].peak = 0 /\ g[1..0].worst = 0
    BY <1>2 DEF Started0
  <2>2. 0..0 = {0}
    OBVIOUS
  <2>3. Seen(0, 0, 0, 0)
    BY <1>4, <2>2
  <2> QED BY <2>1, <2>3
<1>6. ASSUME NEW j \in 0..(n - 1), Good(j) PROVE Good(j + 1)
  <2>1. PICK acc \in Runs : acc = g[1..j]
    <3>1. j \in 0..n
      BY <1>1
    <3> QED BY <1>2, <3>1
  <2>2. PICK e0 \in Int, p0 \in Int, w0 \in Int : e0 = acc.equity /\ p0 = acc.peak /\ w0 = acc.worst
    BY DEF Runs
  <2>3. Seen(j, e0, p0, w0)
    BY <1>6, <2>1, <2>2
  <2>4. j + 1 \in 1..n /\ g[1..(j + 1)] = Through(v, P, acc, j + 1)
    BY <1>1, <1>2, <2>1
  <2>5. PICK e \in Int, p \in Int, w \in Int :
          /\ Through(v, P, acc, j + 1) = [equity |-> e, peak |-> p, worst |-> w]
          /\ e = acc.equity + NetAt(v, P, j + 1)
          /\ p = (IF acc.peak >= e THEN acc.peak ELSE e) /\ w = (IF acc.worst >= p - e THEN acc.worst ELSE p - e)
    <3>1. PICK s \in 1..n : s = j + 1
      BY <2>4
    <3>2. RunsOn(Through(v, P, acc, s), acc, NetAt(v, P, s))
      BY ThroughIs
    <3> QED BY ONLY <3>1, <3>2 DEF RunsOn
  <2>6. g[1..(j + 1)].equity = e /\ g[1..(j + 1)].peak = p /\ g[1..(j + 1)].worst = w
    BY <2>4, <2>5
  <2>7. e = E[j + 1]
    BY <1>4, <2>2, <2>3, <2>5
  <2>8. p = (IF p0 >= e THEN p0 ELSE e) /\ w = (IF w0 >= p - e THEN w0 ELSE p - e)
    BY <2>2, <2>5
  <2>9. \A k \in 0..(j + 1) : k \in 0..j \/ k = j + 1
    BY <1>1
  <2>10. 0..j \subseteq 0..(j + 1) /\ j + 1 \in 0..(j + 1) /\ 0..(j + 1) \subseteq 0..n
    BY <1>1
  <2>11. \A k \in 0..(j + 1) : E[k] \in Int
    BY <1>3, <2>10
  <2>12. (\E k \in 0..(j + 1) : p = E[k]) /\ \A k \in 0..(j + 1) : E[k] <= p
    <3>1. PICK k0 \in 0..j : p0 = E[k0]
      BY <2>3
    <3>2. \A k \in 0..j : E[k] <= p0
      BY <2>3
    <3>3. k0 \in 0..(j + 1)
      BY <2>10, <3>1
    <3>4. \E k \in 0..(j + 1) : p = E[k]
      BY ONLY <2>7, <2>8, <2>10, <3>1, <3>3
    <3>5. ASSUME NEW k \in 0..(j + 1) PROVE E[k] <= p
      <4>1. E[k] <= p0 \/ E[k] = e
        BY <2>7, <2>9, <3>2
      <4>2. E[k] \in Int
        BY <2>11
      <4> QED BY ONLY <2>8, <4>1, <4>2, p0 \in Int, e \in Int
    <3> QED BY <3>4, <3>5
  <2>13. \E l \in 0..(j + 1) : \E k \in 0..l : w = E[k] - E[l]
    <3>1. CASE w = w0
      <4>1. PICK l \in 0..j : \E k \in 0..l : w0 = E[k] - E[l]
        BY <2>3
      <4> QED BY <2>10, <3>1, <4>1
    <3>2. CASE w = p - e
      <4>1. PICK k \in 0..(j + 1) : p = E[k]
        BY <2>12
      <4> QED BY <2>7, <2>10, <3>2, <4>1
    <3> QED BY <2>8, <3>1, <3>2
  <2>14. ASSUME NEW l \in 0..(j + 1), NEW k \in 0..l PROVE E[k] - E[l] <= w
    <3>0. w0 <= w /\ p - e <= w
      BY ONLY <2>8, w0 \in Int, p \in Int, e \in Int
    <3>1. CASE l \in 0..j
      <4>1. E[k] - E[l] <= w0
        BY <2>3, <3>1
      <4>2. E[k] \in Int /\ E[l] \in Int
        <5>1. k \in 0..(j + 1)
          BY <1>1
        <5> QED BY <2>11, <5>1
      <4> QED BY ONLY <3>0, <4>1, <4>2, w0 \in Int, w \in Int
    <3>2. CASE l = j + 1
      <4>1. k \in 0..(j + 1)
        BY <3>2
      <4>2. E[k] <= p /\ E[l] = e /\ E[k] \in Int
        BY <2>7, <2>11, <2>12, <3>2, <4>1
      <4> QED BY ONLY <3>0, <4>2, p \in Int, e \in Int, w \in Int
    <3> QED BY <2>9, <3>1, <3>2
  <2>15. Seen(j + 1, e, p, w)
    BY <2>7, <2>12, <2>13, <2>14
  <2> HIDE DEF Seen
  <2> QED BY <2>6, <2>15
<1>7. Good(n)
  <2> HIDE DEF Good
  <2> SUFFICES ASSUME ~Good(n) PROVE FALSE
    OBVIOUS
  <2> DEFINE Bad == {m \in Nat : m <= n /\ ~Good(m)}
  <2>1. PICK m \in Bad : \A i \in Bad : m <= i
    <3>1. n \in Bad /\ Bad \subseteq Nat
      BY <1>1
    <3> QED BY <3>1, LeastNumber
  <2>2. m \in Nat /\ m <= n /\ ~Good(m) /\ m # 0
    BY <1>5, <2>1
  <2>3. m - 1 \in 0..(n - 1) /\ (m - 1) + 1 = m /\ m - 1 \in Nat /\ m - 1 <= n /\ ~(m <= m - 1)
    BY <1>1, <2>2
  <2>4. Good(m - 1)
    BY <2>1, <2>3
  <2> QED BY <1>6, <2>2, <2>3, <2>4
<1>8. PICK w \in Int : w = Slide(v, P)
  <2>1. n \in 0..n
    BY <1>1
  <2> QED BY <1>2, <2>1 DEF Runs
<1>9. (\E l \in 0..n : \E k \in 0..l : w = E[k] - E[l]) /\
      \A l \in 0..n : \A k \in 0..l : E[k] - E[l] <= w
  BY <1>2, <1>7, <1>8
<1> HIDE DEF Good, Seen
<1>10. ASSUME NEW i \in 1..n, NEW j \in 1..n, i <= j
       PROVE  Upto(v, P, i..j) = E[j] - E[i - 1] /\ E[j] \in Int /\ E[i - 1] \in Int
  <2>1. i - 1 \in 0..n /\ j \in 0..n /\ i <= j + 1
    BY <1>1, <1>10
  <2> QED BY <1>3, <2>1, StretchIs
<1> DEFINE Reach(i, j) == Upto(v, P, i..j)
<1>15. Slides(v, P) = {Reach(i, j) : i \in 1..n, j \in 1..n}
  BY <1>1 DEF Slides, Upto
<1> HIDE DEF Reach
<1>11. \A i \in 1..n, j \in 1..n : Upto(v, P, i..j) \in Slides(v, P)
  BY <1>15 DEF Reach
<1>12. ASSUME NEW x \in Slides(v, P) \cup {0} PROVE x \in Int /\ -w <= x
  <2>1. CASE x = 0
    <3>1. E[0] - E[0] <= w /\ E[0] \in Int
      BY <1>1, <1>3, <1>9
    <3> QED BY ONLY <2>1, <3>1, w \in Int
  <2>2. CASE x \in Slides(v, P)
    <3>1. PICK i \in 1..n, j \in 1..n : x = Upto(v, P, i..j)
      BY <1>15, <2>2 DEF Reach
    <3>2. CASE i > j
      <4>1. i..j = {}
        BY <3>2
      <4> QED BY <2>1, <3>1, <4>1, StretchIs
    <3>3. CASE i <= j
      <4>1. x = E[j] - E[i - 1] /\ E[j] \in Int /\ E[i - 1] \in Int
        BY <1>10, <3>1, <3>3
      <4>2. j \in 0..n /\ i - 1 \in 0..j
        BY <1>1, <3>3
      <4>3. E[i - 1] - E[j] <= w
        BY <1>9, <4>2
      <4> QED BY ONLY <4>1, <4>3, w \in Int
    <3> QED BY <3>2, <3>3
  <2> QED BY <2>1, <2>2
<1>13. -w \in Slides(v, P) \cup {0}
  <2>0. PICK l \in 0..n : \E k \in 0..l : w = E[k] - E[l]
    BY <1>9
  <2>1. PICK k \in 0..l : w = E[k] - E[l]
    BY <2>0
  <2>2. E[k] \in Int /\ E[l] \in Int
    <3>1. k \in 0..n
      BY <1>1
    <3> QED BY <1>3, <3>1
  <2>3. CASE k = l
    BY <2>1, <2>2, <2>3
  <2>4. CASE k < l
    <3>1. k + 1 \in 1..n /\ l \in 1..n /\ k + 1 <= l /\ (k + 1) - 1 = k
      BY <1>1, <2>4
    <3>2. Upto(v, P, (k + 1)..l) = E[l] - E[k]
      BY <1>10, <3>1
    <3>3. Upto(v, P, (k + 1)..l) = -w
      BY ONLY <2>1, <2>2, <3>2
    <3> QED BY <1>11, <3>1, <3>3
  <2> QED BY <2>3, <2>4
<1>14. Min(Slides(v, P) \cup {0}) = -w
  <2>1. PICK S : S = Slides(v, P) \cup {0}
    OBVIOUS
  <2>2. (\A x \in S : x \in Int /\ -w <= x) /\ -w \in S
    BY <1>12, <1>13, <2>1
  <2>3. Min(S) \in S /\ \A x \in S : Min(S) <= x
    BY <2>2 DEF Min
  <2>4. Min(S) = -w
    BY ONLY <2>2, <2>3
  <2> QED BY <2>1, <2>4
<1> QED BY <1>8, <1>14

\* The parts of a study: every session is in one of them, and those of a study
\* that is long enough to have three follow one another.
LEMMA PartsAre ==
  ASSUME Studied
  PROVE  /\ Train \cup Validation \cup Test = 1..observed
         /\ Train \cap Validation = {} /\ (Train \cup Validation) \cap Test = {}
         /\ Validation # {} =>
              /\ Test # {} /\ Past \cap Test = {} /\ Past \ Train = Validation
              /\ (\A s \in Train, t \in Validation, u \in Test : s < t /\ t < u)
              /\ \A s \in Past, u \in Test : s \in Int /\ u \in Int /\ s < u
<1>1. PICK n \in Nat \ {0} : n = observed /\ Sessions = 1..n
  BY GridIsFinite DEF Studied, Sessions
<1>2. CASE Few
  BY <1>1, <1>2 DEF Train, Validation, Test
<1>3. CASE ~Few
  <2>1. 3 <= n
    BY <1>1, <1>3 DEF Few
  <2>2. PICK f \in Nat : f = First
    <3>1. PICK a \in Nat : a = (n * 60) \div 100
      BY <1>1
    <3>2. Max({1, a}) \in Nat
      BY ONLY a \in Nat, TwoNumbers
    <3> QED BY <1>1, <3>1, <3>2 DEF First
  <2>3. PICK c \in Nat : c = Second /\ 3 <= c /\ c <= n /\ f <= c
    <3>1. PICK a \in Nat, b \in Nat : /\ a = (n * 60) \div 100 /\ b = (n * 80) \div 100
                                      /\ a <= b /\ b < n
      <4>1. PICK x \in Nat, y \in Nat : x = n * 60 /\ y = n * 80
        BY <1>1
      <4>2. PICK a \in Nat, b \in Nat :
              a = x \div 100 /\ b = y \div 100 /\ a * 100 <= x /\ y < (b + 1) * 100 /\ b * 100 <= y
        OBVIOUS
      <4>3. a <= b /\ b < n
        BY ONLY <1>1, <4>1, <4>2, n \in Nat \ {0}, a \in Nat, b \in Nat, x \in Nat, y \in Nat
      <4> QED BY <4>1, <4>2, <4>3
    <3>2. Max({1, a}) = IF 1 >= a THEN 1 ELSE a
      BY ONLY a \in Nat, TwoNumbers
    <3>3. Max({2, b}) = IF 2 >= b THEN 2 ELSE b
      BY ONLY b \in Nat, TwoNumbers
    <3>4. f = (IF 1 >= a THEN 1 ELSE a) + 1
      BY <1>1, <2>2, <3>1, <3>2 DEF First
    <3>5. PICK c \in Nat : c = (IF 2 >= b THEN 2 ELSE b) + 1
      OBVIOUS
    <3>6. c = Second
      BY <1>1, <3>1, <3>3, <3>5 DEF Second
    <3>7. 3 <= c /\ c <= n /\ f <= c
      BY ONLY <2>1, <3>1, <3>4, <3>5, a \in Nat, b \in Nat, c \in Nat, n \in Nat \ {0}
    <3> QED BY <3>6, <3>7
  <2>4. /\ Train = {s \in 1..n : s < f} /\ Validation = {s \in 1..n : f <= s /\ s < c}
        /\ Test = {s \in 1..n : s >= c}
    BY <1>1, <1>3, <2>2, <2>3 DEF Train, Validation, Test
  <2>5. Past = 1..(c - 1)
    <3>1. PICK S : S = {s \in 0..n : s = 0 \/ s \notin Test}
      OBVIOUS
    <3>2. S = 0..(c - 1)
      BY <1>1, <2>3, <2>4, <3>1
    <3>3. c - 1 \in 0..(c - 1) /\ 0..(c - 1) \subseteq Int /\ \A k \in 0..(c - 1) : k <= n
      BY <1>1, <2>3
    <3>4. n \in Int /\ 0..(c - 1) # {}
      <4>1. 0..(c - 1) # {}
        BY ONLY <3>3
      <4> QED BY <4>1
    <3>5. Max(S) \in S /\ \A k \in S : k <= Max(S)
      BY ONLY <3>2, <3>3, <3>4, GreatestNumber
    <3>6. PICK m \in Int : m = Max(S)
      BY <3>2, <3>3, <3>5
    <3>7. m <= c - 1 /\ c - 1 <= m
      BY ONLY <3>2, <3>3, <3>5, <3>6, m \in Int, c \in Nat
    <3>8. m = c - 1
      BY ONLY <3>7, m \in Int, c \in Nat
    <3> QED BY <1>1, <3>1, <3>6, <3>8 DEF Past
  <2>6. n \in Test
    BY <1>1, <2>3, <2>4
  <2>7. Past \cap Test = {} /\ Past \ Train = Validation
    BY <1>1, <2>3, <2>4, <2>5
  <2>8. \A s \in Train, t \in Validation, u \in Test : s < t /\ t < u
    BY <1>1, <2>4
  <2>9. \A s \in Past, u \in Test : s \in Int /\ u \in Int /\ s < u
    BY <1>1, <2>3, <2>4, <2>5
  <2>10. Train \cup Validation \cup Test = 1..n
    BY <1>1, <2>3, <2>4
  <2>11. Train \cap Validation = {} /\ (Train \cup Validation) \cap Test = {}
    BY <1>1, <2>3, <2>4
  <2> QED BY <1>1, <2>6, <2>7, <2>8, <2>9, <2>10, <2>11
<1> QED BY <1>2, <1>3

\* What a report says about a part.
LEMMA ReportIs ==
  ASSUME Studied, NEW v \in 1..Variants, NEW P
  PROVE  \E c \in Nat, t \in Int :
           /\ c = Cardinality(Traded(v, P)) /\ t = NetOf(v, P)
           /\ Report(v, P).trades = c
           /\ Report(v, P).average = [num |-> t, den |-> IF c >= 1 THEN c ELSE 1]
<1>1. PICK c \in Nat, t \in Int : c = Cardinality(Traded(v, P)) /\ t = NetOf(v, P)
  <2>1. Filed(v, Len(trades[v]))
    BY DEF Filed
  <2>2. Traded(v, P) \in SUBSET (1..Len(trades[v]))
    BY DEF Traded
  <2> QED BY <2>1, <2>2, NetTotals DEF NetOf
<1>2. Max({c, 1}) = IF c >= 1 THEN c ELSE 1
  BY ONLY c \in Nat, TwoNumbers
<1>3. Report(v, P).average = [num |-> t, den |-> Max({c, 1})]
  BY <1>1 DEF Report
<1>4. Report(v, P).trades = c
  BY <1>1 DEF Report
<1> QED BY <1>1, <1>2, <1>3, <1>4

\* The drawdown of a report is the worst that the trades of its part made.
LEMMA DrawdownIs ==
  ASSUME Studied, NEW v \in 1..Variants, NEW P
  PROVE  DrawdownIsWorst(v, P)
<1>1. Filed(v, Len(trades[v]))
  BY DEF Filed
<1>2. Report(v, P).slide = Slide(v, P)
  BY DEF Report
<1> QED BY <1>1, <1>2, SlideIs DEF DrawdownIsWorst

\* The trades of a variant are filed in one part each.
LEMMA FiledOnce ==
  ASSUME Studied, NEW v \in 1..Variants
  PROVE  /\ Traded(v, Train) \cup Traded(v, Validation) \cup Traded(v, Test) = 1..Len(trades[v])
         /\ Traded(v, Train) \cap Traded(v, Validation) = {}
         /\ (Traded(v, Train) \cup Traded(v, Validation)) \cap Traded(v, Test) = {}
<1>1. \A i \in 1..Len(trades[v]) : trades[v][i].entry \in 1..observed
  BY DEF Studied, Recorded
<1> QED BY <1>1, PartsAre DEF Traded

\* The winner is an eligible variant that no other outdoes.
LEMMA WinnerIs ==
  /\ Winner \in 0..Variants
  /\ Winner > 0 => /\ Winner \in 1..Variants /\ Eligible(Winner)
                   /\ \A v \in 1..Variants : Eligible(v) => ~Outdoes(v, Winner)
<1> DEFINE best == {v \in 1..Variants : Eligible(v) /\
      \A w \in 1..Variants : Eligible(w) => ~Outdoes(w, v)}
<1>1. Winner = IF best = {} THEN 0 ELSE Min(best)
  BY DEF Winner
<1>2. Variants \in Nat
  BY GridIsFinite
<1>3. best # {} => Min(best) \in best
  <2>1. best \subseteq Nat
    OBVIOUS
  <2>2. best # {} => \E m \in best : \A k \in best : m <= k
    BY <2>1, LeastNumber
  <2> HIDE DEF best
  <2> QED BY <2>2 DEF Min
<1>4. best # {} => Min(best) \in 1..Variants /\ Eligible(Min(best))
                   /\ \A w \in 1..Variants : Eligible(w) => ~Outdoes(w, Min(best))
  BY <1>3
<1> HIDE DEF best
<1> QED BY <1>1, <1>2, <1>4

\* What the choice of a winner guarantees.
LEMMA WinnerIsHonest ==
  ASSUME Studied, winner = -1 \/ winner = Winner
  PROVE  TuneHonest
<1>0. \A v \in 1..Variants :
        /\ Traded(v, Train) \cup Traded(v, Validation) \cup Traded(v, Test) = 1..Len(trades[v])
        /\ Traded(v, Train) \cap Traded(v, Validation) = {}
        /\ (Traded(v, Train) \cup Traded(v, Validation)) \cap Traded(v, Test) = {}
        /\ DrawdownIsWorst(v, Train) /\ DrawdownIsWorst(v, Validation)
  BY FiledOnce, DrawdownIs
<1> SUFFICES ASSUME winner > 0 PROVE TuneHonest
  BY <1>0 DEF TuneHonest
<1>1. PICK v \in 1..Variants :
      v = winner /\ Eligible(v) /\ \A w \in 1..Variants : Eligible(w) => ~Outdoes(w, v)
  BY WinnerIs
<1>2. MinValidation \in Nat \ {0} /\ Carry \in Nat
  BY GridIsFinite
<1>3. Validation # {}
  <2>1. Report(v, Validation).trades >= 1
    <3>1. PICK c \in Nat : c = Report(v, Validation).trades
      BY ReportIs
    <3>2. c >= MinValidation
      BY <1>1, <3>1 DEF Eligible
    <3> QED BY <1>2, <3>1, <3>2
  <2>2. Validation = {} => Traded(v, Validation) = {}
    BY DEF Traded
  <2>3. Report(v, Validation).trades = Cardinality(Traded(v, Validation))
    BY DEF Report
  <2> QED BY <2>1, <2>2, <2>3, FS_EmptySet
<1>4. /\ Test # {} /\ Past \cap Test = {} /\ Past \ Train = Validation
      /\ (\A s \in Train, t \in Validation, u \in Test : s < t /\ t < u)
      /\ \A s \in Past, u \in Test : s \in Int /\ u \in Int /\ s < u
  BY <1>3, PartsAre
<1>5. NetOf(v, Validation) > 0 /\ NetOf(v, Train) > 0
  <2>1. Report(v, Validation).average.num = NetOf(v, Validation) /\
        Report(v, Train).average.num = NetOf(v, Train)
    BY DEF Report
  <2> QED BY <1>1, <2>1 DEF Eligible
<1>6. ASSUME NEW w \in 1..Variants, Eligible(w)
      PROVE  NetOf(w, Validation) * Cardinality(Traded(v, Validation))
               <= NetOf(v, Validation) * Cardinality(Traded(w, Validation))
  <2>1. ASSUME NEW x \in 1..Variants, Eligible(x)
        PROVE  \E c \in Nat, t \in Int :
                 /\ c = Cardinality(Traded(x, Validation)) /\ t = NetOf(x, Validation)
                 /\ Report(x, Validation).average = [num |-> t, den |-> c]
    <3>1. PICK c \in Nat, t \in Int :
            /\ c = Cardinality(Traded(x, Validation)) /\ t = NetOf(x, Validation)
            /\ Report(x, Validation).trades = c
            /\ Report(x, Validation).average = [num |-> t, den |-> IF c >= 1 THEN c ELSE 1]
      BY ONLY Studied, x \in 1..Variants, ReportIs
    <3>2. c >= 1
      <4>1. c >= MinValidation
        BY <2>1, <3>1 DEF Eligible
      <4> QED BY <1>2, <4>1
    <3> QED BY <3>1, <3>2
  <2>2. PICK c \in Nat, t \in Int :
          /\ c = Cardinality(Traded(v, Validation)) /\ t = NetOf(v, Validation)
          /\ Report(v, Validation).average = [num |-> t, den |-> c]
    BY <1>1, <2>1
  <2>3. PICK d \in Nat, u \in Int :
          /\ d = Cardinality(Traded(w, Validation)) /\ u = NetOf(w, Validation)
          /\ Report(w, Validation).average = [num |-> u, den |-> d]
    BY <1>6, <2>1
  <2>4. ~Smaller(Report(v, Validation).average, Report(w, Validation).average)
    BY <1>1, <1>6 DEF Outdoes
  <2>5. ~(t * d < u * c)
    BY <2>2, <2>3, <2>4 DEF Smaller
  <2>6. u * c <= t * d
    <3>1. PICK p \in Int, q \in Int : p = u * c /\ q = t * d
      OBVIOUS
    <3> QED BY <2>5, <3>1
  <2> QED BY <2>2, <2>3, <2>6
<1>7. ASSUME NEW w \in 1..Variants, NEW i \in Traded(w, Past), NEW u \in Test
      PROVE  trades[w][i].exit < u + Carry
  <2>1. PICK s \in Int, x \in Int :
          s = trades[w][i].entry /\ x = trades[w][i].exit /\ x <= s + Carry /\ s \in Past
    BY DEF Traded, Studied, Recorded
  <2>2. u \in Int /\ s < u
    BY <1>4, <2>1
  <2> QED BY ONLY <1>2, <2>1, <2>2, s \in Int, x \in Int
<1>8. DrawdownIsWorst(v, Test)
  BY DrawdownIs
<1> QED BY <1>0, <1>1, <1>4, <1>5, <1>6, <1>7, <1>8 DEF TuneHonest

StudyInv == Studied /\ (winner = -1 \/ winner = Winner)

\* What was traded is fixed, and the winner is the one that tune chooses.
THEOREM StudyInvariant == StudySpec => []StudyInv
<1>1. StudyInit => StudyInv
  <2> SUFFICES ASSUME StudyInit, NEW v \in 1..Variants PROVE Recorded(observed, trades[v])
    BY DEF StudyInit, StudyInv, Studied
  <2>1. trades[v] \in Ledger(observed)
    BY DEF StudyInit
  <2>2. PICK k \in 0..MaxTrades : trades[v] \in [1..k -> Trade(observed)]
    BY <2>1 DEF Ledger
  <2>3. Len(trades[v]) = k /\ DOMAIN trades[v] = 1..k /\ k \in Nat
    <3>1. k \in Nat
      BY GridIsFinite
    <3>2. trades[v] \in Seq(Trade(observed)) /\ DOMAIN trades[v] = 1..k
      BY <2>2, <3>1
    <3>3. Len(trades[v]) \in Nat /\ DOMAIN trades[v] = 1..Len(trades[v])
      BY <3>2
    <3>4. PICK l \in Nat : l = Len(trades[v])
      BY <3>3
    <3>5. 1..k = 1..l
      BY <3>2, <3>3, <3>4
    <3>6. k = l
      BY ONLY <3>1, <3>5, l \in Nat
    <3> QED BY <3>1, <3>2, <3>4, <3>6
  <2>4. \A i \in 1..k : trades[v][i] \in Trade(observed)
    BY <2>2
  <2>5. \A t \in Trade(observed) : /\ t.entry \in 1..observed /\ t.exit \in Int /\ t.net \in Int
                                   /\ t.exit <= t.entry + Carry
    <3> SUFFICES ASSUME NEW t \in Trade(observed)
                 PROVE  t.entry \in 1..observed /\ t.exit \in Int /\ t.net \in Int /\ t.exit <= t.entry + Carry
      OBVIOUS
    <3>1. t \in [entry : 1..observed, exit : 1..observed, net : Results] /\ t.exit <= t.entry + Carry
      BY DEF Trade
    <3>2. t.entry \in 1..observed /\ t.exit \in 1..observed /\ t.net \in Results
      BY <3>1
    <3>3. observed \in Nat
      BY GridIsFinite DEF StudyInit
    <3>4. t.net \in Int
      BY <3>2, GridIsFinite
    <3>5. t.exit \in Int
      BY <3>2, <3>3
    <3> QED BY ONLY <3>1, <3>2, <3>4, <3>5
  <2> QED BY <2>3, <2>4, <2>5 DEF Recorded
<1>2. StudyInv /\ [Tune]_studyVars => StudyInv'
  <2> SUFFICES ASSUME StudyInv, [Tune]_studyVars PROVE StudyInv'
    OBVIOUS
  <2>1. trades' = trades /\ observed' = observed /\ (winner' = winner \/ winner' = Winner)
    BY DEF Tune, studyVars
  <2>2. Winner' = Winner
    <3>1. ASSUME NEW v, NEW P
          PROVE  /\ Traded(v, P)' = Traded(v, P) /\ NetOf(v, P)' = NetOf(v, P)
                 /\ WonBy(v, P)' = WonBy(v, P) /\ LostBy(v, P)' = LostBy(v, P)
      BY <2>1 DEF Traded, NetOf, Net, Nets, WonBy, LostBy, MapThenSumSet, MapThenFoldSet
    <3>2. Train' = Train /\ Validation' = Validation
      BY <2>1 DEF Train, Validation, Sessions, First, Second, Few
    <3>3. ASSUME NEW v, NEW P PROVE Slide(v, P)' = Slide(v, P)
      BY <2>1 DEF Slide, FoldLeft, MapThenFoldSet, Through, Traded
    <3>4. ASSUME NEW v, NEW P PROVE Report(v, P)' = Report(v, P)
      BY <2>1, <3>1, <3>3 DEF Report
    <3>5. ASSUME NEW v PROVE Report(v, Train)' = Report(v, Train) /\
          Report(v, Validation)' = Report(v, Validation)
      BY <3>2, <3>4
    <3>6. ASSUME NEW v PROVE Eligible(v)' <=> Eligible(v)
      BY <3>5 DEF Eligible
    <3>7. ASSUME NEW v, NEW w PROVE Outdoes(v, w)' <=> Outdoes(v, w)
      BY <3>5 DEF Outdoes
    <3> QED BY <3>6, <3>7 DEF Winner
  <2>3. Studied'
    BY <2>1 DEF StudyInv, Studied, Recorded
  <2> QED BY <2>1, <2>2, <2>3 DEF StudyInv
<1> QED BY <1>1, <1>2, PTL DEF StudySpec

\* The winner is one of the variants, or none.
THEOREM StudyTypeCorrect == StudySpec => []StudyTypeOK
<1>1. StudyInv => StudyTypeOK
  BY WinnerIs, GridIsFinite DEF StudyInv, StudyTypeOK
<1> QED BY <1>1, StudyInvariant, PTL

\* The tuning loops of both backtests, for every grid, any number of sessions
\* and every ledger of trades, however many a session has and wherever they are
\* settled: every trade is filed in one part, every reported drawdown is the
\* worst of its part, and a winner was chosen by trades that were entered before
\* the sessions it is tested on and settled at most Carry sessions later, gained
\* on both earlier parts, and no eligible variant did better on the validation
\* part.
THEOREM WinnersAreHonest == StudySpec => []TuneHonest
<1>1. StudyInv => TuneHonest
  BY WinnerIsHonest DEF StudyInv
<1> QED BY <1>1, StudyInvariant, PTL
-----------------------------------------------------------------------------
(* The parts side by side.                                                 *)

\* Each of the parts starts as it does alone.
LEMMA PartsStart ==
  ASSUME Init
  PROVE  /\ AccountInit
         /\ DeskInit
         /\ DeliveryInit
         /\ MarketInit
         /\ StrategyInit
         /\ ComposerInit
         /\ CalibrationInit
         /\ StudyInit
         /\ ReversalInit
         /\ CrossoverInit
BY DEF Init, MarketRest, CalibrationRest, StudyRest, ReversalRest, CrossoverRest

\* A step is one of a single part, and the others keep their state.
LEMMA PartsStep ==
  ASSUME [Next]_terminalVars
  PROVE  /\ [AccountNext]_accountVars
         /\ [DeskNext]_deskVars
         /\ [DeliveryNext]_deliveryVars
         /\ [MarketNext]_marketVars
         /\ [BarCloses]_strategyVars
         /\ [Compose]_composerVars
         /\ [CalibrationNext]_calibrationVars
         /\ [Tune]_studyVars
         /\ [ReversalNext]_reversalVars
         /\ [CrossoverNext]_crossoverVars
<1>1. CASE UNCHANGED terminalVars
  BY <1>1 DEF terminalVars
<1>2. CASE Next
  BY <1>2 DEF Next, OthersRest, MarketNext
<1> QED BY <1>1, <1>2

\* The terminal as a whole: whichever part is explored, every part goes its own
\* way, so what is proved of a part by itself holds of it there.
THEOREM PartsAreThemselves ==
  Spec => /\ AccountSpec
          /\ DeskSpec
          /\ DeliverySpec
          /\ MarketSpec
          /\ StrategySpec
          /\ ComposerSpec
          /\ CalibrationSpec
          /\ StudySpec
          /\ ReversalSpec
          /\ CrossoverSpec
BY PartsStart, PartsStep, PTL
   DEF Spec, AccountSpec, DeskSpec, DeliverySpec, MarketSpec, StrategySpec, ComposerSpec,
       CalibrationSpec, StudySpec, ReversalSpec, CrossoverSpec

\* Every part of the terminal keeps its types: sessions belong to accounts,
\* limits to areas, log and queues to messages, buckets to their bars, pools to
\* the counts taken, and the positions of a backtest to its rules.
THEOREM PartsTypeCorrect == Spec => []PartsTypeOK
BY PartsAreThemselves, AccountTypeCorrect, DeskTypeCorrect, DeliveryTypeCorrect, MarketTypeCorrect,
   ComposerTypeCorrect, CalibrationTypeCorrect, StudyTypeCorrect, ReversalTypeCorrect, CrossoverTypeCorrect,
   PTL DEF PartsTypeOK
=============================================================================
