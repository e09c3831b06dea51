--------------------------- MODULE CrossoverStudy ---------------------------
(***************************************************************************)
(* The nine-EMA crossover backtest (ema9_crossover.py), bar by bar over    *)
(* several sessions, once its indicators are warm.                         *)
(*                                                                         *)
(* Prices are integers and multiples of the average range are percents.    *)
(* Of the moving average only this is kept: it moves towards the close and *)
(* does not reach it.  Whether the 21-EMA allows a side is left open.      *)
(***************************************************************************)
EXTENDS Integers, Sequences, FiniteSets, FiniteSetsExt

CONSTANTS
  Rules,      \* [initial, trail, activation, confirm, align, cooldown, shorts, offset]
  Patterns,   \* sessions: which of their bars straddles the flatten time
  Prices,     \* [open, high, low, close]
  Averages,   \* grid of the moving average
  TrueRanges, \* average ranges
  LastBar     \* bound: bars of the data

ASSUME DataEnds == LastBar \in Nat /\ Patterns # {}
ASSUME RulesAreValid ==
  \A r \in Rules : /\ {r.initial, r.trail, r.activation, r.cooldown, r.offset} \subseteq Nat
                   /\ r.confirm \in Nat \ {0} /\ {r.align, r.shorts} \subseteq BOOLEAN
ASSUME PricesAreBars ==
  /\ Averages \subseteq Int /\ TrueRanges \subseteq Nat
  /\ \A b \in Prices : /\ {b.open, b.high, b.low, b.close} \subseteq Int
                      /\ b.low <= b.open /\ b.open <= b.high /\ b.low <= b.close /\ b.close <= b.high
\* 15:55: one bar at the most is later than the one that straddles it.
ASSUME FlattenIsLate ==
  /\ Patterns \subseteq Seq(BOOLEAN) \ {<<>>}
  /\ \A s \in Patterns : \A i \in 1..Len(s) : s[i] => i + 1 >= Len(s)

VARIABLES
  rule,
  session, at,   \* the pattern of the session, and the number of its last bar
  bar,           \* bars so far
  close, ema, range,  \* of the last bar
  above, below,  \* confirmed closes since the last cross
  position, pending, cooldown,
  exit,          \* the trade that the last bar closed
  rested         \* ghost: bars since the last stop

crossoverVars == <<rule, session, at, bar, close, ema, range, above, below,
                   position, pending, cooldown, exit, rested>>

Absent == [side |-> 0]
Multiple(percent, x) == (percent * x) \div 100
Better(side, a, b) == IF side > 0 THEN Max({a, b}) ELSE Min({a, b})
Worse(side, a, b)  == IF side > 0 THEN Min({a, b}) ELSE Max({a, b})

-----------------------------------------------------------------------------
(* One bar, from its open to its close.                                    *)

Opened(order, b) ==
  LET risk == Multiple(rule.initial, order.range) IN
  [side |-> order.side, entry |-> b.open, initial |-> b.open - order.side * risk,
   stop |-> b.open - order.side * risk, risk |-> risk, best |-> 0]

Closed(p, reason, price, b) ==
  [side |-> p.side, entry |-> p.entry, risk |-> p.risk, stop |-> p.stop,
   reason |-> reason, price |-> price, bar |-> b]

Favourable(p, b) == Max({p.best, IF p.side > 0 THEN b.high - p.entry ELSE p.entry - b.low})

\* _stop_fill: at the stop, or at an open beyond its limit.
StopHit(p, b) == IF p.side > 0 THEN b.low <= p.stop ELSE b.high >= p.stop
StopFill(p, b) ==
  IF p.side * (b.open - p.stop) < -Multiple(rule.offset, range) THEN b.open ELSE p.stop

\* Entry, flatten and stop of a bar.
Intrabar(b, flat) ==
  LET p == IF pending # Absent /\ position = Absent /\ ~flat /\ cooldown = 0
           THEN Opened(pending, b) ELSE position
      held == [p EXCEPT !.best = Favourable(p, b)]
  IN IF p = Absent THEN [position |-> Absent, exit |-> Absent, stopped |-> FALSE]
     ELSE IF flat
     THEN [position |-> Absent, exit |-> Closed(p, "SESSION_FLATTEN", b.open, b), stopped |-> FALSE]
     ELSE IF StopHit(p, b)
     THEN [position |-> Absent, exit |-> Closed(p, "TRAIL_STOP", StopFill(p, b), b), stopped |-> TRUE]
     ELSE [position |-> held, exit |-> Absent, stopped |-> FALSE]

\* The average moves towards the close.
Moved(from, to) == {e \in Averages : \/ e = from
                                     \/ (from < e /\ e < to) \/ (to < e /\ e < from)}

\* The close counts on the side of a fresh cross, and only while it stays
\* there; a count is not told apart above the confirmation.
Counted(count, crossed, beyond) ==
  IF ~beyond \/ (~crossed /\ count = 0) THEN 0 ELSE Min({count + 1, rule.confirm})

\* A confirmed cross against the position closes it.
CrossAgainst(p, up, down) == (p.side > 0 /\ down >= rule.confirm) \/ (p.side < 0 /\ up >= rule.confirm)

Trail(p, e, r) ==
  LET trail == e - p.side * Multiple(rule.trail, r) IN
  IF 100 * p.best >= rule.activation * p.risk THEN Better(p.side, trail, p.entry) ELSE trail

\* Fault: the stop follows the average both ways.
FaultyRatchet(p, e, r) == [p EXCEPT !.stop = Trail(p, e, r)]

Ratchet(p, e, r) == [p EXCEPT !.stop = Better(p.side, @, Trail(p, e, r))]

\* The order for the next bar, and the counts that it uses up.
Armed(order, free, up, down, allowed) ==
  LET same == [pending |-> order, above |-> up, below |-> down] IN
  IF ~free THEN same
  ELSE IF up >= rule.confirm /\ 1 \in allowed THEN [same EXCEPT !.pending = [side |-> 1, range |-> range'], !.above = 0]
  ELSE IF down >= rule.confirm /\ rule.shorts /\ -1 \in allowed
  THEN [same EXCEPT !.pending = [side |-> -1, range |-> range'], !.below = 0]
  ELSE IF down >= rule.confirm THEN [same EXCEPT !.pending = Absent]
  ELSE same

\* The next bar of the session, or the first of the next one.
Tick ==
  IF at < Len(session) THEN session' = session /\ at' = at + 1
  ELSE session' \in Patterns /\ at' = 1

NextBar(b) ==
  /\ bar < LastBar /\ bar' = bar + 1
  /\ Tick /\ rule' = rule
  /\ close' = b.close /\ ema' \in Moved(ema, b.close) /\ range' \in TrueRanges
  /\ \E allowed \in IF rule.align THEN {{}, {1}, {-1}} ELSE {{1, -1}} :
       LET flat == session'[at']
           i    == Intrabar(b, flat)
           up   == Counted(above, close <= ema, b.close > ema')
           down == Counted(below, close >= ema, b.close < ema')
           p    == i.position
           out  == p # Absent /\ CrossAgainst(p, up, down)
           kept == IF p = Absent \/ out THEN Absent ELSE Ratchet(p, ema', range')
           order == IF i.position # Absent \/ i.exit # Absent THEN Absent ELSE pending
           just == i.stopped /\ rule.cooldown > 0
           armed == Armed(order, kept = Absent /\ ~just /\ cooldown = 0, up, down, allowed)
       IN /\ exit' = IF out THEN Closed(p, "EMA9_CROSS", b.close, b) ELSE i.exit
          /\ position' = kept
          /\ cooldown' = IF i.stopped THEN rule.cooldown ELSE Max({cooldown - 1, 0})
          /\ pending' = IF flat THEN Absent ELSE armed.pending
          /\ above' = armed.above /\ below' = armed.below
          /\ rested' = IF i.stopped THEN 0 ELSE Min({rested + 1, rule.cooldown + 1})

\* The data ends with a position open.
EndOfData ==
  /\ position # Absent
  /\ exit' = Closed(position, "DATA_END", close, [open |-> close, high |-> close, low |-> close, close |-> close])
  /\ position' = Absent /\ bar' = LastBar
  /\ UNCHANGED <<rule, session, at, close, ema, range, above, below, pending, cooldown, rested>>

CrossoverInit ==
  /\ rule \in Rules /\ session \in Patterns /\ at = 0 /\ bar = 0
  /\ close \in {s.close : s \in Prices} /\ ema \in Averages /\ range \in TrueRanges
  /\ above = 0 /\ below = 0 /\ cooldown = 0 /\ rested = rule.cooldown + 1
  /\ position = Absent /\ pending = Absent /\ exit = Absent

CrossoverNext == (\E b \in Prices : NextBar(b)) \/ EndOfData

CrossoverSpec == CrossoverInit /\ [][CrossoverNext]_crossoverVars
-----------------------------------------------------------------------------
CrossoverTypeOK ==
  /\ at \in 0..Len(session) /\ bar \in 0..LastBar /\ cooldown \in 0..rule.cooldown
  /\ above \in 0..rule.confirm /\ below \in 0..rule.confirm

\* A bar never worsens the stop of a position that it leaves open, and what it
\* closes it closes honestly: a stop at the level that earlier bars had set, or
\* at an open beyond it, above the high of the bar (for a short, below its low)
\* by no more than the limit offset; and no trade loses more than its risk
\* unless a bar opens beyond its stop.  No new position is opened before the
\* cooldown is over, and none is held past the flatten time of a session.
HonestBar ==
  /\ (position # Absent /\ position' # Absent) =>
       /\ position'.entry = position.entry
       /\ Better(position.side, position.stop, position'.stop) = position'.stop
  /\ (position = Absent /\ (position' # Absent \/ exit' \notin {Absent, exit})) => rested >= rule.cooldown
  /\ (exit'.side # 0 /\ exit'.reason = "TRAIL_STOP" /\ bar' # bar) =>
       LET stop == IF position = Absent THEN exit'.entry - exit'.side * exit'.risk ELSE position.stop
           edge == IF exit'.side > 0 THEN exit'.bar.high ELSE exit'.bar.low
       IN /\ exit'.price \in {stop, Worse(exit'.side, stop, exit'.bar.open)}
          /\ exit'.side * (exit'.price - edge) <= Multiple(rule.offset, range)
  /\ exit'.side # 0 =>
       \/ exit'.side * (exit'.price - exit'.entry) >= -exit'.risk
       \/ exit'.side * (exit'.bar.open - exit'.stop) < 0
  /\ (\E i \in 1..at' : session'[i]) => position' = Absent

CrossoverHonest == [][HonestBar]_crossoverVars
=============================================================================
