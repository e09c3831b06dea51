----------------------------- MODULE MarketData -----------------------------
(***************************************************************************)
(* From the provider's five-minute bars to the bars the engine sees: the   *)
(* market clock (market_clock.py), the structural checks of the sentinel   *)
(* (sentinel.py) and the timeframe rollup (rollup.py).                     *)
(*                                                                         *)
(* Time is counted in bars: DayLength of them a day, the session opening   *)
(* at Open and closing at Close, or at EarlyClose on a half day.  A bar is *)
(* [day, tick, right, open, high, low, close]: it closes tick bars after   *)
(* the opening, and right says that symbol and timeframe are as asked.     *)
(***************************************************************************)
EXTENDS Integers, Sequences, FiniteSets, FiniteSetsExt

CONSTANTS
  DayLength, Open, Close, EarlyClose,
  Sizes,       \* derived timeframes, in bars; the whole session is the day
  Shapes,      \* [open, high, low, close] of a bar
  LastDay,     \* bound: the clock runs from day 1 to here
  FeedDays,    \* bound: days of one window, and
  FeedLength   \* its bars

ASSUME SessionInsideDay ==
  /\ {DayLength, Open, Close, EarlyClose, LastDay, FeedLength} \subseteq Nat
  /\ FeedDays \subseteq Nat
  /\ Open < EarlyClose /\ EarlyClose < Close /\ Close < DayLength
  /\ Sizes \subseteq Nat \ {0}

ASSUME ShapesAreNumbers == \A s \in Shapes : {s.open, s.high, s.low, s.close} \subseteq Int

VARIABLES
  calendar,  \* [trading, half]: the trading days, and which of them are short
  now,       \* half-bars since the start of day 0
  window,    \* the bars accepted so far
  refused,   \* the window was found degraded and quarantined
  rolling,   \* size -> the bucket in progress, <<>> before the first bar
  rolled     \* size -> the bars emitted

marketVars == <<calendar, now, window, refused, rolling, rolled>>

-----------------------------------------------------------------------------
(* The clock.                                                              *)

DayOf(t) == t \div (2 * DayLength)
OpenOf(d)  == 2 * (d * DayLength + Open)
CloseOf(d) == 2 * (d * DayLength + (IF d \in calendar.half THEN EarlyClose ELSE Close))

\* latest_completed_session_close
SessionClose(t) ==
  Max({CloseOf(d) : d \in {e \in calendar.trading : CloseOf(e) <= t /\ e <= DayOf(t)}})

\* Fault: the bar that is still open counts as completed.
FaultyBarsDone(t, size) == (t - OpenOf(DayOf(t)) + 2 * size - 1) \div (2 * size)

BarsDone(t, size) == (t - OpenOf(DayOf(t))) \div (2 * size)

\* latest_completed_bar_close
BarClose(t, size) ==
  LET d == DayOf(t) IN
  IF /\ d \in calendar.trading /\ OpenOf(d) <= t /\ t < CloseOf(d)
     /\ BarsDone(t, size) >= 1
  THEN OpenOf(d) + BarsDone(t, size) * 2 * size
  ELSE SessionClose(t)

-----------------------------------------------------------------------------
(* The sentinel and the rollup.                                            *)

\* Two neighbours of a window: in order, and inside a session no more than
\* three bars apart.
InOrder(p, c) ==
  /\ p.day < c.day \/ (p.day = c.day /\ p.tick < c.tick)
  /\ p.day = c.day => c.tick - p.tick <= 3

Acceptable5m(w) ==
  /\ \A i \in 1..Len(w) : w[i].right
  /\ \A i \in 1..(Len(w) - 1) : InOrder(w[i], w[i + 1])

\* Fault: a bar that closes on a boundary starts the next bucket.
FaultyBucketKey(b, size) == <<b.day, b.tick \div size>>

\* bucket_key: the closing instant belongs to the bucket that it ends.
BucketKey(b, size) == <<b.day, (b.tick - 1) \div size>>

Started(b, size) == [key |-> BucketKey(b, size), day |-> b.day, tick |-> b.tick,
                     open |-> b.open, high |-> b.high, low |-> b.low, close |-> b.close]

Grown(acc, b) == [acc EXCEPT !.tick = b.tick, !.close = b.close,
                             !.high = Max({@, b.high}), !.low = Min({@, b.low})]

\* TimeframeRoller.update, for one timeframe.
Roll(b, size) ==
  LET acc == rolling[size] IN
  IF acc = <<>> THEN [acc |-> Started(b, size), out |-> <<>>]
  ELSE IF acc.key # BucketKey(b, size) THEN [acc |-> Started(b, size), out |-> <<acc>>]
  ELSE [acc |-> Grown(acc, b), out |-> <<>>]

Bars == {[day |-> d, tick |-> t, right |-> r, open |-> s.open, high |-> s.high, low |-> s.low, close |-> s.close] :
           d \in FeedDays, t \in 1..(Close - Open), r \in BOOLEAN, s \in Shapes}

\* _ingest_recent: the next bar of the window is checked, then rolled up.
Feed(b) ==
  /\ ~refused /\ Len(window) < FeedLength
  /\ IF Acceptable5m(Append(window, b))
     THEN /\ window' = Append(window, b) /\ refused' = FALSE
          /\ rolling' = [size \in Sizes |-> Roll(b, size).acc]
          /\ rolled' = [size \in Sizes |-> rolled[size] \o Roll(b, size).out]
     ELSE refused' = TRUE /\ UNCHANGED <<window, rolling, rolled>>
  /\ UNCHANGED <<calendar, now>>

NextHalfBar ==
  /\ now < 2 * DayLength * (LastDay + 1) - 1
  /\ now' = now + 1
  /\ UNCHANGED <<calendar, window, refused, rolling, rolled>>

MarketNext == NextHalfBar \/ \E b \in Bars : Feed(b)

\* Day 0 is the last session before the run.
MarketInit ==
  /\ now = 2 * DayLength /\ window = <<>> /\ refused = FALSE
  /\ rolling = [size \in Sizes |-> <<>>] /\ rolled = [size \in Sizes |-> <<>>]
  /\ \E days \in SUBSET (0..LastDay) : \E short \in SUBSET days :
       0 \in days /\ calendar = [trading |-> days, half |-> short]

MarketSpec == MarketInit /\ [][MarketNext]_marketVars
-----------------------------------------------------------------------------
MarketTypeOK ==
  /\ now \in 0..(2 * DayLength * (LastDay + 1)) /\ calendar.half \subseteq calendar.trading
  /\ Len(window) <= FeedLength
  /\ \A size \in Sizes : Len(rolled[size]) <= Len(window)

\* The closes of every bar of every session, session closes included.
Closes(size) ==
  {CloseOf(d) : d \in calendar.trading} \cup
  UNION {{OpenOf(d) + 2 * k * size : k \in 1..((CloseOf(d) - OpenOf(d) - 1) \div (2 * size))} : d \in calendar.trading}

\* The boundary that the live loop demands of the provider is the close of the
\* newest finished bar: over nights, holidays and half days, for timeframes
\* that do not divide the session, and never a bar that is still open.
ClockAgrees ==
  \A size \in Sizes : BarClose(now, size) = Max({c \in Closes(size) : c <= now})

\* The bars of one bucket, found without the roller.
InBucket(d, k, size) == {i \in 1..Len(window) : /\ window[i].day = d
                                                /\ k * size < window[i].tick /\ window[i].tick <= (k + 1) * size}

Aggregate(I) == LET first == window[Min(I)] last == window[Max(I)] IN
  [day |-> last.day, tick |-> last.tick, open |-> first.open, close |-> last.close,
   high |-> Max({window[i].high : i \in I}), low |-> Min({window[i].low : i \in I})]

Shown(acc) == [day |-> acc.day, tick |-> acc.tick, open |-> acc.open, close |-> acc.close,
               high |-> acc.high, low |-> acc.low]

Buckets(size) == {InBucket(d, k, size) : d \in FeedDays, k \in 0..(Close - Open)} \ {{}}
EmittedBars(size) == [i \in 1..Len(rolled[size]) |-> Shown(rolled[size][i])]

\* Whatever bars a window misses, each bucket of an accepted window is emitted
\* once, in order, made of exactly its own five-minute bars, and not before the
\* next bucket has begun.
CompleteBuckets ==
  \A size \in Sizes : window # <<>> =>
    /\ Len(EmittedBars(size)) + 1 = Cardinality(Buckets(size))
    /\ \A I \in Buckets(size) :
         LET before == Cardinality({J \in Buckets(size) : Max(J) < Min(I)}) IN
         Aggregate(I) = IF Len(window) \in I THEN Shown(rolling[size]) ELSE EmittedBars(size)[before + 1]
=============================================================================
