-------------------------- MODULE PaperLedgerProofs --------------------------
(***************************************************************************)
(* Proofs about the paper ledger: one bar after the other, it makes of a   *)
(* trade what the printed plan says of the series of bars; and the live    *)
(* loop, which restarts, replays and abandons its work, hands every trade  *)
(* the bars in such an order.                                              *)
(***************************************************************************)
EXTENDS LiveLoopProofs

-----------------------------------------------------------------------------
(* What a printed plan says of a series of bars.                           *)

\* A printed plan: a whole validity and three targets, none before the last.
Ladder(terms) ==
  /\ terms.validity \in Nat /\ terms.entry \in Int /\ terms.targets \in Seq(Int) /\ Len(terms.targets) = 3
  /\ \A i \in 1..2 : Gain(terms, terms.targets[i]) <= Gain(terms, terms.targets[i + 1])

\* The bars from tick to bar, all before tick t.
Series(bars, t) == DOMAIN bars \subseteq Nat \ {0} /\ \A u \in DOMAIN bars : u < t

Expiry(terms, created, bars) == Earliest({u \in DOMAIN bars : u > created + terms.validity})
Exits(terms, fill, bars, lates) == {u \in DOMAIN bars : u > fill /\ Ends(terms, fill, u, bars, lates)}
Open(fill) == [NewTrade EXCEPT !.outcome = "OPEN", !.filled = fill]
Taking(fill, n) == [Open(fill) EXCEPT !.tranches = n]

\* The first tick of a set, if there is one.
LEMMA EarliestIs ==
  ASSUME NEW S, S \subseteq Nat \ {0}
  PROVE  /\ S = {} => Earliest(S) = 0
         /\ S # {} => Earliest(S) \in S /\ \A u \in S : Earliest(S) <= u
<1>1. CASE S = {}
  BY <1>1 DEF Earliest
<1>2. CASE S # {}
  <2>1. \E m \in S : \A n \in S : m <= n
    BY <1>2, LeastNumber
  <2> QED BY <1>2, <2>1 DEF Earliest, Min
<1> QED BY <1>1, <1>2

\* A later tick does not come first.
LEMMA EarliestStays ==
  ASSUME NEW t \in Nat \ {0}, NEW S, S \subseteq Nat \ {0}, \A u \in S : u < t,
         NEW Q, S \subseteq Q, Q \subseteq S \cup {t}
  PROVE  Earliest(Q) = IF S # {} THEN Earliest(S) ELSE IF t \in Q THEN t ELSE 0
<1>1. Q \subseteq Nat \ {0}
  OBVIOUS
<1>2. CASE S # {}
  <2>1. Earliest(S) \in S /\ \A u \in S : Earliest(S) <= u
    BY <1>2, EarliestIs
  <2>2. Earliest(Q) \in Q /\ \A u \in Q : Earliest(Q) <= u
    BY <1>1, <1>2, EarliestIs
  <2>3. PICK a, b : a = Earliest(S) /\ b = Earliest(Q)
    OBVIOUS
  <2>4. a \in S /\ b \in Q /\ a \in Q /\ a \in Nat /\ b \in Nat /\ b <= a /\ a < t
    BY <2>1, <2>2, <2>3
  <2>5. b \in S
    BY <2>4
  <2>6. a <= b
    BY <2>1, <2>3, <2>5
  <2>7. a = b
    BY ONLY <2>4, <2>6
  <2> QED BY <1>2, <2>3, <2>7
<1>3. CASE S = {} /\ t \in Q
  <2>1. Q = {t}
    BY <1>3
  <2>2. Earliest(Q) \in Q
    BY <1>1, <2>1, EarliestIs
  <2> QED BY <1>3, <2>1, <2>2
<1>4. CASE S = {} /\ t \notin Q
  <2>1. Q = {}
    BY <1>4
  <2> QED BY <1>4, <2>1, EarliestIs
<1> QED BY <1>2, <1>3, <1>4

\* An open trade that has taken n tranches, and what becomes of the count.
LEMMA TakingIs ==
  ASSUME NEW t, NEW n, NEW m
  PROVE  /\ Taking(t, n).outcome = "OPEN" /\ Taking(t, n).filled = t /\ Taking(t, n).tranches = n
         /\ "outcome" \in DOMAIN Taking(t, n) /\ "outcome" \in DOMAIN Open(t)
         /\ Taking(t, 0) = Open(t) /\ [Taking(t, n) EXCEPT !.tranches = m] = Taking(t, m)
<1>1. DOMAIN NewTrade = {"outcome", "filled", "exit", "profit", "tranches"} /\ NewTrade.tranches = 0
  BY DEF NewTrade
<1>2. PICK r : r = NewTrade /\ r = [k \in DOMAIN r |-> r[k]]
  <2>1. \E r : r = NewTrade /\ r = [k \in DOMAIN r |-> r[k]]
    BY DEF NewTrade
  <2> QED BY <2>1
<1>3. Open(t) = [r EXCEPT !.outcome = "OPEN", !.filled = t]
  BY <1>2 DEF Open
<1>4. PICK s : s = [r EXCEPT !.outcome = "OPEN", !.filled = t]
  OBVIOUS
<1>5. /\ DOMAIN s = DOMAIN r /\ s = [k \in DOMAIN s |-> s[k]]
      /\ s.tranches = 0 /\ s.outcome = "OPEN" /\ s.filled = t
  BY <1>1, <1>2, <1>4
<1>6. [s EXCEPT !.tranches = 0] = s
  BY <1>1, <1>2, <1>5
<1>7. PICK q : q = [s EXCEPT !.tranches = n]
  OBVIOUS
<1>8. /\ q.outcome = "OPEN" /\ q.filled = t /\ q.tranches = n /\ "outcome" \in DOMAIN q /\ "outcome" \in DOMAIN s
      /\ [q EXCEPT !.tranches = m] = [s EXCEPT !.tranches = m]
  BY <1>1, <1>2, <1>5, <1>7
<1>9. Open(t) = s /\ \A x : Taking(t, x) = [s EXCEPT !.tranches = x]
  BY <1>3, <1>4 DEF Taking
<1> QED BY <1>6, <1>7, <1>8, <1>9

\* What the printed plan says of a series, case by case.
LEMMA ReadUnfilled ==
  ASSUME NEW terms, NEW created, NEW bars, NEW lates, FillTick(terms, created, bars) = 0
  PROVE  Reference(terms, created, bars, lates) =
           IF Expiry(terms, created, bars) = 0 THEN NewTrade
           ELSE Resolve(NewTrade, "EXPIRED_UNFILLED", Expiry(terms, created, bars), 0)
<1> QED BY DEF Reference, Expiry

\* A bar that fills a plan and touches its stop ends the trade there, at the stop's loss.
LEMMA ReadStopped ==
  ASSUME NEW terms, NEW created, NEW bars, NEW lates, NEW fill, fill = FillTick(terms, created, bars),
         fill # 0, StopHit(terms, bars[fill], terms.stop)
  PROVE  Reference(terms, created, bars, lates) =
           Resolve(Open(fill), "STOPPED", fill, 100 * Gain(terms, terms.stop))
<1> QED BY DEF Reference, Open

\* A filled trade that no later bar ends is open, holding the targets its bars have touched.
LEMMA ReadRunning ==
  ASSUME NEW terms, NEW created, NEW bars, NEW lates, NEW fill, fill = FillTick(terms, created, bars),
         fill # 0, ~StopHit(terms, bars[fill], terms.stop), Earliest(Exits(terms, fill, bars, lates)) = 0
  PROVE  Reference(terms, created, bars, lates) =
           Taking(fill, Taken(terms, fill, Max(DOMAIN bars), bars))
<1> QED BY DEF Reference, Open, Taking, Exits

\* A filled trade ends on its first exit: at the stop (at entry once a target was taken), at the
\* last target, or at the close of a flattening bar.
LEMMA ReadEnded ==
  ASSUME NEW terms, NEW created, NEW bars, NEW lates, NEW fill, fill = FillTick(terms, created, bars),
         fill # 0, ~StopHit(terms, bars[fill], terms.stop),
         NEW exit, exit = Earliest(Exits(terms, fill, bars, lates)), exit # 0,
         NEW n, n = Taken(terms, fill, exit - 1, bars), NEW taken, taken = Taken(terms, fill, exit, bars)
  PROVE  Reference(terms, created, bars, lates) =
           IF StopHit(terms, bars[exit], IF n >= 1 THEN terms.entry ELSE terms.stop)
           THEN Resolve(Taking(fill, n),
                        IF n = 0 THEN "STOPPED" ELSE "STOPPED_AFTER_BE", exit,
                        ProfitAt(terms, n, IF n = 0 THEN terms.stop ELSE terms.entry))
           ELSE Resolve(Taking(fill, taken),
                        IF taken = 3 THEN "TP_FULL" ELSE "FLATTENED_TIME", exit,
                        ProfitAt(terms, taken, bars[exit].close))
<1> QED BY DEF Reference, Open, Taking, Exits

\* What resolving a trade makes of its outcome.
LEMMA ResolveGives ==
  ASSUME NEW trade, "outcome" \in DOMAIN trade, NEW o, NEW t, NEW profit
  PROVE  Resolve(trade, o, t, profit).outcome = o
<1> QED BY DEF Resolve

\* A trade that is not over is waiting or runs.
LEMMA OpenReading ==
  ASSUME NEW terms, NEW created, NEW bars, NEW lates, NEW fill, fill = FillTick(terms, created, bars),
         NEW ref, ref = Reference(terms, created, bars, lates), ref.outcome \in Unresolved
  PROVE  \/ fill = 0 /\ Expiry(terms, created, bars) = 0 /\ ref = NewTrade
         \/ /\ fill # 0 /\ ~StopHit(terms, bars[fill], terms.stop)
            /\ Earliest(Exits(terms, fill, bars, lates)) = 0
            /\ ref = Taking(fill, Taken(terms, fill, Max(DOMAIN bars), bars))
<1>1. \A f, n : "outcome" \in DOMAIN Taking(f, n) /\ "outcome" \in DOMAIN Open(f)
                /\ "outcome" \in DOMAIN NewTrade
  BY TakingIs DEF NewTrade
<1>2. \A o \in {"EXPIRED_UNFILLED", "STOPPED", "STOPPED_AFTER_BE", "TP_FULL", "FLATTENED_TIME"} : o \notin Unresolved
  BY DEF Unresolved
<1>3. CASE fill = 0
  <2>1. CASE Expiry(terms, created, bars) = 0
    BY <1>3, <2>1, ReadUnfilled
  <2>2. CASE Expiry(terms, created, bars) # 0
    <3>1. ref = Resolve(NewTrade, "EXPIRED_UNFILLED", Expiry(terms, created, bars), 0)
      BY <1>3, <2>2, ReadUnfilled
    <3> QED BY <3>1, <1>1, <1>2, ResolveGives
  <2> QED BY <2>1, <2>2
<1>4. CASE fill # 0 /\ StopHit(terms, bars[fill], terms.stop)
  <2>1. ref = Resolve(Open(fill), "STOPPED", fill, 100 * Gain(terms, terms.stop))
    BY <1>4, ReadStopped
  <2> QED BY <2>1, <1>1, <1>2, ResolveGives
<1>5. CASE fill # 0 /\ ~StopHit(terms, bars[fill], terms.stop)
  <2> DEFINE exit == Earliest(Exits(terms, fill, bars, lates))
             n == Taken(terms, fill, exit - 1, bars)
             taken == Taken(terms, fill, exit, bars)
             a == Resolve(Taking(fill, n),
                        IF n = 0 THEN "STOPPED" ELSE "STOPPED_AFTER_BE", exit,
                        ProfitAt(terms, n, IF n = 0 THEN terms.stop ELSE terms.entry))
             b == Resolve(Taking(fill, taken),
                        IF taken = 3 THEN "TP_FULL" ELSE "FLATTENED_TIME", exit,
                        ProfitAt(terms, taken, bars[exit].close))
  <2>1. CASE exit = 0
    BY <1>5, <2>1, ReadRunning
  <2>2. CASE exit # 0
    <3>1. ref = a \/ ref = b
      BY <1>5, <2>2, ReadEnded
    <3>2. a.outcome \in {"STOPPED", "STOPPED_AFTER_BE"}
      BY <1>1, ResolveGives
    <3>3. b.outcome \in {"TP_FULL", "FLATTENED_TIME"}
      BY <1>1, ResolveGives
    <3> QED BY <3>1, <3>2, <3>3, <1>2
  <2> QED BY <2>1, <2>2
<1> QED BY <1>3, <1>4, <1>5

\* The rungs taken of a ladder are the lowest.
LEMMA LowestRungs ==
  ASSUME NEW P, P \subseteq 1..3, \A i \in 1..2 : i + 1 \in P => i \in P
  PROVE  Cardinality(P) \in 0..3 /\ \A i \in 1..3 : i \in P <=> i <= Cardinality(P)
<1>0. /\ \A i : i \in 1..3 <=> i = 1 \/ i = 2 \/ i = 3
      /\ \A i : i \in 1..2 <=> i = 1 \/ i = 2
      /\ \A i : i \in 1..1 <=> i = 1
  OBVIOUS
<1>1. PICK k \in 0..3 : P = 1..k
  <2>1. CASE 1 \notin P
    <3>1. P = {}
      BY <2>1
    <3> QED BY <3>1, 1..0 = {}, 0 \in 0..3
  <2>2. CASE 1 \in P /\ 2 \notin P
    <3>1. P = 1..1
      <4>1. 3 \notin P
        BY <2>2
      <4>2. \A i : i \in P <=> i \in 1..1
        BY <1>0, <2>2, <4>1, Zenon
      <4> QED BY <4>2
    <3> QED BY <3>1, 1 \in 0..3
  <2>3. CASE 1 \in P /\ 2 \in P /\ 3 \notin P
    <3>1. P = 1..2
      <4>1. \A i : i \in P <=> i \in 1..2
        BY <1>0, <2>3, Zenon
      <4> QED BY <4>1
    <3> QED BY <3>1, 2 \in 0..3
  <2>4. CASE 1 \in P /\ 2 \in P /\ 3 \in P
    <3>1. P = 1..3
      <4>1. \A i : i \in P <=> i \in 1..3
        BY <1>0, <2>4, Zenon
      <4> QED BY <4>1
    <3> QED BY <3>1, 3 \in 0..3
  <2> QED BY <2>1, <2>2, <2>3, <2>4
<1>2. Cardinality(P) = k
  BY <1>1, FS_Interval
<1> QED BY <1>1, <1>2

\* A bar that reaches a target reaches the targets before it.
LEMMA ReachesInOrder ==
  ASSUME NEW terms, Ladder(terms), NEW candle, candle.low \in Int, candle.high \in Int, NEW i \in 1..2,
         Reached(terms, candle, terms.targets[i + 1])
  PROVE  Reached(terms, candle, terms.targets[i])
<1>1. terms.targets[i] \in Int /\ terms.targets[i + 1] \in Int /\ terms.entry \in Int
      /\ Gain(terms, terms.targets[i]) <= Gain(terms, terms.targets[i + 1])
  BY DEF Ladder
<1> QED BY <1>1 DEF Gain, Reached

\* The targets that the bars after the fill have reached, and those of one bar.
Rungs(terms, fill, t, bars) ==
  {i \in 1..3 : \E u \in DOMAIN bars : fill < u /\ u <= t /\ Reached(terms, bars[u], terms.targets[i])}
RungsOf(terms, candle) == {i \in 1..3 : Reached(terms, candle, terms.targets[i])}

\* The tranches out after a bar, when n were out before it.
After(terms, candle, n) ==
  CHOOSE m \in n..3 : /\ \A i \in (n + 1)..m : Reached(terms, candle, terms.targets[i])
                      /\ m < 3 => ~Reached(terms, candle, terms.targets[m + 1])

\* One more bar takes the targets in order, up to the first it does not reach.
LEMMA TakesInOrder ==
  ASSUME NEW terms, Ladder(terms), NEW R, NEW candle, candle.low \in Int, candle.high \in Int,
         R \subseteq 1..3, \A i \in 1..2 : i + 1 \in R => i \in R,
         NEW n, n = Cardinality(R), NEW k, k = Cardinality(R \cup RungsOf(terms, candle))
  PROVE  n \in 0..3 /\ k \in 0..3 /\ k = After(terms, candle, n)
<1> DEFINE A == RungsOf(terms, candle)
           Hit(m) == /\ \A i \in (n + 1)..m : Reached(terms, candle, terms.targets[i])
                     /\ m < 3 => ~Reached(terms, candle, terms.targets[m + 1])
<1>1. A \subseteq 1..3 /\ (\A i \in 1..3 : i \in A <=> Reached(terms, candle, terms.targets[i]))
  BY DEF RungsOf
<1>2. \A i \in 1..2 : i + 1 \in A => i \in A
  BY <1>1, ReachesInOrder
<1> HIDE DEF A
<1>3. n \in 0..3 /\ \A i \in 1..3 : i \in R <=> i <= n
  BY LowestRungs
<1>4. R \cup A \subseteq 1..3 /\ \A i \in 1..2 : i + 1 \in R \cup A => i \in R \cup A
  BY <1>1, <1>2
<1>5. k \in 0..3 /\ \A i \in 1..3 : i \in R \cup A <=> i <= k
  BY <1>4, LowestRungs DEF A
<1>6. n <= k
  <2>1. CASE n = 0
    BY <1>5, <2>1
  <2>2. CASE n # 0
    <3>1. n \in 1..3
      BY <1>3, <2>2
    <3> QED BY <1>3, <1>5, <3>1
  <2> QED BY <2>1, <2>2
<1>7. k \in n..3 /\ Hit(k)
  <2>1. ASSUME NEW i \in (n + 1)..k PROVE Reached(terms, candle, terms.targets[i])
    <3>1. i \in 1..3 /\ ~(i <= n) /\ i <= k
      BY <1>3, <1>5
    <3> QED BY <1>1, <1>3, <1>5, <3>1
  <2>2. ASSUME k < 3 PROVE ~Reached(terms, candle, terms.targets[k + 1])
    <3>1. k + 1 \in 1..3 /\ ~(k + 1 <= k)
      BY <1>5, <2>2
    <3> QED BY <1>1, <1>5, <3>1
  <2> QED BY <1>3, <1>5, <1>6, <2>1, <2>2
<1>8. ASSUME NEW m \in n..3, Hit(m) PROVE m = k
  <2>1. CASE m < k
    <3>1. m + 1 \in 1..3 /\ m < 3 /\ m + 1 <= k /\ ~(m + 1 <= n)
      BY <1>3, <1>5, <2>1
    <3>2. Reached(terms, candle, terms.targets[m + 1])
      BY <1>1, <1>3, <1>5, <3>1
    <3> QED BY <1>8, <3>1, <3>2
  <2>2. CASE k < m
    <3>1. m \in 1..3 /\ m \in (n + 1)..m /\ ~(m <= k)
      BY <1>3, <1>5, <1>6, <2>2
    <3>2. m \in A
      BY <1>1, <1>8, <3>1
    <3> QED BY <1>5, <3>1, <3>2
  <2> QED BY <1>3, <1>5, <2>1, <2>2
<1> HIDE DEF Hit
<1>9. k = CHOOSE m \in n..3 : Hit(m)
  BY <1>7, <1>8
<1>10. k = After(terms, candle, n)
  BY <1>9 DEF Hit, After
<1> QED BY <1>3, <1>5, <1>10

\* A plan fills on a bar after its creation.
LEMMA FillsOnBar ==
  ASSUME NEW terms, NEW created, NEW bars, DOMAIN bars \subseteq Nat \ {0}, FillTick(terms, created, bars) # 0
  PROVE  FillTick(terms, created, bars) \in {u \in DOMAIN bars : created < u}
<1> DEFINE F == {u \in DOMAIN bars : /\ created < u /\ u <= created + terms.validity
                                     /\ bars[u].low <= terms.entry /\ terms.entry <= bars[u].high}
<1>1. FillTick(terms, created, bars) = Earliest(F) /\ F \subseteq Nat \ {0}
  BY DEF FillTick
<1> HIDE DEF F
<1>2. Earliest(F) \in F
  BY <1>1, EarliestIs
<1> QED BY <1>1, <1>2 DEF F

\* With every target taken no price of the bar matters.
LEMMA FullProfit ==
  ASSUME NEW terms, NEW p, NEW q
  PROVE  ProfitAt(terms, 3, p) = ProfitAt(terms, 3, q)
<1> DEFINE part(x) == [i \in 1..3 |-> Tranches[i] * Gain(terms, IF i <= 3 THEN terms.targets[i] ELSE x)]
<1>1. part(p) = part(q)
  <2>1. \A i \in 1..3 : i <= 3
    OBVIOUS
  <2>2. \A i \in 1..3 : Tranches[i] * Gain(terms, IF i <= 3 THEN terms.targets[i] ELSE p) =
                        Tranches[i] * Gain(terms, IF i <= 3 THEN terms.targets[i] ELSE q)
    BY <2>1
  <2> QED BY <2>2
<1>2. \A x : ProfitAt(terms, 3, x) = Total(part(x), 1..3)
  BY DEF ProfitAt, Total
<1> HIDE DEF part
<1> QED BY <1>1, <1>2

\* Series C is series B with one more bar, at tick t.
Longer(B, C, t) ==
  /\ t \in Nat \ {0} /\ Series(B, t)
  /\ DOMAIN C = DOMAIN B \cup {t} /\ \A u \in DOMAIN B : C[u] = B[u]
  /\ \A u \in DOMAIN C : C[u].low \in Int /\ C[u].high \in Int

\* The rungs of a longer series.
LEMMA RungsGrow ==
  ASSUME NEW terms, Ladder(terms), NEW B, NEW C, NEW t, Longer(B, C, t), NEW fill \in Nat, fill < t
  PROVE  /\ \A x \in Int : x < t => Rungs(terms, fill, x, C) = Rungs(terms, fill, x, B)
         /\ DOMAIN B # {} => Rungs(terms, fill, Max(DOMAIN B), B) = Rungs(terms, fill, t - 1, C)
         /\ Rungs(terms, fill, t, C) = Rungs(terms, fill, t - 1, C) \cup RungsOf(terms, C[t])
         /\ Max(DOMAIN C) = t
         /\ \A i \in 1..2 : i + 1 \in Rungs(terms, fill, t - 1, C) => i \in Rungs(terms, fill, t - 1, C)
<1>1. /\ t \in Nat \ {0} /\ DOMAIN B \subseteq Nat \ {0} /\ \A u \in DOMAIN B : u < t /\ u <= t - 1 /\ u \in Int
      /\ DOMAIN C = DOMAIN B \cup {t} /\ \A u \in DOMAIN B : C[u] = B[u]
  <2>1. t \in Nat \ {0} /\ DOMAIN B \subseteq Nat \ {0} /\ (\A u \in DOMAIN B : u < t)
    BY DEF Longer, Series
  <2>2. \A u \in DOMAIN B : u < t /\ u <= t - 1 /\ u \in Int
    BY <2>1
  <2> QED BY <2>1, <2>2 DEF Longer
<1>2. ASSUME NEW x \in Int, x < t PROVE Rungs(terms, fill, x, C) = Rungs(terms, fill, x, B)
  <2>1. \A u \in DOMAIN C : u <= x => u \in DOMAIN B
    BY <1>1, <1>2
  <2>2. ASSUME NEW i \in 1..3
        PROVE  (\E u \in DOMAIN C : fill < u /\ u <= x /\ Reached(terms, C[u], terms.targets[i])) <=>
               (\E u \in DOMAIN B : fill < u /\ u <= x /\ Reached(terms, B[u], terms.targets[i]))
    BY <1>1, <2>1
  <2> QED BY <2>2 DEF Rungs
<1>3. ASSUME DOMAIN B # {} PROVE Rungs(terms, fill, Max(DOMAIN B), B) = Rungs(terms, fill, t - 1, C)
  <2>1. PICK m : m = Max(DOMAIN B)
    OBVIOUS
  <2>2. t - 1 \in Int /\ DOMAIN B \subseteq Int /\ t - 1 < t
    BY <1>1
  <2>3. m \in DOMAIN B /\ \A u \in DOMAIN B : u <= m
    BY <1>1, <1>3, <2>1, <2>2, GreatestNumber
  <2>4. ASSUME NEW i \in 1..3
        PROVE  (\E u \in DOMAIN B : fill < u /\ u <= m /\ Reached(terms, B[u], terms.targets[i])) <=>
               (\E u \in DOMAIN B : fill < u /\ u <= t - 1 /\ Reached(terms, B[u], terms.targets[i]))
    BY <1>1, <2>3
  <2>5. Rungs(terms, fill, m, B) = Rungs(terms, fill, t - 1, B)
    BY <2>4 DEF Rungs
  <2> QED BY <1>2, <2>1, <2>2, <2>5
<1>4. Rungs(terms, fill, t, C) = Rungs(terms, fill, t - 1, C) \cup RungsOf(terms, C[t])
  <2>1. \A u \in DOMAIN C : /\ u <= t - 1 => u <= t
                            /\ u <= t => u <= t - 1 \/ u = t
    BY <1>1
  <2>2. t \in DOMAIN C /\ t <= t
    BY <1>1
  <2>3. ASSUME NEW i \in 1..3
        PROVE  (\E u \in DOMAIN C : fill < u /\ u <= t /\ Reached(terms, C[u], terms.targets[i])) <=>
               \/ \E u \in DOMAIN C : fill < u /\ u <= t - 1 /\ Reached(terms, C[u], terms.targets[i])
               \/ Reached(terms, C[t], terms.targets[i])
    BY <2>1, <2>2
  <2> QED BY <2>3 DEF Rungs, RungsOf
<1>5. Max(DOMAIN C) = t
  <2>1. DOMAIN C \subseteq Int /\ DOMAIN C # {} /\ \A u \in DOMAIN C : u <= t
    BY <1>1
  <2>2. PICK m : m = Max(DOMAIN C)
    OBVIOUS
  <2>3. m \in DOMAIN C /\ \A u \in DOMAIN C : u <= m
    BY <1>1, <2>1, <2>2, GreatestNumber
  <2>4. m \in Int /\ t \in Int /\ m <= t /\ t <= m
    BY <1>1, <2>1, <2>3
  <2> QED BY ONLY <2>2, <2>4
<1>6. ASSUME NEW i \in 1..2, i + 1 \in Rungs(terms, fill, t - 1, C) PROVE i \in Rungs(terms, fill, t - 1, C)
  <2>1. PICK u \in DOMAIN C : fill < u /\ u <= t - 1 /\ Reached(terms, C[u], terms.targets[i + 1])
    BY <1>6 DEF Rungs
  <2>2. Reached(terms, C[u], terms.targets[i])
    BY <2>1, ReachesInOrder DEF Longer
  <2> QED BY <2>1, <2>2 DEF Rungs
<1> QED BY <1>2, <1>3, <1>4, <1>5, <1>6

\* A plan that waits: the bar fills it, lets it expire or leaves it waiting.
LEMMA WaitingReads ==
  ASSUME NEW terms, Ladder(terms), NEW created \in Nat, NEW B, NEW C, NEW t, Longer(B, C, t), created < t,
         NEW M, FillTick(terms, created, B) = 0, Expiry(terms, created, B) = 0
  PROVE  Fill(terms, NewTrade, created, t, C[t]) = Reference(terms, created, C, M)
<1> DEFINE F(b) == {u \in DOMAIN b : /\ created < u /\ u <= created + terms.validity
                                     /\ b[u].low <= terms.entry /\ terms.entry <= b[u].high}
           X(b) == {u \in DOMAIN b : u > created + terms.validity}
           touched == C[t].low <= terms.entry /\ terms.entry <= C[t].high
<1>1. /\ t \in Nat \ {0} /\ t \in DOMAIN C /\ DOMAIN B \subseteq Nat \ {0} /\ \A u \in DOMAIN B : u < t
      /\ DOMAIN C = DOMAIN B \cup {t} /\ \A u \in DOMAIN B : C[u] = B[u]
  BY DEF Longer, Series
<1>2. FillTick(terms, created, B) = Earliest(F(B)) /\ FillTick(terms, created, C) = Earliest(F(C))
  BY DEF FillTick
<1>3. F(B) = {} /\ X(B) = {}
  <2>1. F(B) \subseteq Nat \ {0} /\ X(B) \subseteq Nat \ {0}
    BY <1>1
  <2>2. Earliest(F(B)) = 0 /\ Earliest(X(B)) = 0
    BY <1>2 DEF Expiry
  <2> HIDE DEF F, X
  <2>3. \A S : S \subseteq Nat \ {0} /\ Earliest(S) = 0 => S = {}
    BY EarliestIs
  <2> QED BY <2>1, <2>2, <2>3
<1>4. F(C) \subseteq {t} /\ X(C) \subseteq {t}
  BY <1>1, <1>3
<1>5. /\ t \in F(C) <=> t <= created + terms.validity /\ touched
      /\ t \in X(C) <=> t > created + terms.validity
  BY <1>1
<1>6. created + terms.validity \in Nat
  BY DEF Ladder
<1>7. /\ Earliest(F(C)) = IF t \in F(C) THEN t ELSE 0
      /\ Earliest(X(C)) = IF t \in X(C) THEN t ELSE 0
  <2> HIDE DEF F, X
  <2>1. ASSUME NEW Q, Q \subseteq {t} PROVE Earliest(Q) = IF t \in Q THEN t ELSE 0
    <3>1. CASE t \in Q
      <4>1. Q = {t} /\ Q \subseteq Nat \ {0} /\ Q # {}
        BY <1>1, <2>1, <3>1
      <4> QED BY <3>1, <4>1, EarliestIs
    <3>2. CASE t \notin Q
      <4>1. Q = {}
        BY <2>1, <3>2
      <4> QED BY <3>2, <4>1, EarliestIs
    <3> QED BY <3>1, <3>2
  <2> QED BY <1>4, <2>1, Zenon
<1>8. CASE t > created + terms.validity
  <2>1. Earliest(F(C)) = 0 /\ Earliest(X(C)) = t
    BY <1>1, <1>5, <1>6, <1>7, <1>8
  <2>2. Expiry(terms, created, C) = t
    BY <2>1 DEF Expiry
  <2>3. Reference(terms, created, C, M) = Resolve(NewTrade, "EXPIRED_UNFILLED", t, 0)
    BY <1>1, <1>2, <2>1, <2>2, ReadUnfilled
  <2> QED BY <1>8, <2>3 DEF Fill
<1>9. CASE ~(t > created + terms.validity) /\ ~touched
  <2>1. Earliest(F(C)) = 0 /\ Earliest(X(C)) = 0
    BY <1>1, <1>5, <1>6, <1>7, <1>9
  <2>2. Expiry(terms, created, C) = 0
    BY <2>1 DEF Expiry
  <2>3. Reference(terms, created, C, M) = NewTrade
    BY <1>2, <2>1, <2>2, ReadUnfilled
  <2> QED BY <1>9, <2>3 DEF Fill
<1>10. CASE ~(t > created + terms.validity) /\ touched
  <2>1. FillTick(terms, created, C) = t /\ t # 0
    BY <1>1, <1>2, <1>5, <1>6, <1>7, <1>10
  <2>2. Fill(terms, NewTrade, created, t, C[t]) =
          IF StopHit(terms, C[t], terms.stop)
          THEN Resolve(Open(t), "STOPPED", t, 100 * Gain(terms, terms.stop)) ELSE Open(t)
    BY <1>10 DEF Fill, Open
  <2>3. CASE StopHit(terms, C[t], terms.stop)
    BY <2>1, <2>2, <2>3, ReadStopped
  <2>4. CASE ~StopHit(terms, C[t], terms.stop)
    <3>1. Exits(terms, t, C, M) = {}
      BY <1>1 DEF Exits
    <3>2. Earliest(Exits(terms, t, C, M)) = 0
      BY <3>1, EarliestIs
    <3>3. Reference(terms, created, C, M) = Taking(t, Taken(terms, t, Max(DOMAIN C), C))
      BY <2>1, <2>4, <3>2, ReadRunning
    <3>4. \A x : {i \in 1..3 : \E u \in DOMAIN C : t < u /\ u <= x /\ Reached(terms, C[u], terms.targets[i])} = {}
      BY <1>1
    <3>5. Taken(terms, t, Max(DOMAIN C), C) = 0
      BY <3>4, FS_EmptySet DEF Taken
    <3>6. Taking(t, 0) = Open(t)
      BY TakingIs DEF Taking
    <3> QED BY <2>2, <2>4, <3>3, <3>5, <3>6
  <2> QED BY <2>3, <2>4
<1> QED BY <1>8, <1>9, <1>10

\* What a bar makes of an open trade with n tranches out, k after the bar.
Ran(terms, fill, n, k, t, candle, late) ==
  LET stop == IF n >= 1 THEN terms.entry ELSE terms.stop IN
  IF StopHit(terms, candle, stop)
  THEN Resolve(Taking(fill, n), IF n >= 1 THEN "STOPPED_AFTER_BE" ELSE "STOPPED", t, ProfitAt(terms, n, stop))
  ELSE IF k = 3 THEN Resolve(Taking(fill, k), "TP_FULL", t, ProfitAt(terms, 3, terms.entry))
  ELSE IF terms.zeroDte /\ late THEN Resolve(Taking(fill, k), "FLATTENED_TIME", t, ProfitAt(terms, k, candle.close))
  ELSE Taking(fill, k)

\* Manage, with its tranches named.
LEMMA ManageIs ==
  ASSUME NEW terms, NEW fill, NEW n, NEW t, NEW candle, NEW late
  PROVE  Manage(terms, Taking(fill, n), t, candle, late) = Ran(terms, fill, n, After(terms, candle, n), t, candle, late)
<1>1. PICK trade : trade = Taking(fill, n)
  OBVIOUS
<1>2. trade.tranches = n /\ \A m : [trade EXCEPT !.tranches = m] = Taking(fill, m)
  BY <1>1, TakingIs
<1>3. PICK k : k = After(terms, candle, n)
  OBVIOUS
<1>4. Manage(terms, trade, t, candle, late) = Ran(terms, fill, n, k, t, candle, late)
  <2>1. Manage(terms, trade, t, candle, late) =
          LET hit  == After(terms, candle, trade.tranches)
              stop == IF trade.tranches >= 1 THEN terms.entry ELSE terms.stop
              next == [trade EXCEPT !.tranches = hit]
          IN IF StopHit(terms, candle, stop)
             THEN Resolve(trade, IF trade.tranches >= 1 THEN "STOPPED_AFTER_BE" ELSE "STOPPED", t,
                          ProfitAt(terms, trade.tranches, stop))
             ELSE IF hit = 3 THEN Resolve(next, "TP_FULL", t, ProfitAt(terms, 3, terms.entry))
             ELSE IF terms.zeroDte /\ late THEN Resolve(next, "FLATTENED_TIME", t, ProfitAt(terms, hit, candle.close))
             ELSE next
    BY DEF Manage, After
  <2> QED BY <1>1, <1>2, <1>3, <2>1 DEF Ran
<1> QED BY <1>1, <1>3, <1>4

\* An open trade: the bar ends it, or takes what targets it reaches.
LEMMA RunningReads ==
  ASSUME NEW terms, Ladder(terms), NEW created \in Nat, NEW B, NEW C, NEW t, Longer(B, C, t), created < t,
         NEW L, NEW M, \A u \in DOMAIN B : u \in L <=> u \in M, NEW late, late \in BOOLEAN, late <=> t \in M,
         NEW fill, fill = FillTick(terms, created, B), fill # 0, ~StopHit(terms, B[fill], terms.stop),
         Earliest(Exits(terms, fill, B, L)) = 0,
         NEW trade, trade = Taking(fill, Taken(terms, fill, Max(DOMAIN B), B))
  PROVE  Manage(terms, trade, t, C[t], late) = Reference(terms, created, C, M)
<1>1. /\ t \in Nat \ {0} /\ t \in DOMAIN C /\ DOMAIN B \subseteq Nat \ {0} /\ \A u \in DOMAIN B : u < t
      /\ DOMAIN C = DOMAIN B \cup {t} /\ \A u \in DOMAIN B : C[u] = B[u]
      /\ C[t].low \in Int /\ C[t].high \in Int
  BY DEF Longer, Series
<1>2. /\ fill \in DOMAIN B /\ FillTick(terms, created, C) = fill
  <2> DEFINE F(b) == {u \in DOMAIN b : /\ created < u /\ u <= created + terms.validity
                                       /\ b[u].low <= terms.entry /\ terms.entry <= b[u].high}
  <2>1. FillTick(terms, created, B) = Earliest(F(B)) /\ FillTick(terms, created, C) = Earliest(F(C))
    BY DEF FillTick
  <2>2. F(B) \subseteq Nat \ {0} /\ F(B) \subseteq DOMAIN B /\ F(B) \subseteq F(C) /\ F(C) \subseteq F(B) \cup {t}
        /\ \A u \in F(B) : u < t
    BY <1>1
  <2> HIDE DEF F
  <2>3. F(B) # {} /\ Earliest(F(B)) \in F(B)
    BY <2>1, <2>2, EarliestIs
  <2>4. Earliest(F(C)) = Earliest(F(B))
    BY <1>1, <2>2, <2>3, EarliestStays
  <2> QED BY <2>1, <2>2, <2>3, <2>4
<1>3. fill \in Nat /\ fill < t /\ t - 1 \in Int /\ t - 1 < t /\ t \in Int /\ DOMAIN B # {}
  BY <1>1, <1>2
<1> DEFINE R == Rungs(terms, fill, t - 1, C)
           A == RungsOf(terms, C[t])
<1>4. /\ \A x \in Int : x < t => Rungs(terms, fill, x, C) = Rungs(terms, fill, x, B)
      /\ Rungs(terms, fill, Max(DOMAIN B), B) = R
      /\ Rungs(terms, fill, t, C) = R \cup A
      /\ Max(DOMAIN C) = t
      /\ \A i \in 1..2 : i + 1 \in R => i \in R
  BY <1>3, RungsGrow
<1> HIDE DEF R, A
<1>5. PICK n, k : n = Cardinality(R) /\ k = Cardinality(R \cup A)
  OBVIOUS
<1>6. \A x, b : Taken(terms, fill, x, b) = Cardinality(Rungs(terms, fill, x, b))
  BY Zenon DEF Taken, Rungs
<1>7. Taken(terms, fill, t - 1, C) = n /\ Taken(terms, fill, t, C) = k /\ Taken(terms, fill, Max(DOMAIN B), B) = n
  <2>1. Taken(terms, fill, t - 1, C) = n
    BY <1>5, <1>6, Zenon DEF R
  <2>2. Taken(terms, fill, t, C) = k
    BY <1>4, <1>5, <1>6
  <2>3. Taken(terms, fill, Max(DOMAIN B), B) = n
    BY <1>4, <1>5, <1>6, Zenon
  <2> QED BY <2>1, <2>2, <2>3
<1>8. n \in 0..3 /\ k \in 0..3 /\ k = After(terms, C[t], n)
  <2>1. R \subseteq 1..3
    BY DEF R, Rungs
  <2>2. PICK b : b = C[t]
    OBVIOUS
  <2>3. b.low \in Int /\ b.high \in Int /\ k = Cardinality(R \cup RungsOf(terms, b))
    BY <1>1, <1>5, <2>2 DEF A
  <2>4. Ladder(terms) /\ n = Cardinality(R) /\ \A i \in 1..2 : i + 1 \in R => i \in R
    BY <1>4, <1>5
  <2>5. n \in 0..3 /\ k \in 0..3 /\ k = After(terms, b, n)
    BY ONLY <2>1, <2>3, <2>4, TakesInOrder
  <2> QED BY <2>2, <2>5
<1> DEFINE stop == IF n >= 1 THEN terms.entry ELSE terms.stop
           ends == StopHit(terms, C[t], stop) \/ k = 3 \/ (terms.zeroDte /\ late)
<1>9. ~StopHit(terms, C[fill], terms.stop)
  BY <1>1, <1>2
<1>10. Earliest(Exits(terms, fill, C, M)) = IF ends THEN t ELSE 0
  <2>1. Exits(terms, fill, B, L) = {}
    <3>1. Exits(terms, fill, B, L) \subseteq Nat \ {0}
      BY <1>1 DEF Exits
    <3>2. \A S : S \subseteq Nat \ {0} /\ Earliest(S) = 0 => S = {}
      BY EarliestIs
    <3> QED BY <3>1, <3>2
  <2>2. ASSUME NEW u \in DOMAIN B, u > fill PROVE ~Ends(terms, fill, u, C, M)
    <3>1. ~Ends(terms, fill, u, B, L)
      BY <2>1, <2>2 DEF Exits
    <3>2. u \in Int /\ u - 1 \in Int /\ u < t /\ u - 1 < t /\ C[u] = B[u] /\ (u \in L <=> u \in M)
      BY <1>1
    <3>3. Taken(terms, fill, u, C) = Taken(terms, fill, u, B)
          /\ Taken(terms, fill, u - 1, C) = Taken(terms, fill, u - 1, B)
      BY <1>4, <1>6, <3>2
    <3> QED BY <3>1, <3>2, <3>3 DEF Ends
  <2>3. Ends(terms, fill, t, C, M) <=> ends
    BY <1>7 DEF Ends
  <2>4. Exits(terms, fill, C, M) = IF ends THEN {t} ELSE {}
    <3>1. \A u \in DOMAIN C : u \in DOMAIN B \/ u = t
      BY <1>1
    <3>2. t \in DOMAIN C /\ t > fill
      BY <1>1, <1>3
    <3> HIDE DEF ends
    <3> QED BY <2>2, <2>3, <3>1, <3>2 DEF Exits
  <2>5. Earliest({}) = 0
    BY EarliestIs
  <2>6. Earliest({t}) = t
    <3>1. PICK S : S = {t}
      OBVIOUS
    <3>2. S \subseteq Nat \ {0} /\ S # {}
      BY <1>1, <3>1
    <3>3. Earliest(S) \in S
      BY <3>2, EarliestIs
    <3> QED BY <3>1, <3>3
  <2> HIDE DEF ends
  <2> QED BY <2>4, <2>5, <2>6
<1>11. trade = Taking(fill, n)
  BY <1>7
<1>12. Manage(terms, trade, t, C[t], late) = Ran(terms, fill, n, k, t, C[t], late)
  BY <1>8, <1>11, ManageIs
<1>13. CASE ~ends
  <2>1. Reference(terms, created, C, M) = Taking(fill, k)
    BY <1>2, <1>4, <1>7, <1>9, <1>10, <1>13, ReadRunning
  <2> QED BY <1>12, <1>13, <2>1 DEF Ran
<1>14. CASE ends
  <2>1. Reference(terms, created, C, M) =
           IF StopHit(terms, C[t], stop)
           THEN Resolve(Taking(fill, n),
                        IF n = 0 THEN "STOPPED" ELSE "STOPPED_AFTER_BE", t,
                        ProfitAt(terms, n, IF n = 0 THEN terms.stop ELSE terms.entry))
           ELSE Resolve(Taking(fill, k),
                        IF k = 3 THEN "TP_FULL" ELSE "FLATTENED_TIME", t,
                        ProfitAt(terms, k, C[t].close))
    BY <1>1, <1>2, <1>7, <1>9, <1>10, <1>14, ReadEnded
  <2>2. n >= 1 <=> ~(n = 0)
    BY <1>8
  <2>3. ProfitAt(terms, 3, terms.entry) = ProfitAt(terms, 3, C[t].close)
    BY FullProfit
  <2>4. CASE StopHit(terms, C[t], stop)
    BY <1>12, <2>1, <2>2, <2>4 DEF Ran
  <2>5. CASE ~StopHit(terms, C[t], stop)
    BY <1>12, <1>14, <2>1, <2>3, <2>5 DEF Ran
  <2> QED BY <2>4, <2>5
<1> QED BY <1>13, <1>14

\* One more bar: the ledger makes of it what the plan says of the longer series.
LEMMA AdvanceReads ==
  ASSUME NEW terms, Ladder(terms), NEW created \in Nat, NEW B, NEW C, NEW t, Longer(B, C, t), created < t,
         NEW L, NEW M, \A u \in DOMAIN B : u \in L <=> u \in M, NEW late, late \in BOOLEAN, late <=> t \in M,
         NEW trade, trade = Reference(terms, created, B, L), trade.outcome \in Unresolved
  PROVE  Advance(terms, trade, created, t, C[t], late) = Reference(terms, created, C, M)
<1>1. t \in Nat \ {0} /\ DOMAIN B \subseteq Nat \ {0} /\ \A u \in DOMAIN B : u < t
  BY DEF Longer, Series
<1>2. PICK fill : fill = FillTick(terms, created, B)
  OBVIOUS
<1>3. CASE fill = 0 /\ Expiry(terms, created, B) = 0 /\ trade = NewTrade
  <2>1. Advance(terms, trade, created, t, C[t], late) = Fill(terms, NewTrade, created, t, C[t])
    BY <1>1, <1>3 DEF Advance, NewTrade
  <2>2. FillTick(terms, created, B) = 0
    BY <1>2, <1>3
  <2>3. Fill(terms, NewTrade, created, t, C[t]) = Reference(terms, created, C, M)
    BY <1>3, <2>2, WaitingReads
  <2> QED BY <2>1, <2>3
<1>4. CASE /\ fill # 0 /\ ~StopHit(terms, B[fill], terms.stop)
           /\ Earliest(Exits(terms, fill, B, L)) = 0
           /\ trade = Taking(fill, Taken(terms, fill, Max(DOMAIN B), B))
  <2>1. trade.outcome = "OPEN" /\ trade.filled = fill
    BY <1>4, TakingIs
  <2>2. fill \in DOMAIN B
    BY <1>1, <1>2, <1>4, FillsOnBar
  <2>3. ~(t <= fill)
    BY <1>1, <2>2
  <2>4. Advance(terms, trade, created, t, C[t], late) = Manage(terms, trade, t, C[t], late)
    BY <2>1, <2>3 DEF Advance
  <2>5. Manage(terms, trade, t, C[t], late) = Reference(terms, created, C, M)
    BY <1>2, <1>4, RunningReads
  <2> QED BY <2>4, <2>5
<1> QED BY <1>2, <1>3, <1>4, OpenReading

\* A bar at or before the creation changes nothing.
LEMMA AdvanceIgnores ==
  ASSUME NEW terms, NEW created \in Nat, NEW B, DOMAIN B \subseteq Nat \ {0}, NEW t \in Nat, t <= created,
         NEW L, NEW late, NEW candle, NEW trade, trade = Reference(terms, created, B, L), trade.outcome \in Unresolved
  PROVE  Advance(terms, trade, created, t, candle, late) = trade
<1>1. PICK fill : fill = FillTick(terms, created, B)
  OBVIOUS
<1>2. CASE fill = 0 /\ Expiry(terms, created, B) = 0 /\ trade = NewTrade
  BY <1>2 DEF Advance, NewTrade
<1>3. CASE /\ fill # 0 /\ ~StopHit(terms, B[fill], terms.stop)
           /\ Earliest(Exits(terms, fill, B, L)) = 0
           /\ trade = Taking(fill, Taken(terms, fill, Max(DOMAIN B), B))
  <2>1. trade.outcome = "OPEN" /\ trade.filled = fill
    BY <1>3, TakingIs
  <2>2. fill \in Nat /\ created < fill
    BY <1>1, <1>3, FillsOnBar
  <2>3. t <= fill
    BY <2>2
  <2> QED BY <2>1, <2>3 DEF Advance
<1> QED BY <1>1, <1>2, <1>3, OpenReading

\* A bar that ends a trade dates its end.
LEMMA AdvanceDates ==
  ASSUME NEW terms, NEW created, NEW B, NEW L, NEW t, NEW candle, NEW late,
         NEW trade, trade = Reference(terms, created, B, L), trade.outcome \in Unresolved,
         NEW next, next = Advance(terms, trade, created, t, candle, late), next.outcome \in Resolved
  PROVE  next.exit = t
<1>1. /\ \A o \in {"PENDING", "OPEN"} : o \notin Resolved
      /\ NewTrade.outcome = "PENDING" /\ {"outcome", "exit"} \subseteq DOMAIN NewTrade
  BY DEF Resolved, NewTrade
<1>2. \A f, n : /\ Taking(f, n).outcome = "OPEN" /\ Open(f).outcome = "OPEN" /\ Taking(f, n).tranches = n
                /\ {"outcome", "exit"} \subseteq DOMAIN Open(f) /\ {"outcome", "exit"} \subseteq DOMAIN Taking(f, n)
  <2> SUFFICES ASSUME NEW f, NEW n
               PROVE  /\ Taking(f, n).outcome = "OPEN" /\ Open(f).outcome = "OPEN" /\ Taking(f, n).tranches = n
                      /\ {"outcome", "exit"} \subseteq DOMAIN Open(f) /\ {"outcome", "exit"} \subseteq DOMAIN Taking(f, n)
    OBVIOUS
  <2>1. Taking(f, n).outcome = "OPEN" /\ Taking(f, n).tranches = n /\ Taking(f, 0).outcome = "OPEN" /\ Taking(f, 0) = Open(f)
    BY TakingIs
  <2>2. DOMAIN Open(f) = DOMAIN NewTrade /\ DOMAIN Taking(f, n) = DOMAIN Open(f)
    BY DEF Open, Taking
  <2> QED BY <1>1, <2>1, <2>2
<1>3. \A r, o, x : "exit" \in DOMAIN r => Resolve(r, o, t, x).exit = t
  BY DEF Resolve
<1>4. PICK fill : fill = FillTick(terms, created, B)
  OBVIOUS
<1>5. CASE trade = NewTrade
  <2>1. next = NewTrade \/ next = Fill(terms, NewTrade, created, t, candle)
    BY <1>1, <1>5 DEF Advance
  <2>2. CASE next = NewTrade
    BY <1>1, <2>2
  <2>3. CASE next = Fill(terms, NewTrade, created, t, candle)
    <3>1. \/ next = NewTrade \/ next = Open(t)
          \/ next = Resolve(NewTrade, "EXPIRED_UNFILLED", t, 0)
          \/ next = Resolve(Open(t), "STOPPED", t, 100 * Gain(terms, terms.stop))
      BY <2>3 DEF Fill, Open
    <3> QED BY <1>1, <1>2, <1>3, <3>1
  <2> QED BY <2>1, <2>2, <2>3
<1>6. CASE trade = Taking(fill, Taken(terms, fill, Max(DOMAIN B), B))
  <2>1. PICK n : trade = Taking(fill, n)
    BY <1>6
  <2>2. next = trade \/ next = Manage(terms, Taking(fill, n), t, candle, late)
    BY <1>2, <2>1 DEF Advance
  <2>3. CASE next = trade
    BY <1>1, <1>2, <2>1, <2>3
  <2>4. CASE next = Manage(terms, Taking(fill, n), t, candle, late)
    <3>1. PICK k : next = Ran(terms, fill, n, k, t, candle, late)
      BY <2>4, ManageIs
    <3>2. next = Taking(fill, k) \/ \E r, o, x : next = Resolve(r, o, t, x) /\ r \in {Taking(fill, n), Taking(fill, k)}
      BY <3>1 DEF Ran
    <3> QED BY <1>1, <1>2, <1>3, <3>2
  <2> QED BY <2>2, <2>3, <2>4
<1> QED BY <1>4, <1>5, <1>6, OpenReading

\* Before the first bar after its creation a plan waits.
LEMMA NothingYet ==
  ASSUME NEW terms, Ladder(terms), NEW created \in Nat, NEW bars, DOMAIN bars \subseteq Nat \ {0},
         \A u \in DOMAIN bars : u <= created, NEW lates
  PROVE  Reference(terms, created, bars, lates) = NewTrade
<1>1. \A u \in DOMAIN bars : ~(created < u) /\ ~(u > created + terms.validity)
  BY DEF Ladder
<1>2. FillTick(terms, created, bars) = Earliest({}) /\ Expiry(terms, created, bars) = Earliest({})
  BY <1>1 DEF FillTick, Expiry
<1>3. Earliest({}) = 0
  BY EarliestIs
<1> QED BY <1>2, <1>3, ReadUnfilled

\* Only the bars of the series are asked whether they are late.
LEMMA LatesOfSeries ==
  ASSUME NEW terms, NEW created, NEW bars, NEW L, NEW M, \A u \in DOMAIN bars : u \in L <=> u \in M
  PROVE  Reference(terms, created, bars, L) = Reference(terms, created, bars, M)
<1>1. \A f : Exits(terms, f, bars, L) = Exits(terms, f, bars, M)
  BY DEF Exits, Ends
<1>2. PICK fill, exit : fill = FillTick(terms, created, bars) /\ exit = Earliest(Exits(terms, fill, bars, L))
  OBVIOUS
<1>3. exit = Earliest(Exits(terms, fill, bars, M))
  BY <1>1, <1>2
<1>4. CASE fill = 0
  BY <1>2, <1>4, ReadUnfilled
<1>5. CASE fill # 0 /\ StopHit(terms, bars[fill], terms.stop)
  BY <1>2, <1>5, ReadStopped
<1>6. CASE fill # 0 /\ ~StopHit(terms, bars[fill], terms.stop) /\ exit = 0
  <2> DEFINE x == Taking(fill, Taken(terms, fill, Max(DOMAIN bars), bars))
  <2>1. Reference(terms, created, bars, L) = x
    BY <1>2, <1>6, ReadRunning
  <2>2. Reference(terms, created, bars, M) = x
    BY <1>2, <1>3, <1>6, ReadRunning
  <2> QED BY <2>1, <2>2
<1>7. CASE fill # 0 /\ ~StopHit(terms, bars[fill], terms.stop) /\ exit # 0
  <2>1. PICK n, taken : n = Taken(terms, fill, exit - 1, bars) /\ taken = Taken(terms, fill, exit, bars)
    OBVIOUS
  <2> DEFINE x == IF StopHit(terms, bars[exit], IF n >= 1 THEN terms.entry ELSE terms.stop)
                  THEN Resolve(Taking(fill, n), IF n = 0 THEN "STOPPED" ELSE "STOPPED_AFTER_BE", exit,
                               ProfitAt(terms, n, IF n = 0 THEN terms.stop ELSE terms.entry))
                  ELSE Resolve(Taking(fill, taken), IF taken = 3 THEN "TP_FULL" ELSE "FLATTENED_TIME", exit,
                               ProfitAt(terms, taken, bars[exit].close))
  <2>2. Reference(terms, created, bars, L) = x
    BY <1>2, <1>7, <2>1, ReadEnded
  <2>3. Reference(terms, created, bars, M) = x
    BY <1>2, <1>3, <1>7, <2>1, ReadEnded
  <2> QED BY <2>2, <2>3
<1> QED BY <1>4, <1>5, <1>6, <1>7

-----------------------------------------------------------------------------
(* What the ledger has read.                                               *)

\* What a plan has come to when the bars of the ticks S are all there are.
Read(m, p, S) ==
  Reference(Terms[p.strategy], p.at, [t \in S |-> m[<<p.symbol, t>>].bar], {t \in S : Late(t)})

\* The ticks a symbol has a bar of, and those of them that a plan has met: the
\* bars the loop has seen, and the ones the plan has nothing to do with.
Ticks(s) == {t \in 1..now : <<s, t>> \in DOMAIN market}
Known(p) == {t \in Ticks(p.symbol) : t <= p.at \/ <<p.symbol, t>> \in seen}

Closed(p, r) == r.exit \in 1..now /\ r = Read(market, p, {t \in Ticks(p.symbol) : t <= r.exit})
Honours(p, r) == IF r.outcome \in Resolved THEN Closed(p, r) ELSE r = Read(market, p, Known(p))
Stored(p, r)  == IF r.outcome \in Resolved THEN Closed(p, r) ELSE r = NewTrade

\* The bars are worked on in order: what is still to come is later than what
\* was seen, and a bar passed over is out of the reach of every later poll.
InOrder ==
  /\ \A m, n \in 1..Len(todo) : m < n => Earlier(todo[m], todo[n])
  /\ \A n \in 1..Len(todo) : todo[n][1] \notin partial
  /\ \A n \in 1..Len(todo), j \in seen : j[1] = todo[n][1] => j[2] < todo[n][2]
  /\ \A j \in seen, k \in DOMAIN market \ seen : j[1] = k[1] /\ k[2] < j[2] => k[2] <= now - PollWindow
  /\ bar # NoBar => bar \in seen /\ \A j \in seen : j[1] = bar[1] => j[2] <= bar[2]
  /\ \A i \in 1..Len(setups), j \in seen : j[1] = setups[i].symbol => j[2] <= setups[i].at

\* No plan is from the future, and the bars have prices.
Dated ==
  /\ \A p \in DOMAIN trades : p.at <= now
  /\ \A p \in DOMAIN tradeRow : p.at <= now
  /\ \A i \in 1..Len(setups) : setups[i].at <= now
  /\ \A k \in DOMAIN market : market[k].bar.low \in Int /\ market[k].bar.high \in Int

\* Every trade is what its plan says of the bars it has met, and every row is
\* that of a finished trade, or of a new one.
Honest ==
  /\ \A p \in DOMAIN trades \ tainted : Honours(p, trades[p])
  /\ \A p \in DOMAIN tradeRow \ tainted : Stored(p, tradeRow[p])

HonestInv == InOrder /\ Dated /\ Honest

\* The terms of every plan are a ladder, its symbol and creation tick are what the loop keys by.
LEMMA LadderOfPlan ==
  ASSUME NEW p \in Plan
  PROVE  Ladder(Terms[p.strategy]) /\ p.at \in Nat /\ p.symbol \in Symbol
<1>1. p.strategy \in Strategy
  BY DEF Plan
<1> QED BY <1>1, PlansAreLadders DEF Ladder, Plan

\* The bars that have closed.
LEMMA ClosedBars ==
  ASSUME LoopInv
  PROVE  /\ now \in Nat /\ seen \subseteq DOMAIN market
         /\ \A k \in DOMAIN market : /\ k \in Symbol \X Nat /\ k[1] \in Nat /\ k[2] \in Nat
                                     /\ k[2] # 0 /\ k[2] <= now /\ k = <<k[1], k[2]>>
         /\ \A s : Ticks(s) \subseteq Nat \ {0}
<1>1. now \in Nat /\ seen \subseteq DOMAIN market /\ DOMAIN market \subseteq Symbol \X (1..now)
  BY SessionsHaveBars DEF LoopInv, Typed, LiveTypeOK
<1>2. \A t \in 1..now : t \in Nat /\ t # 0 /\ t <= now
  BY <1>1
<1>3. ASSUME NEW k \in DOMAIN market
      PROVE  /\ k \in Symbol \X Nat /\ k[1] \in Nat /\ k[2] \in Nat
             /\ k[2] # 0 /\ k[2] <= now /\ k = <<k[1], k[2]>>
  <2>1. k[1] \in Symbol /\ k[2] \in 1..now /\ k = <<k[1], k[2]>>
    BY <1>1
  <2> QED BY <1>2, <2>1, SymbolsAreNumbers
<1>4. \A s : Ticks(s) \subseteq Nat \ {0}
  BY <1>2 DEF Ticks
<1> QED BY <1>1, <1>3, <1>4

\* A sorted fetch is in order.
LEMMA SortedInOrder ==
  ASSUME LoopInv, NEW keys, keys \subseteq DOMAIN market
  PROVE  /\ \A n \in 1..Len(Chronological(keys)) : Chronological(keys)[n] \in keys
         /\ \A m, n \in 1..Len(Chronological(keys)) :
              m < n => Earlier(Chronological(keys)[m], Chronological(keys)[n])
<1>1. now \in Nat /\ DOMAIN market \subseteq Symbol \X (1..now)
  BY SessionsHaveBars DEF LoopInv, Typed, LiveTypeOK
<1>2. IsFiniteSet(keys) /\ keys \subseteq Symbol \X Nat
  <2>1. 1..now \subseteq Nat
    BY <1>1
  <2>2. IsFiniteSet(1..now)
    BY ONLY <1>1, FS_Interval, 1 \in Int, now \in Int
  <2>3. IsFiniteSet(Symbol \X (1..now))
    BY ONLY <2>2, SymbolsAreNumbers, FS_Product
  <2>4. keys \subseteq Symbol \X (1..now)
    BY <1>1
  <2> QED BY <2>1, <2>3, <2>4, FS_Subset
<1> SUFFICES ASSUME NEW c \in Nat, c = Cardinality(keys), NEW s, s = Chronological(keys)
             PROVE  /\ \A n \in 1..Len(s) : s[n] \in keys
                    /\ \A m, n \in 1..Len(s) : m < n => Earlier(s[m], s[n])
  BY <1>2, FS_CardinalityType
<1>3. s = [n \in 1..c |-> CHOOSE k \in keys : Count(keys, k) = n - 1]
  BY DEF Chronological, Count
<1>4. ASSUME NEW n \in 1..c PROVE s[n] \in keys /\ Count(keys, s[n]) = n - 1
  <2>1. n - 1 \in 0..(c - 1)
    OBVIOUS
  <2>2. \E k \in keys : Count(keys, k) = n - 1
    BY <1>2, <2>1, CountIsRank
  <2>3. s[n] = CHOOSE k \in keys : Count(keys, k) = n - 1
    BY <1>3
  <2> QED BY <2>2, <2>3
<1>5. Len(s) = c
  <2>1. s \in [1..c -> keys]
    BY <1>3, <1>4
  <2> QED BY <2>1
<1>6. ASSUME NEW m \in 1..c, NEW n \in 1..c, m < n PROVE Earlier(s[m], s[n])
  <2>1. PICK j, k : j = s[m] /\ k = s[n]
    OBVIOUS
  <2>2. j \in keys /\ k \in keys /\ Count(keys, j) = m - 1 /\ Count(keys, k) = n - 1
    BY <1>4, <2>1
  <2>3. j = k \/ Earlier(j, k) \/ Earlier(k, j)
    <3>1. j \in Symbol \X Nat /\ k \in Symbol \X Nat
      BY <1>2, <2>2
    <3>2. j[1] = k[1] /\ j[2] = k[2] => j = k
      BY ONLY <3>1
    <3>3. {j[1], j[2], k[1], k[2]} \subseteq Nat
      BY <3>1, SymbolsAreNumbers
    <3> QED BY <3>2, <3>3 DEF Earlier
  <2>4. j # k
    BY <1>6, <2>2
  <2>5. ~Earlier(k, j)
    <3>1. Earlier(k, j) => Count(keys, k) < Count(keys, j)
      BY <1>2, <2>2, CountsDiffer
    <3> QED BY <1>6, <2>2, <3>1
  <2> QED BY <2>1, <2>3, <2>4, <2>5
<1> QED BY <1>4, <1>5, <1>6

-----------------------------------------------------------------------------
(* Readings.                                                               *)

\* A reading depends on the bars it is of.
LEMMA SameBars ==
  ASSUME NEW m, NEW k, NEW p, NEW S, \A t \in S : m[<<p.symbol, t>>] = k[<<p.symbol, t>>]
  PROVE  Read(m, p, S) = Read(k, p, S)
<1>1. [t \in S |-> m[<<p.symbol, t>>].bar] = [t \in S |-> k[<<p.symbol, t>>].bar]
  OBVIOUS
<1> QED BY <1>1 DEF Read

\* A plan that has met no bar after its creation waits.
LEMMA ReadNothing ==
  ASSUME NEW m, NEW p \in Plan, NEW S, S \subseteq Nat \ {0}, \A t \in S : t <= p.at
  PROVE  Read(m, p, S) = NewTrade
<1>1. PICK b : b = [t \in S |-> m[<<p.symbol, t>>].bar]
  OBVIOUS
<1>2. DOMAIN b = S
  BY <1>1
<1>3. PICK L : L = {t \in S : Late(t)}
  OBVIOUS
<1>4. Reference(Terms[p.strategy], p.at, b, L) = NewTrade
  BY <1>2, LadderOfPlan, NothingYet
<1> QED BY <1>1, <1>3, <1>4 DEF Read

\* The next bar of an open trade.
LEMMA ReadNext ==
  ASSUME NEW m, NEW p \in Plan, NEW S, S \subseteq Nat \ {0}, NEW t \in Nat \ {0}, \A u \in S : u < t,
         \A u \in S \cup {t} : m[<<p.symbol, u>>].bar.low \in Int /\ m[<<p.symbol, u>>].bar.high \in Int,
         p.at < t, NEW r, r = Read(m, p, S), r.outcome \in Unresolved,
         NEW next, next = Advance(Terms[p.strategy], r, p.at, t, m[<<p.symbol, t>>].bar, Late(t))
  PROVE  /\ next = Read(m, p, S \cup {t})
         /\ next.outcome \in Resolved => next.exit = t
<1>1. PICK B, C, L, M, late, g, created, s :
        /\ s = p.symbol /\ g = Terms[p.strategy] /\ created = p.at
        /\ B = [u \in S |-> m[<<s, u>>].bar] /\ C = [u \in S \cup {t} |-> m[<<s, u>>].bar]
        /\ L = {u \in S : Late(u)} /\ M = {u \in S \cup {t} : Late(u)} /\ late = Late(t)
  OBVIOUS
<1>2. Ladder(g) /\ created \in Nat /\ created < t
  BY <1>1, LadderOfPlan
<1>3. DOMAIN B = S /\ DOMAIN C = S \cup {t} /\ (\A u \in S : C[u] = B[u]) /\ C[t] = m[<<s, t>>].bar
      /\ \A u \in S \cup {t} : C[u].low \in Int /\ C[u].high \in Int
  BY <1>1
<1>4. Longer(B, C, t)
  BY <1>3 DEF Longer, Series
<1>5. (\A u \in DOMAIN B : u \in L <=> u \in M) /\ (late <=> t \in M) /\ late \in BOOLEAN
  <2>1. late \in BOOLEAN
    BY <1>1 DEF Late
  <2> HIDE DEF Late
  <2> QED BY <1>1, <1>3, <2>1
<1>6. r = Reference(g, created, B, L) /\ Read(m, p, S \cup {t}) = Reference(g, created, C, M)
  BY <1>1 DEF Read
<1>7. next = Advance(g, r, created, t, C[t], late)
  BY <1>1, <1>3
<1>8. Advance(g, r, created, t, C[t], late) = Reference(g, created, C, M)
  BY <1>2, <1>4, <1>5, <1>6, AdvanceReads
<1>9. next.outcome \in Resolved => next.exit = t
  BY <1>6, <1>7, AdvanceDates
<1> QED BY <1>6, <1>7, <1>8, <1>9

\* A bar from before the plan.
LEMMA ReadIgnored ==
  ASSUME NEW m, NEW p \in Plan, NEW S, S \subseteq Nat \ {0}, NEW t \in Nat, t <= p.at,
         NEW r, r = Read(m, p, S), r.outcome \in Unresolved
  PROVE  Advance(Terms[p.strategy], r, p.at, t, m[<<p.symbol, t>>].bar, Late(t)) = r
<1>1. PICK B, L, late, g, created, b :
        /\ g = Terms[p.strategy] /\ created = p.at /\ b = m[<<p.symbol, t>>].bar
        /\ B = [u \in S |-> m[<<p.symbol, u>>].bar]
        /\ L = {u \in S : Late(u)} /\ late = Late(t)
  OBVIOUS
<1>2. created \in Nat /\ t <= created /\ DOMAIN B = S
  BY <1>1, LadderOfPlan
<1>3. r = Reference(g, created, B, L)
  BY <1>1 DEF Read
<1>4. Advance(g, r, created, t, b, late) = r
  <2>1. DOMAIN B \subseteq Nat \ {0} /\ created \in Nat /\ t \in Nat /\ t <= created
    BY <1>2
  <2> QED BY ONLY <1>3, <2>1, r.outcome \in Unresolved, AdvanceIgnores
<1> QED BY <1>1, <1>4

-----------------------------------------------------------------------------
(* The steps.                                                              *)

\* While no bar is taken and no time passes, a reading stays what it is.
LEMMA ReadingsStay ==
  ASSUME UNCHANGED <<now, market, seen>>, NEW p, NEW r
  PROVE  (Honours(p, r)' <=> Honours(p, r)) /\ (Stored(p, r)' <=> Stored(p, r))
<1>1. Ticks(p.symbol)' = Ticks(p.symbol) /\ Known(p)' = Known(p)
  BY DEF Known, Ticks
<1> QED BY <1>1 DEF Honours, Stored, Closed

\* Then the ledger is honest when every trade and every row is an old one, or
\* what the plan says.
LEMMA HonestStays ==
  ASSUME Honest, UNCHANGED <<now, market, seen>>, tainted \subseteq tainted',
         \A p \in DOMAIN trades' : \/ p \in DOMAIN trades /\ trades'[p] = trades[p]
                                   \/ \E r : trades'[p] = r /\ Honours(p, r),
         \A p \in DOMAIN tradeRow' : \/ p \in DOMAIN tradeRow /\ tradeRow'[p] = tradeRow[p]
                                     \/ p \in tainted
                                     \/ \E r : tradeRow'[p] = r /\ Stored(p, r)
  PROVE  Honest'
<1>1. ASSUME NEW p \in DOMAIN trades', p \notin tainted', NEW r, r = trades'[p] PROVE Honours(p, r)'
  <2>1. Honours(p, r)
    BY <1>1 DEF Honest
  <2> QED BY <2>1, ReadingsStay
<1>2. ASSUME NEW p \in DOMAIN tradeRow', p \notin tainted', NEW r, r = tradeRow'[p] PROVE Stored(p, r)'
  <2>1. Stored(p, r)
    BY <1>2 DEF Honest
  <2> QED BY <2>1, ReadingsStay
<1> QED BY <1>1, <1>2 DEF Honest

\* The work goes on or is dropped: what is left of it is in order.
LEMMA OrderStays ==
  ASSUME InOrder, Dated, UNCHANGED <<now, market, seen>>,
         UNCHANGED <<todo, partial>> \/ todo' = <<>>,
         bar' = bar \/ bar' = NoBar,
         \A i \in 1..Len(setups') : \E j \in 1..Len(setups) : setups'[i] = setups[j],
         \A p \in DOMAIN trades' : p.at <= now,
         \A p \in DOMAIN tradeRow' : p.at <= now
  PROVE  InOrder' /\ Dated'
<1>1. \/ UNCHANGED <<todo, partial>>
      \/ todo' = <<>> /\ Len(todo') = 0
  OBVIOUS
<1>2. InOrder'
  <2>1. CASE UNCHANGED <<todo, partial>>
    BY <2>1 DEF InOrder
  <2>2. CASE todo' = <<>> /\ Len(todo') = 0
    <3>1. \A n : ~(n \in 1..Len(todo'))
      BY <2>2
    <3> QED BY <3>1 DEF InOrder
  <2> QED BY <1>1, <2>1, <2>2
<1>3. Dated'
  BY DEF Dated
<1> QED BY <1>2, <1>3

\* The empty desk of the first start honours every plan there is: there is none.
LEMMA HonestInit ==
  ASSUME LiveInit
  PROVE  HonestInv
<1>1. /\ DOMAIN trades = {} /\ DOMAIN tradeRow = {} /\ setups = <<>> /\ DOMAIN market = {}
      /\ todo = <<>> /\ seen = {} /\ bar = NoBar
  BY DEF LiveInit, NoPlan
<1> QED BY <1>1 DEF HonestInv, InOrder, Dated, Honest

\* Steps that leave the ledger and the work alone.
LEMMA OutagesHonest ==
  ASSUME LoopInv, HonestInv, StoreFails \/ StoreRecovers \/ Restart \/ FinishIngest \/ UNCHANGED liveVars
  PROVE  HonestInv'
<1> USE DEF store, work, memory, history
<1>1. UNCHANGED <<now, market, seen, trades, tradeRow, tainted>>
  BY Zenon DEF StoreFails, StoreRecovers, Restart, FinishIngest, liveVars
<1>2. UNCHANGED <<todo, partial, bar, setups>> \/ (todo' = <<>> /\ bar' = NoBar /\ setups' = <<>>)
  BY Zenon DEF StoreFails, StoreRecovers, Restart, FinishIngest, liveVars, NoWork
<1>3. \A i \in 1..Len(setups') : \E j \in 1..Len(setups) : setups'[i] = setups[j]
  BY <1>2
<1>4. InOrder' /\ Dated'
  BY <1>1, <1>2, <1>3, OrderStays DEF HonestInv, Dated
<1>5. Honest'
  BY <1>1, HonestStays DEF HonestInv
<1> QED BY <1>4, <1>5 DEF HonestInv

\* A poll only queues bars it has fetched, in order; the ledger does not move.
LEMMA PollHonest ==
  ASSUME LoopInv, HonestInv, Poll
  PROVE  HonestInv'
<1>1. UNCHANGED <<now, market, seen, trades, tradeRow, tainted, bar, setups>>
  BY DEF Poll, history
<1>2. PICK bad : \/ UNCHANGED <<todo, partial>>
                 \/ partial' = bad /\ todo' = Chronological(Fetched(bad, PollWindow) \ seen)
  BY Zenon DEF Poll
<1>3. Honest'
  BY <1>1, HonestStays DEF HonestInv
<1>4. Dated'
  BY <1>1 DEF HonestInv, Dated
<1>5. InOrder'
  <2>1. CASE UNCHANGED <<todo, partial>>
    BY <1>1, <2>1 DEF HonestInv, InOrder
  <2>2. CASE partial' = bad /\ todo' = Chronological(Fetched(bad, PollWindow) \ seen)
    <3>1. \A k \in Fetched(bad, PollWindow) \ seen :
            k \in DOMAIN market \ seen /\ k[1] \notin bad /\ k[2] > now - PollWindow
      BY DEF Fetched
    <3>2. /\ \A n \in 1..Len(todo') : todo'[n] \in Fetched(bad, PollWindow) \ seen
          /\ \A m, n \in 1..Len(todo') : m < n => Earlier(todo'[m], todo'[n])
      BY <2>2, <3>1, SortedInOrder
    <3>3. ASSUME NEW k \in DOMAIN market \ seen, k[2] > now - PollWindow, NEW j \in seen, j[1] = k[1]
          PROVE  j[2] < k[2]
      <4>1. /\ j \in DOMAIN market /\ j[2] \in Nat /\ k[2] \in Nat /\ now \in Nat
            /\ j = <<j[1], j[2]>> /\ k = <<k[1], k[2]>>
        BY ClosedBars
      <4>2. j[2] # k[2]
        BY <3>3, <4>1
      <4>3. ~(k[2] < j[2])
        <5>1. k[2] < j[2] => k[2] <= now - PollWindow
          BY <3>3 DEF HonestInv, InOrder
        <5> QED BY <3>3, <4>1, <5>1, WindowsAreOrdered
      <4> QED BY <4>1, <4>2, <4>3
    <3>4. \A n \in 1..Len(todo'), j \in seen : j[1] = todo'[n][1] => j[2] < todo'[n][2]
      BY <3>1, <3>2, <3>3
    <3>5. \A n \in 1..Len(todo') : todo'[n][1] \notin partial'
      BY <2>2, <3>1, <3>2
    <3> QED BY <1>1, <3>2, <3>4, <3>5 DEF HonestInv, InOrder
  <2> QED BY <1>2, <2>1, <2>2
<1> QED BY <1>3, <1>4, <1>5 DEF HonestInv

\* A crash empties the memory; what the rows say of each plan is unchanged, a plan whose row is
\* not finished becomes one that no memory holds.
LEMMA CrashHonest ==
  ASSUME LoopInv, HonestInv, Crash
  PROVE  HonestInv'
<1>1. /\ seen' = {} /\ todo' = <<>> /\ bar' = NoBar /\ setups' = <<>> /\ DOMAIN trades' = {}
      /\ UNCHANGED <<now, market, tradeRow, tainted>>
  BY DEF Crash, FreshMemory, NoWork, NoPlan, store
<1>2. InOrder' /\ Dated'
  BY <1>1 DEF HonestInv, InOrder, Dated
<1>3. ASSUME NEW p \in DOMAIN tradeRow', p \notin tainted', NEW r, r = tradeRow'[p] PROVE Stored(p, r)'
  <2>1. Stored(p, r)
    BY <1>1, <1>3 DEF HonestInv, Honest
  <2> QED BY <1>1, <2>1 DEF Stored, Closed, Ticks
<1>4. Honest'
  BY <1>1, <1>3 DEF Honest
<1> QED BY <1>2, <1>4 DEF HonestInv

\* A boot reads the rows back: a finished trade as it was, an open one as new.
LEMMA BootHonest ==
  ASSUME LoopInv, LedgerInv, HonestInv, Boot
  PROVE  HonestInv'
<1>1. /\ trades' = tradeRow /\ seen' = {} /\ UNCHANGED <<now, market, tradeRow, tainted, bar, setups>>
      /\ pc = "unbooted"
  BY DEF Boot, RestoredTrades
<1>2. bar = NoBar /\ setups = <<>>
  BY <1>1 DEF LoopInv, Working
<1>3. PICK bad : \/ UNCHANGED <<todo, partial>>
                 \/ partial' = bad /\ todo' = Chronological(Fetched(bad, ReplayWindow))
  BY Zenon DEF Boot
<1>4. Dated'
  BY <1>1 DEF HonestInv, Dated
<1>5. InOrder'
  <2>1. CASE UNCHANGED <<todo, partial>>
    BY <1>1, <1>2, <2>1 DEF HonestInv, InOrder
  <2>2. CASE partial' = bad /\ todo' = Chronological(Fetched(bad, ReplayWindow))
    <3>1. \A k \in Fetched(bad, ReplayWindow) : k \in DOMAIN market /\ k[1] \notin bad
      BY DEF Fetched
    <3>2. /\ \A n \in 1..Len(todo') : todo'[n] \in Fetched(bad, ReplayWindow)
          /\ \A m, n \in 1..Len(todo') : m < n => Earlier(todo'[m], todo'[n])
      BY <2>2, <3>1, SortedInOrder
    <3>3. \A n \in 1..Len(todo') : todo'[n][1] \notin partial'
      BY <2>2, <3>1, <3>2
    <3> QED BY <1>1, <1>2, <3>2, <3>3 DEF InOrder
  <2> QED BY <1>3, <2>1, <2>2
<1>6. ASSUME NEW p \in DOMAIN tradeRow, p \notin tainted, NEW r, r = tradeRow[p]
      PROVE  Stored(p, r)' /\ Honours(p, r)'
  <2>1. Stored(p, r) /\ p \in Plan
    BY <1>6 DEF HonestInv, Honest, LedgerInv, Planned
  <2>2. Ticks(p.symbol)' = Ticks(p.symbol)
    BY <1>1 DEF Ticks
  <2>3. Stored(p, r)'
    BY <1>1, <2>1, <2>2 DEF Stored, Closed
  <2>4. PICK K : K = Known(p)'
    OBVIOUS
  <2>5. K = {t \in Ticks(p.symbol) : t <= p.at}
    BY <1>1, <2>2, <2>4 DEF Known
  <2>6. K \subseteq Nat \ {0}
    BY <2>5, ClosedBars
  <2>7. \A m : Read(m, p, K) = NewTrade
    BY <2>1, <2>5, <2>6, ReadNothing
  <2>8. Honours(p, r)'
    BY <2>3, <2>4, <2>7 DEF Honours, Stored
  <2> QED BY <2>3, <2>8
<1>7. Honest'
  BY <1>1, <1>6 DEF Honest
<1> QED BY <1>4, <1>5, <1>7 DEF HonestInv

\* A new bar has prices, and comes after every bar there is.
LEMMA TickBars ==
  ASSUME LoopInv, Tick
  PROVE  /\ now' = now + 1 /\ DOMAIN market \subseteq DOMAIN market'
         /\ \A k \in DOMAIN market : market'[k] = market[k]
         /\ \A k \in DOMAIN market' \ DOMAIN market :
              k[2] = now + 1 /\ market'[k].bar.low \in Int /\ market'[k].bar.high \in Int
<1>1. now' = now + 1
  BY DEF Tick
<1>2. CASE UNCHANGED market
  BY <1>1, <1>2
<1>3. CASE ~(UNCHANGED market)
  <2>1. PICK b \in NextBars, g \in NextSignals : market' = Printed(b, g, now')
    BY <1>3 DEF Tick
  <2>2. /\ DOMAIN market' = DOMAIN market \cup {<<s, now'>> : s \in Symbol}
        /\ \A k \in DOMAIN market : market'[k] = market[k]
    BY <2>1 DEF Printed
  <2>3. ASSUME NEW k \in DOMAIN market' \ DOMAIN market
        PROVE  k[2] = now + 1 /\ market'[k].bar.low \in Int /\ market'[k].bar.high \in Int
    <3>1. PICK s \in Symbol : k = <<s, now'>>
      BY <2>2
    <3>2. market'[k].bar = b[s]
      BY <2>1, <2>2, <3>1 DEF Printed
    <3>3. b[s] \in Bars[s]
      BY DEF NextBars
    <3>4. b[s].low \in Int /\ b[s].high \in Int
      BY <3>3, BarsAreNumbers
    <3> QED BY <1>1, <3>1, <3>2, <3>4
  <2> QED BY <1>1, <2>2, <2>3
<1> QED BY <1>2, <1>3

\* A new bar is on the market and on no path a trade has read.
LEMMA TickHonest ==
  ASSUME LoopInv, LedgerInv, HonestInv, Tick
  PROVE  HonestInv'
<1> USE DEF store, work, memory, history
<1>1. /\ UNCHANGED <<seen, trades, tradeRow, tainted, todo, partial, bar, setups>>
  BY DEF Tick
<1>2. /\ now \in Nat /\ seen \subseteq DOMAIN market
      /\ \A k \in DOMAIN market : k[2] \in Nat /\ k[2] <= now
  BY ClosedBars
<1>3. /\ now' = now + 1 /\ DOMAIN market \subseteq DOMAIN market'
      /\ \A k \in DOMAIN market : market'[k] = market[k]
      /\ \A k \in DOMAIN market' \ DOMAIN market :
           k[2] = now + 1 /\ market'[k].bar.low \in Int /\ market'[k].bar.high \in Int
  BY TickBars
<1>4. InOrder'
  <2>1. ASSUME NEW j \in seen, NEW k \in DOMAIN market' \ seen, j[1] = k[1], k[2] < j[2]
        PROVE  k[2] <= now' - PollWindow
    <3>1. k \in DOMAIN market
      BY <1>2, <1>3, <2>1
    <3>2. k[2] <= now - PollWindow
      BY <2>1, <3>1 DEF HonestInv, InOrder
    <3> QED BY <1>2, <1>3, <3>1, <3>2, WindowsAreOrdered
  <2> QED BY <1>1, <2>1 DEF HonestInv, InOrder
<1>5. Dated'
  <2>1. /\ \A p \in DOMAIN trades : p.at \in Nat
        /\ \A p \in DOMAIN tradeRow : p.at \in Nat
    BY DEF LedgerInv, Planned, Plan
  <2>2. \A i \in 1..Len(setups) : setups[i].at \in Nat
    <3>1. \A i \in 1..Len(setups) : setups[i] \in Plan
      BY DEF LedgerInv, Planned
    <3> QED BY <3>1 DEF Plan
  <2> QED BY <1>1, <1>2, <1>3, <2>1, <2>2 DEF HonestInv, Dated
<1>6. ASSUME NEW p \in Plan, p.at <= now, NEW r
      PROVE  (Honours(p, r) => Honours(p, r)') /\ (Stored(p, r) => Stored(p, r)')
  <2>1. PICK T, U : T = Ticks(p.symbol) /\ U = Ticks(p.symbol)'
    OBVIOUS
  <2>2. \A t : t \in U <=> t \in T \/ (t = now + 1 /\ <<p.symbol, t>> \in DOMAIN market')
    <3>1. \A t : t \in T <=> t \in 1..now /\ <<p.symbol, t>> \in DOMAIN market
      BY <2>1 DEF Ticks
    <3>2. \A t : t \in U <=> t \in 1..(now + 1) /\ <<p.symbol, t>> \in DOMAIN market'
      BY <1>3, <2>1 DEF Ticks
    <3>3. \A t : t \in 1..(now + 1) <=> t \in 1..now \/ t = now + 1
      BY <1>2
    <3>4. \A t : <<p.symbol, t>> \in DOMAIN market' => <<p.symbol, t>> \in DOMAIN market \/ t = now + 1
      BY <1>3
    <3>5. \A t \in 1..now : t # now + 1
      BY <1>2
    <3> QED BY <1>3, <3>1, <3>2, <3>3, <3>4, <3>5
  <2>3. \A t \in T : t \in Nat /\ t <= now /\ <<p.symbol, t>> \in DOMAIN market
    BY <1>2, <2>1 DEF Ticks
  <2>4. \A S : S \subseteq T => Read(market', p, S) = Read(market, p, S)
    <3> SUFFICES ASSUME NEW S, S \subseteq T PROVE Read(market', p, S) = Read(market, p, S)
      OBVIOUS
    <3>1. PICK m, k : m = market /\ k = market'
      OBVIOUS
    <3>2. \A t \in S : k[<<p.symbol, t>>] = m[<<p.symbol, t>>]
      BY <1>3, <2>3, <3>1
    <3>3. Read(k, p, S) = Read(m, p, S)
      BY <3>2, SameBars
    <3> QED BY <3>1, <3>3
  <2>5. PICK K : K = Known(p)
    OBVIOUS
  <2>6. K \subseteq T /\ Known(p)' = K
    <3>1. K = {t \in T : t <= p.at \/ <<p.symbol, t>> \in seen}
      BY <2>1, <2>5 DEF Known
    <3>2. Known(p)' = {t \in U : t <= p.at \/ <<p.symbol, t>> \in seen}
      BY <1>1, <2>1 DEF Known
    <3>3. p.at \in Nat
      BY DEF Plan
    <3>4. <<p.symbol, now + 1>> \notin seen /\ ~(now + 1 <= p.at)
      BY <1>2, <1>6, <3>3
    <3> QED BY <2>2, <3>1, <3>2, <3>4
  <2>7. Closed(p, r) => Closed(p, r)'
    <3> SUFFICES ASSUME Closed(p, r) PROVE Closed(p, r)'
      OBVIOUS
    <3>1. r.exit \in 1..now /\ r = Read(market, p, {t \in T : t <= r.exit})
      BY <2>1 DEF Closed
    <3>2. PICK S, e : S = {t \in T : t <= e} /\ e = r.exit /\ e \in 1..now
      BY <3>1
    <3>3. {t \in U : t <= e} = S
      <4>1. e \in Int /\ e <= now /\ ~(now + 1 <= e)
        BY <1>2, <3>2
      <4> QED BY <2>2, <3>2, <4>1
    <3>4. r = Read(market', p, S)
      BY <2>4, <3>1, <3>2
    <3>5. r.exit \in 1..now'
      <4>1. e \in 1..(now + 1)
        BY <1>2, <3>2
      <4> QED BY <1>3, <3>2, <4>1
    <3> QED BY <2>1, <3>2, <3>3, <3>4, <3>5 DEF Closed
  <2>8. Read(market', p, K) = Read(market, p, K)
    BY <2>4, <2>6
  <2> QED BY <2>5, <2>6, <2>7, <2>8 DEF Honours, Stored
<1>7. Honest'
  <2>1. ASSUME NEW p \in DOMAIN trades', p \notin tainted', NEW r, r = trades'[p] PROVE Honours(p, r)'
    <3>1. Honours(p, r) /\ p \in Plan /\ p.at <= now
      BY <1>1, <2>1 DEF HonestInv, Honest, Dated, LedgerInv, Planned
    <3> QED BY <1>6, <3>1
  <2>2. ASSUME NEW p \in DOMAIN tradeRow', p \notin tainted', NEW r, r = tradeRow'[p] PROVE Stored(p, r)'
    <3>1. Stored(p, r) /\ p \in Plan /\ p.at <= now
      BY <1>1, <2>2 DEF HonestInv, Honest, Dated, LedgerInv, Planned
    <3> QED BY <1>6, <3>1
  <2> QED BY <2>1, <2>2 DEF Honest
<1> QED BY <1>4, <1>5, <1>7 DEF HonestInv

\* The setups of a bar are dated by it, and nothing of its symbol is later.
LEMMA EvaluateHonest ==
  ASSUME LoopInv, LedgerInv, HonestInv, Evaluate
  PROVE  HonestInv'
<1> DEFINE room(g) == HasRoom(slots[Book([strategy |-> g])], ModuleOf[g], bar[1], g)
           passed == {g \in market[bar].signals : room(g)}
           plan(g) == [symbol |-> bar[1], strategy |-> g, at |-> bar[2]]
           inOrder == SetToSeq(passed \ Research) \o SetToSeq(passed \cap Research)
<1>1. /\ UNCHANGED <<now, market, seen, trades, tradeRow, tainted, todo, partial>>
      /\ bar # NoBar /\ bar' = NoBar
  BY DEF Evaluate, store, memory, history
<1>2. setups' = <<>> \/ setups' = [i \in DOMAIN inOrder |-> plan(inOrder[i])]
  BY DEF Evaluate
<1> HIDE DEF passed, inOrder
<1>3. \A i \in 1..Len(setups') : setups'[i].symbol = bar[1] /\ setups'[i].at = bar[2]
  <2>1. CASE setups' = <<>>
    BY <2>1
  <2>2. CASE setups' = [i \in DOMAIN inOrder |-> plan(inOrder[i])]
    <3>1. LedgerInv'
      BY EvaluatePasses
    <3>2. setups' \in Seq(Plan)
      BY <3>1 DEF LedgerInv, Planned
    <3>3. DOMAIN setups' = 1..Len(setups') /\ DOMAIN setups' = DOMAIN inOrder
      BY <2>2, <3>2
    <3> QED BY <2>2, <3>3
  <2> QED BY <1>2, <2>1, <2>2
<1>4. bar \in seen /\ (\A j \in seen : j[1] = bar[1] => j[2] <= bar[2]) /\ bar[2] <= now
  BY <1>1, ClosedBars DEF HonestInv, InOrder
<1>5. InOrder'
  BY <1>1, <1>3, <1>4 DEF HonestInv, InOrder
<1>6. Dated'
  BY <1>1, <1>3, <1>4 DEF HonestInv, Dated
<1>7. Honest'
  BY <1>1, HonestStays DEF HonestInv
<1> QED BY <1>5, <1>6, <1>7 DEF HonestInv

\* Settling a finished trade writes a row that says what its finished trade says.
LEMMA SettleHonest ==
  ASSUME LoopInv, HonestInv, NEW p \in settling, Settle(p)
  PROVE  HonestInv'
<1>1. /\ UNCHANGED <<now, market, seen, trades, tainted>>
      /\ UNCHANGED tradeRow \/ tradeRow' = With(tradeRow, p, trades[p])
  BY DEF Settle, Upsert
<1>2. UNCHANGED <<todo, partial, bar, setups>> \/ (todo' = <<>> /\ bar' = NoBar /\ setups' = <<>>)
  BY Zenon DEF Settle, Abandon, NoWork
<1>3. p \in DOMAIN trades /\ trades[p].outcome \in Resolved
  BY DEF LoopInv, Working
<1>4. \A q \in DOMAIN tradeRow' : \/ q \in DOMAIN tradeRow /\ tradeRow'[q] = tradeRow[q]
                                  \/ q = p /\ tradeRow'[q] = trades[p]
  BY <1>1 DEF With
<1>5. PICK r : r = trades[p]
  OBVIOUS
<1>6. p \in tainted \/ Stored(p, r)
  BY <1>3, <1>5 DEF HonestInv, Honest, Honours, Stored
<1>7. Honest'
  BY <1>1, <1>4, <1>5, <1>6, HonestStays DEF HonestInv
<1>8. \A i \in 1..Len(setups') : \E j \in 1..Len(setups) : setups'[i] = setups[j]
  BY <1>2
<1>9. InOrder' /\ Dated'
  BY <1>1, <1>2, <1>3, <1>4, <1>8, OrderStays DEF HonestInv, Dated
<1> QED BY <1>7, <1>9 DEF HonestInv

\* A plan that is recorded has met no bar of its own yet.
LEMMA RecordHonest ==
  ASSUME LoopInv, LedgerInv, HonestInv, RecordSetup
  PROVE  HonestInv'
<1> DEFINE p == Head(setups)
<1>1. UNCHANGED <<now, market, seen, tainted>> /\ setups # <<>>
  BY DEF RecordSetup
<1>2. \/ setups' = Tail(setups) /\ UNCHANGED <<todo, partial, bar>>
      \/ todo' = <<>> /\ bar' = NoBar /\ setups' = <<>>
  BY Zenon DEF RecordSetup, Abandon, NoWork
<1>3. /\ UNCHANGED trades \/ trades' = With(trades, p, NewTrade)
      /\ UNCHANGED tradeRow \/ tradeRow' = With(tradeRow, p, NewTrade)
  BY Zenon, RecordCases
<1>4. setups \in Seq(Plan)
  BY DEF LedgerInv, Planned
<1>5. /\ p \in Plan /\ 1 \in 1..Len(setups) /\ p = setups[1]
      /\ \A i \in 1..Len(Tail(setups)) : i + 1 \in 1..Len(setups) /\ Tail(setups)[i] = setups[i + 1]
  <2> SUFFICES ASSUME NEW s \in Seq(Plan), s # <<>>
               PROVE  /\ Head(s) \in Plan /\ 1 \in 1..Len(s) /\ Head(s) = s[1]
                      /\ \A i \in 1..Len(Tail(s)) : i + 1 \in 1..Len(s) /\ Tail(s)[i] = s[i + 1]
    BY <1>1, <1>4
  <2> QED OBVIOUS
<1> HIDE DEF p
<1>6. \A i \in 1..Len(setups') : \E j \in 1..Len(setups) : setups'[i] = setups[j]
  <2>1. CASE setups' = <<>>
    BY <2>1
  <2>2. CASE setups' = Tail(setups)
    BY <1>5, <2>2
  <2> QED BY <1>2, <2>1, <2>2
<1>7. PICK r : r = NewTrade
  OBVIOUS
<1>8. Honours(p, r) /\ Stored(p, r) /\ p.at <= now
  <2>1. PICK K : K = Known(p)
    OBVIOUS
  <2>2. K \subseteq Nat \ {0}
    BY <2>1, ClosedBars DEF Known
  <2>3. \A t \in K : t <= p.at
    <3>1. \A j \in seen : j[1] = p.symbol => j[2] <= p.at
      BY <1>5 DEF HonestInv, InOrder
    <3>2. ASSUME NEW t, <<p.symbol, t>> \in seen PROVE t <= p.at
      <4>1. PICK j : j = <<p.symbol, t>>
        OBVIOUS
      <4> QED BY <3>1, <3>2, <4>1
    <3> QED BY <2>1, <3>2 DEF Known
  <2>4. \A m : Read(m, p, K) = NewTrade
    BY <1>5, <2>2, <2>3, ReadNothing
  <2>5. NewTrade.outcome \notin Resolved
    BY DEF NewTrade, Resolved
  <2> QED BY <1>5, <1>7, <2>1, <2>4, <2>5 DEF Honours, Stored, HonestInv, Dated
<1>9. /\ \A q \in DOMAIN trades' : (q \in DOMAIN trades /\ trades'[q] = trades[q]) \/ (q = p /\ trades'[q] = r)
      /\ \A q \in DOMAIN tradeRow' :
           (q \in DOMAIN tradeRow /\ tradeRow'[q] = tradeRow[q]) \/ (q = p /\ tradeRow'[q] = r)
  BY <1>3, <1>7 DEF With
<1>10. Honest'
  BY <1>1, <1>8, <1>9, HonestStays DEF HonestInv
<1>11. InOrder' /\ Dated'
  <2>1. (\A q \in DOMAIN trades' : q.at <= now) /\ (\A q \in DOMAIN tradeRow' : q.at <= now)
    BY <1>8, <1>9 DEF HonestInv, Dated
  <2> QED BY <1>1, <1>2, <1>6, <2>1, OrderStays DEF HonestInv
<1> QED BY <1>10, <1>11 DEF HonestInv

\* The bar taken comes after every bar seen of its symbol, and before those
\* still to come.
LEMMA TakeBarOrder ==
  ASSUME LoopInv, HonestInv, TakeBar, NEW k, k = Head(todo)
  PROVE  /\ k \in DOMAIN market /\ \A j \in seen : j[1] = k[1] => j[2] < k[2]
         /\ InOrder'
<1>1. /\ pc = "ingest" /\ todo # <<>> /\ setups = <<>> /\ bar' = k /\ todo' = Tail(todo)
      /\ seen' = seen \cup {<<k[1], k[2]>>}
      /\ UNCHANGED <<now, market, partial, setups>>
  BY DEF TakeBar
<1>2. todo \in Seq(Symbol \X Nat) /\ \A n \in 1..Len(todo) : todo[n] \in DOMAIN market
  BY DEF LoopInv, Typed
<1>3. /\ 1 \in 1..Len(todo) /\ k = todo[1]
      /\ \A n \in 1..Len(Tail(todo)) : n + 1 \in 1..Len(todo) /\ 1 < n + 1 /\ Tail(todo)[n] = todo[n + 1]
      /\ \A m, n \in 1..Len(Tail(todo)) : m < n => m + 1 < n + 1
      /\ \A n \in 1..Len(todo) : n = 1 \/ 1 < n
  <2> SUFFICES ASSUME NEW s \in Seq(Symbol \X Nat), s # <<>>
               PROVE  /\ 1 \in 1..Len(s) /\ Head(s) = s[1]
                      /\ \A n \in 1..Len(Tail(s)) : n + 1 \in 1..Len(s) /\ 1 < n + 1 /\ Tail(s)[n] = s[n + 1]
                      /\ \A m, n \in 1..Len(Tail(s)) : m < n => m + 1 < n + 1
                      /\ \A n \in 1..Len(s) : n = 1 \/ 1 < n
    BY <1>1, <1>2
  <2> QED OBVIOUS
<1>4. /\ k \in DOMAIN market /\ k = <<k[1], k[2]>> /\ k[1] \in Nat /\ k[2] \in Nat /\ seen \subseteq DOMAIN market
  BY <1>2, <1>3, ClosedBars
<1>5. \A j \in seen : j[1] = k[1] => j[2] < k[2]
  BY <1>3 DEF HonestInv, InOrder
<1>6. \A j \in seen' : j \in seen \/ j = k
  BY <1>1, <1>4
<1>7. \A n \in 1..Len(todo) : k[1] = todo[n][1] /\ todo[n] # k => k[2] < todo[n][2]
  <2> SUFFICES ASSUME NEW n \in 1..Len(todo), k[1] = todo[n][1], todo[n] # k PROVE k[2] < todo[n][2]
    OBVIOUS
  <2>1. 1 < n
    BY <1>3
  <2>2. Earlier(k, todo[n])
    BY <1>3, <2>1 DEF HonestInv, InOrder
  <2> QED BY <1>4, <2>2 DEF Earlier
<1>8. \A n \in 1..Len(todo') : /\ todo'[n][1] \notin partial'
                               /\ \A j \in seen' : j[1] = todo'[n][1] => j[2] < todo'[n][2]
  <2> SUFFICES ASSUME NEW n \in 1..Len(Tail(todo))
               PROVE  /\ todo[n + 1][1] \notin partial
                      /\ \A j \in seen' : j[1] = todo[n + 1][1] => j[2] < todo[n + 1][2]
    BY <1>1, <1>3
  <2>1. n + 1 \in 1..Len(todo) /\ 1 < n + 1
    BY <1>3
  <2>2. todo[n + 1][1] \notin partial /\ \A j \in seen : j[1] = todo[n + 1][1] => j[2] < todo[n + 1][2]
    BY <2>1 DEF HonestInv, InOrder
  <2>3. k[1] = todo[n + 1][1] => k[2] < todo[n + 1][2]
    <3>1. Earlier(k, todo[n + 1])
      BY <1>3, <2>1 DEF HonestInv, InOrder
    <3> QED BY <1>4, <3>1 DEF Earlier
  <2> QED BY <1>6, <2>2, <2>3
<1>9. \A m, n \in 1..Len(todo') : m < n => Earlier(todo'[m], todo'[n])
  <2> SUFFICES ASSUME NEW m \in 1..Len(Tail(todo)), NEW n \in 1..Len(Tail(todo)), m < n
               PROVE  Earlier(todo[m + 1], todo[n + 1])
    BY <1>1, <1>3
  <2> QED BY <1>3 DEF HonestInv, InOrder
<1>10. ASSUME NEW j \in seen', NEW i \in DOMAIN market \ seen', j[1] = i[1], i[2] < j[2]
       PROVE  i[2] <= now - PollWindow
  <2>1. i \in DOMAIN market \ seen /\ i # k
    BY <1>1, <1>4
  <2>2. CASE j \in seen
    BY <1>10, <2>1, <2>2 DEF HonestInv, InOrder
  <2>3. CASE j = k
    <3>1. i[2] \in Nat /\ now \in Nat /\ i[1] = k[1] /\ i[2] < k[2]
      BY <1>10, <2>1, <2>3, ClosedBars
    <3>2. k[1] \notin partial
      BY <1>3 DEF HonestInv, InOrder
    <3>3. \A n \in 1..Len(todo) : todo[n] # i
      BY <1>4, <1>7, <2>1, <3>1
    <3>4. i[1] \notin partial /\ i[2] > now - PollWindow => InHand(i)
      BY <1>1, <2>1 DEF LoopInv, Caught
    <3>5. ~InHand(i)
      BY <2>1, <3>3 DEF InHand
    <3> QED BY <3>1, <3>2, <3>4, <3>5, WindowsAreOrdered
  <2> QED BY <1>6, <2>2, <2>3
<1>11. bar' \in seen' /\ \A j \in seen' : j[1] = bar'[1] => j[2] <= bar'[2]
  <2>1. k \in seen'
    BY <1>1, <1>4
  <2>2. ASSUME NEW j \in seen', j[1] = k[1] PROVE j[2] <= k[2]
    <3>1. CASE j = k
      BY <1>4, <3>1
    <3>2. CASE j \in seen
      <4>1. j[2] \in Nat /\ j[2] < k[2]
        BY <1>5, <2>2, <3>2, ClosedBars
      <4> QED BY <1>4, <4>1
    <3> QED BY <1>6, <3>1, <3>2
  <2> QED BY <1>1, <2>1, <2>2
<1>12. \A i : ~(i \in 1..Len(setups'))
  BY <1>1
<1>13. InOrder'
  BY <1>1, <1>8, <1>9, <1>10, <1>11, <1>12 DEF InOrder
<1> QED BY <1>4, <1>5, <1>13

\* What a bar makes of a trade is what its plan says, unless it skipped one.
LEMMA TakeBarHonest ==
  ASSUME LoopInv, LedgerInv, HonestInv, TakeBar
  PROVE  HonestInv'
<1>1. PICK k, s, t : k = Head(todo) /\ s = k[1] /\ t = k[2]
  OBVIOUS
<1> DEFINE mine == {p \in Active : p.symbol = s}
           next(p) == Advance(Terms[p.strategy], trades[p], p.at, t, market[<<s, t>>].bar, Late(t))
<1>2. /\ UNCHANGED <<now, market, tradeRow, setups>>
      /\ seen' = seen \cup {<<s, t>>}
      /\ trades' = [p \in DOMAIN trades |-> IF p \in mine THEN next(p) ELSE trades[p]]
      /\ tainted' = tainted \cup
           {p \in mine : \E u \in (p.at + 1)..(t - 1) : <<s, u>> \in DOMAIN market \ seen}
  BY <1>1 DEF TakeBar, store
<1> HIDE DEF next
<1>3. /\ k \in DOMAIN market /\ \A j \in seen : j[1] = k[1] => j[2] < k[2]
      /\ InOrder'
  BY <1>1, TakeBarOrder
<1>4. /\ <<s, t>> = k /\ t \in Nat \ {0} /\ t <= now /\ now \in Nat
      /\ seen \subseteq DOMAIN market /\ \A q : Ticks(q) \subseteq Nat \ {0}
  BY <1>1, <1>3, ClosedBars
<1>5. \A q : Ticks(q)' = Ticks(q)
  BY <1>2 DEF Ticks
<1>6. \A u : <<s, u>> \in seen => u < t
  <2> SUFFICES ASSUME NEW u, <<s, u>> \in seen PROVE u < t
    OBVIOUS
  <2>1. PICK j : j = <<s, u>>
    OBVIOUS
  <2> QED BY <1>1, <1>3, <2>1
<1>7. t \in Ticks(s)
  BY <1>3, <1>4 DEF Ticks
<1>8. Dated'
  BY <1>2 DEF HonestInv, Dated
<1>9. \A p \in DOMAIN trades : trades'[p] = IF p \in mine THEN next(p) ELSE trades[p]
  <2> HIDE DEF mine
  <2> QED BY <1>2
<1>10. ASSUME NEW p \in DOMAIN trades, p \notin mine, NEW r, r = trades[p], Honours(p, r) PROVE Honours(p, r)'
  <2>1. CASE r.outcome \in Resolved
    BY <1>2, <1>5, <1>10, <2>1 DEF Honours, Closed
  <2>2. CASE r.outcome \notin Resolved
    <3>1. p \in Active
      BY <1>10, <2>2 DEF LoopInv, Typed, Shaped, Outcomes, Active
    <3>2. p.symbol # s
      BY <1>10, <3>1
    <3>3. Known(p)' = Known(p)
      BY <1>2, <1>5, <3>2 DEF Known
    <3> QED BY <1>2, <1>10, <2>2, <3>3 DEF Honours
  <2> QED BY <2>1, <2>2
<1>11. ASSUME NEW p \in mine, p \notin tainted', NEW x, x = next(p) PROVE Honours(p, x)'
  <2>1. /\ p \in DOMAIN trades /\ p.symbol = s /\ trades[p].outcome \in Unresolved
        /\ p \notin tainted /\ p \in Plan /\ p.at \in Nat
    BY <1>2, <1>11 DEF Active, LedgerInv, Planned, Plan
  <2>2. PICK r, K, T, m : r = trades[p] /\ K = Known(p) /\ T = Ticks(s) /\ m = market
    OBVIOUS
  <2>3. r = Read(m, p, K)
    <3>1. Honours(p, r)
      BY <2>1, <2>2 DEF HonestInv, Honest
    <3>2. r.outcome \notin Resolved
      BY <2>1, <2>2 DEF Resolved, Unresolved
    <3> QED BY <2>2, <3>1, <3>2 DEF Honours
  <2>4. K = {u \in T : u <= p.at \/ <<s, u>> \in seen} /\ T \subseteq Nat \ {0} /\ t \in T
    BY <1>4, <1>7, <2>1, <2>2 DEF Known
  <2>5. Known(p)' = {u \in T : u <= p.at \/ <<s, u>> \in seen \/ u = t}
    <3>1. Known(p)' = {u \in T : u <= p.at \/ <<s, u>> \in seen'}
      BY <1>5, <2>1, <2>2 DEF Known
    <3>2. \A u : <<s, u>> \in seen' <=> <<s, u>> \in seen \/ u = t
      BY <1>2
    <3> QED BY <3>1, <3>2
  <2>6. x = Advance(Terms[p.strategy], r, p.at, t, m[<<p.symbol, t>>].bar, Late(t))
    BY <1>11, <2>1, <2>2 DEF next
  <2>7. CASE t <= p.at
    <3>1. Known(p)' = K
      BY <2>4, <2>5, <2>7
    <3>2. K \subseteq Nat \ {0} /\ t \in Nat
      BY <1>4, <2>4
    <3>3. x = r
      BY <2>1, <2>2, <2>3, <2>6, <2>7, <3>2, ReadIgnored
    <3>4. x.outcome \notin Resolved
      BY <2>1, <2>2, <3>3 DEF Resolved, Unresolved
    <3> QED BY <1>2, <2>2, <2>3, <3>1, <3>3, <3>4 DEF Honours
  <2>8. CASE ~(t <= p.at)
    <3>1. p.at < t
      BY <1>4, <2>1, <2>8
    <3>2. Known(p)' = K \cup {t}
      BY <2>4, <2>5
    <3>3. K \subseteq Nat \ {0} /\ \A u \in K : u < t
      <4>1. \A u \in K : u \in Nat \ {0} /\ (u <= p.at \/ u < t)
        BY <1>6, <2>4
      <4> QED BY <1>4, <2>1, <3>1, <4>1
    <3>4. \A u \in K \cup {t} : m[<<p.symbol, u>>].bar.low \in Int /\ m[<<p.symbol, u>>].bar.high \in Int
      <4>1. \A u \in K \cup {t} : <<p.symbol, u>> \in DOMAIN m
        BY <2>1, <2>2, <2>4 DEF Ticks
      <4> QED BY <2>2, <4>1 DEF HonestInv, Dated
    <3>5. /\ x = Read(m, p, K \cup {t})
          /\ x.outcome \in Resolved => x.exit = t
      BY <1>4, <2>1, <2>2, <2>3, <2>6, <3>1, <3>3, <3>4, ReadNext
    <3>6. {u \in T : u <= t} = K \cup {t}
      <4>1. \A u \in (p.at + 1)..(t - 1) : <<s, u>> \notin DOMAIN market \ seen
        BY <1>2, <1>11
      <4>2. ASSUME NEW u \in T, u <= t PROVE u \in K \cup {t}
        <5>1. <<s, u>> \in DOMAIN market /\ u \in Nat
          BY <2>2, <2>4 DEF Ticks
        <5>2. CASE u <= p.at \/ u = t
          BY <2>4, <5>2
        <5>3. CASE ~(u <= p.at) /\ u # t
          <6>1. u \in (p.at + 1)..(t - 1)
            BY <1>4, <2>1, <4>2, <5>1, <5>3
          <6> QED BY <2>4, <4>1, <5>1, <6>1
        <5> QED BY <5>2, <5>3
      <4>3. \A u \in K \cup {t} : u \in T /\ u <= t
        BY <1>4, <2>4, <3>3
      <4> QED BY <4>2, <4>3
    <3>7. CASE x.outcome \in Resolved
      <4>1. x.exit = t /\ t \in 1..now
        BY <1>4, <3>5, <3>7
      <4>2. Closed(p, x)'
        BY <1>2, <1>5, <2>1, <2>2, <3>5, <3>6, <4>1 DEF Closed
      <4> QED BY <3>7, <4>2 DEF Honours
    <3>8. CASE x.outcome \notin Resolved
      BY <1>2, <2>2, <3>2, <3>5, <3>8 DEF Honours
    <3> QED BY <3>7, <3>8
  <2> QED BY <2>7, <2>8
<1>12. Honest'
  <2>1. ASSUME NEW p \in DOMAIN trades', p \notin tainted', NEW x, x = trades'[p] PROVE Honours(p, x)'
    <3>1. p \in DOMAIN trades /\ x = IF p \in mine THEN next(p) ELSE trades[p]
      BY <1>2, <1>9, <2>1
    <3>2. CASE p \in mine
      BY <1>11, <2>1, <3>1, <3>2
    <3>3. CASE p \notin mine
      <4>1. Honours(p, x)
        BY <1>2, <2>1, <3>1, <3>3 DEF HonestInv, Honest
      <4> QED BY <1>10, <3>1, <3>3, <4>1
    <3> QED BY <3>2, <3>3
  <2>2. ASSUME NEW p \in DOMAIN tradeRow', p \notin tainted', NEW r, r = tradeRow'[p] PROVE Stored(p, r)'
    <3>1. Stored(p, r)
      BY <1>2, <2>2 DEF HonestInv, Honest
    <3> QED BY <1>2, <1>5, <3>1 DEF Stored, Closed
  <2> QED BY <2>1, <2>2 DEF Honest
<1> QED BY <1>3, <1>8, <1>12 DEF HonestInv

-----------------------------------------------------------------------------
(* The theorems.                                                           *)

\* The inductive invariant of the ledger's outcomes: whatever was replayed,
\* skipped or abandoned, each trade is what its plan says of the bars it met.
THEOREM HonestInvariant == LiveSpec => []HonestInv
<1>1. LiveInit => HonestInv
  BY HonestInit
<1>2. LoopInv /\ LedgerInv /\ HonestInv /\ [LiveNext]_liveVars => HonestInv'
  <2> SUFFICES ASSUME LoopInv, LedgerInv, HonestInv, [LiveNext]_liveVars PROVE HonestInv'
    OBVIOUS
  <2>1. CASE Tick
    BY <2>1, TickHonest
  <2>2. CASE StoreFails \/ StoreRecovers \/ Restart \/ FinishIngest \/ UNCHANGED liveVars
    BY <2>2, OutagesHonest
  <2>3. CASE Crash
    BY <2>3, CrashHonest
  <2>4. CASE Boot
    BY <2>4, BootHonest
  <2>5. CASE Poll
    BY <2>5, PollHonest
  <2>6. CASE TakeBar
    BY <2>6, TakeBarHonest
  <2>7. CASE \E p \in settling : Settle(p)
    BY <2>7, SettleHonest
  <2>8. CASE Evaluate
    BY <2>8, EvaluateHonest
  <2>9. CASE RecordSetup
    BY <2>9, RecordHonest
  <2> QED BY <2>1, <2>2, <2>3, <2>4, <2>5, <2>6, <2>7, <2>8, <2>9 DEF LiveNext
<1> QED BY <1>1, <1>2, LoopInvariant, LedgerInvariant, PTL DEF LiveSpec

\* paper.py computes a trade bar by bar, in part again after restarts; the row
\* of a settled trade is what one reading of its plan over all bars up to its
\* exit says, unless a bar in between was out of every fetch's reach.
THEOREM LedgerHonours == LiveSpec => []LedgerHonoursPlan
<1>1. LoopInv /\ HonestInv => LedgerHonoursPlan
  <2> SUFFICES ASSUME LoopInv, HonestInv, NEW p \in DOMAIN trades, trades[p].outcome \in Resolved, p \notin tainted
               PROVE  trades[p] = Reference(Terms[p.strategy], p.at,
                                    [t \in {u \in DOMAIN BarsOf(p.symbol) : u <= trades[p].exit} |->
                                       BarsOf(p.symbol)[t]],
                                    {t \in 1..now : Late(t)})
    BY DEF LedgerHonoursPlan
  <2>1. PICK r, e, S : r = trades[p] /\ e = r.exit /\ S = {t \in Ticks(p.symbol) : t <= e}
    OBVIOUS
  <2>2. r = Read(market, p, S)
    BY <2>1 DEF HonestInv, Honest, Honours, Closed
  <2>3. PICK B, L, M : B = [t \in S |-> market[<<p.symbol, t>>].bar]
                       /\ L = {t \in S : Late(t)} /\ M = {t \in 1..now : Late(t)}
    OBVIOUS
  <2>4. [t \in {u \in DOMAIN BarsOf(p.symbol) : u <= trades[p].exit} |-> BarsOf(p.symbol)[t]] = B
    <3>1. DOMAIN BarsOf(p.symbol) = Ticks(p.symbol)
          /\ \A t \in Ticks(p.symbol) : BarsOf(p.symbol)[t] = market[<<p.symbol, t>>].bar
      BY DEF BarsOf, Ticks
    <3>2. {u \in DOMAIN BarsOf(p.symbol) : u <= trades[p].exit} = S
      BY <2>1, <3>1
    <3> QED BY <2>1, <2>3, <3>1, <3>2
  <2>5. \A t \in DOMAIN B : t \in L <=> t \in M
    <3>1. DOMAIN B = S /\ S \subseteq 1..now
      BY <2>1, <2>3 DEF Ticks
    <3> HIDE DEF Late
    <3> QED BY <2>3, <3>1
  <2>6. r = Reference(Terms[p.strategy], p.at, B, L)
    BY <2>2, <2>3 DEF Read
  <2>7. Reference(Terms[p.strategy], p.at, B, L) = Reference(Terms[p.strategy], p.at, B, M)
    BY <2>5, LatesOfSeries
  <2> QED BY <2>1, <2>3, <2>4, <2>6, <2>7
<1> QED BY <1>1, LoopInvariant, HonestInvariant, PTL
=============================================================================
