---------------------------- MODULE StudyReport -----------------------------
(***************************************************************************)
(* How the two research backtests choose their parameters                  *)
(* (opening_range_reversal.py, ema9_crossover.py): the trades of every     *)
(* variant are filed by the session they were entered in, as train,        *)
(* validation and test, each part is summed up in a report, and the best   *)
(* validated variant wins.                                                 *)
(*                                                                         *)
(* A session may see several trades of several symbols, and a trade may be *)
(* settled in a later session than the one it is filed under.  Results are *)
(* in units of R, and an average or a profit factor is a fraction          *)
(* [num, den]; their rounding is left out.                                 *)
(***************************************************************************)
EXTENDS Integers, Sequences, FiniteSets, FiniteSetsExt, SequencesExt

CONSTANTS
  Variants,                 \* size of the parameter grid
  MinTrain, MinValidation,  \* trades that make a variant eligible
  Results,                  \* net results of a trade
  Carry,                    \* sessions a position may be held over: none by the
                            \*   reversal, more by the crossover when a session
                            \*   ends before its flatten time
  MaxSessions, MaxTrades    \* bounds: sessions observed, trades of a variant

ASSUME GridIsFinite == {Variants, MinTrain, MinValidation, MaxSessions} \subseteq Nat \ {0}
                       /\ {Carry, MaxTrades} \subseteq Nat /\ Results \subseteq Int

VARIABLES
  observed,  \* how many sessions the bars are of, traded or not
  trades,    \* variant -> its trades [entry, exit, net] in the order of their exits
  winner     \* the chosen variant, 0 when none is eligible

studyVars == <<observed, trades, winner>>

Sessions == 1..observed

\* The trades that are filed in a part: by entry_ts, by session_date.
Traded(v, part) == {i \in 1..Len(trades[v]) : trades[v][i].entry \in part}

Nets(v)        == [i \in 1..Len(trades[v]) |-> trades[v][i].net]
Net(v, I)      == MapThenSumSet(LAMBDA i : Nets(v)[i], I)
NetOf(v, part) == Net(v, Traded(v, part))

-----------------------------------------------------------------------------
(* performance_report                                                      *)

WonBy(v, part)  == MapThenSumSet(LAMBDA i : Max({trades[v][i].net, 0}), Traded(v, part))
LostBy(v, part) == MapThenSumSet(LAMBDA i : Max({-trades[v][i].net, 0}), Traded(v, part))

\* Running through the trades of a part in the order of their exits.
Through(v, part, acc, i) ==
  LET equity == acc.equity + (IF i \in Traded(v, part) THEN trades[v][i].net ELSE 0)
      peak   == Max({acc.peak, equity})
  IN [equity |-> equity, peak |-> peak, worst |-> Max({acc.worst, peak - equity})]

Slide(v, part) ==
  FoldLeft(LAMBDA acc, i : Through(v, part, acc, i), [equity |-> 0, peak |-> 0, worst |-> 0],
           [i \in 1..Len(trades[v]) |-> i]).worst

\* A part without a losing trade has no profit factor, which counts as zero.
Report(v, part) ==
  LET n == Cardinality(Traded(v, part)) IN
  [trades  |-> n,
   wins    |-> Cardinality({i \in Traded(v, part) : trades[v][i].net > 0}),
   average |-> [num |-> NetOf(v, part), den |-> Max({n, 1})],
   factor  |-> IF LostBy(v, part) = 0 THEN [num |-> 0, den |-> 1]
               ELSE [num |-> WonBy(v, part), den |-> LostBy(v, part)],
   slide   |-> Slide(v, part)]

-----------------------------------------------------------------------------
(* _split_by_session, _split_trades: 60, 20 and 20 percent of the sessions *)
(* that were observed, traded or not.                                      *)

First  == Max({1, (observed * 60) \div 100}) + 1
Second == Max({2, (observed * 80) \div 100}) + 1
Few    == observed < 3

\* Fault: a session on the boundary falls into both parts.
FaultyValidation == IF Few THEN {} ELSE {s \in Sessions : First <= s /\ s <= Second}

Train      == IF Few THEN Sessions ELSE {s \in Sessions : s < First}
Validation == IF Few THEN {} ELSE {s \in Sessions : First <= s /\ s < Second}
Test       == IF Few THEN {} ELSE {s \in Sessions : s >= Second}

-----------------------------------------------------------------------------
(* tune                                                                    *)

Smaller(a, b) == a.num * b.den < b.num * a.den

Eligible(v) ==
  LET train == Report(v, Train) validation == Report(v, Validation) IN
  /\ train.trades >= MinTrain /\ validation.trades >= MinValidation
  /\ train.average.num > 0 /\ validation.average.num > 0

\* The sort key: average, then profit factor, of the validation part.
Outdoes(a, b) ==
  LET x == Report(a, Validation) y == Report(b, Validation) IN
  \/ Smaller(y.average, x.average)
  \/ ~Smaller(x.average, y.average) /\ Smaller(y.factor, x.factor)

\* The first of a stable descending sort.
Winner ==
  LET best == {v \in 1..Variants : Eligible(v) /\ \A w \in 1..Variants : Eligible(w) => ~Outdoes(w, v)}
  IN IF best = {} THEN 0 ELSE Min(best)

Tune == winner = -1 /\ winner' = Winner /\ UNCHANGED <<observed, trades>>

\* What a variant may have traded in n sessions.
Trade(n)  == {t \in [entry : 1..n, exit : 1..n, net : Results] : t.entry <= t.exit /\ t.exit <= t.entry + Carry}
Ledger(n) == {l \in UNION {[1..k -> Trade(n)] : k \in 0..MaxTrades} :
                \A i, j \in 1..Len(l) : i < j => l[i].exit <= l[j].exit}

StudyInit ==
  /\ observed \in 1..MaxSessions
  /\ trades \in [1..Variants -> Ledger(observed)]
  /\ winner = -1

StudySpec == StudyInit /\ [][Tune]_studyVars
-----------------------------------------------------------------------------
StudyTypeOK == winner \in -1..Variants

\* The sessions before the test, whatever the parts are called.
Past == 1..Max({s \in 0..observed : s = 0 \/ s \notin Test})

\* What the trades of a part make between any two of them.
Slides(v, part) == {Net(v, Traded(v, part) \cap i..j) : i \in 1..Len(trades[v]), j \in 1..Len(trades[v])}

\* The drawdown of a report is the worst slide between two trades of its part,
\* and none when they never slide.
DrawdownIsWorst(v, part) == Report(v, part).slide = -Min(Slides(v, part) \cup {0})

\* Every trade of every variant is filed in exactly one part, and every report
\* that is made shows the worst drawdown of its part, also where the trades of
\* several symbols overlap.  A winner is chosen by what was entered before the
\* test, which is there to judge it: it gained on both earlier parts, no
\* eligible variant did better on the validation part, and no trade that
\* decided was settled further into the test than a position may be carried:
\* nowhere in it, for the reversal.
TuneHonest ==
  /\ \A v \in 1..Variants :
       /\ Traded(v, Train) \cup Traded(v, Validation) \cup Traded(v, Test) = 1..Len(trades[v])
       /\ Traded(v, Train) \cap Traded(v, Validation) = {}
       /\ (Traded(v, Train) \cup Traded(v, Validation)) \cap Traded(v, Test) = {}
       /\ DrawdownIsWorst(v, Train) /\ DrawdownIsWorst(v, Validation)
  /\ winner > 0 =>
       /\ Test # {} /\ Past \cap Test = {} /\ \A s \in Train, t \in Validation, u \in Test : s < t /\ t < u
       /\ NetOf(winner, Train) > 0 /\ NetOf(winner, Past \ Train) > 0
       /\ \A v \in 1..Variants :
            Eligible(v) => NetOf(v, Past \ Train) * Cardinality(Traded(winner, Past \ Train))
                             <= NetOf(winner, Past \ Train) * Cardinality(Traded(v, Past \ Train))
       /\ \A v \in 1..Variants : \A i \in Traded(v, Past) : \A u \in Test : trades[v][i].exit < u + Carry
       /\ DrawdownIsWorst(winner, Test)
=============================================================================
