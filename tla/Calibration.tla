---------------------------- MODULE Calibration -----------------------------
(***************************************************************************)
(* Calibration maps (calibration.py): paper outcomes are counted in buckets *)
(* of the composite score, neighbours whose win rates fall are pooled, and *)
(* the result is looked up as the confidence an alert claims.              *)
(*                                                                         *)
(* A score is counted in steps of half a bucket, Top steps being 100; a    *)
(* rate is a fraction [num, den].                                          *)
(***************************************************************************)
EXTENDS Integers, Sequences, FiniteSets, SequencesExt

CONSTANTS
  MinN,        \* MIN_N: samples that make a bucket sufficient
  Top,         \* the score of 100, in half-buckets
  MaxSamples,  \* bound: samples of one bucket
  MaxBuckets   \* bound: buckets with samples

ASSUME CountsAreNatural == {MinN, Top, MaxSamples, MaxBuckets} \subseteq Nat /\ Top > 0

VARIABLES
  raw,     \* the counted buckets, by score
  taken,   \* how many of them fit() has taken
  pools    \* the pools so far

calibrationVars == <<raw, taken, pools>>

-----------------------------------------------------------------------------
(* fit                                                                     *)

\* _wr: Laplace-smoothed win rate.
Rate(p) == [num |-> p.wins + 1, den |-> p.n + 2]
Less(a, b) == a.num * b.den < b.num * a.den

\* Fault: the pools are compared by their plain win rates.
FaultyFalling(ps) ==
  Len(ps) >= 2 /\ ps[Len(ps)].wins * ps[Len(ps) - 1].n < ps[Len(ps) - 1].wins * ps[Len(ps)].n

\* The loop condition of pool-adjacent-violators.
Falling(ps) == Len(ps) >= 2 /\ Less(Rate(ps[Len(ps)]), Rate(ps[Len(ps) - 1]))

\* The next bucket becomes a pool of its own.
Take ==
  /\ ~Falling(pools) /\ taken < Len(raw)
  /\ pools' = Append(pools, raw[taken + 1])
  /\ taken' = taken + 1
  /\ UNCHANGED raw

Pooled(p, a) == [lo |-> p.lo, hi |-> a.hi, n |-> p.n + a.n, wins |-> p.wins + a.wins]

\* The last pool falls below the one before it and is merged into it.
Merge ==
  /\ Falling(pools)
  /\ LET k == Len(pools) IN pools' = [Front(pools) EXCEPT ![k - 1] = Pooled(pools[k - 1], pools[k])]
  /\ UNCHANGED <<raw, taken>>

Fitted == taken = Len(raw) /\ ~Falling(pools)

-----------------------------------------------------------------------------
(* confidence                                                              *)

\* MAX_UNVALIDATED_CONFIDENCE, the top claim of a bucket, and the fallback.
Unvalidated == [num |-> 74, den |-> 100]
Highest     == [num |-> 95, den |-> 100]
Least(a, b) == IF Less(b, a) THEN b ELSE a
Conservative(score) == [num |-> 9 * score, den |-> 10 * Top]

\* The first bucket that holds the score; 100 belongs to one that ends there.
Holds(p, score) == (p.lo <= score /\ score < p.hi) \/ (score = Top /\ p.hi = Top)

Confidence(validated, score) ==
  LET found == {i \in 1..Len(pools) : Holds(pools[i], score) /\ pools[i].n >= MinN} IN
  IF validated /\ found # {}
  THEN Least(Rate(pools[CHOOSE i \in found : \A j \in found : i <= j]), Highest)
  ELSE Least(Conservative(score), Unvalidated)

-----------------------------------------------------------------------------
Counts == {c \in [n: 1..MaxSamples, wins: 0..MaxSamples] : c.wins <= c.n}

\* The samples: up to MaxBuckets buckets, the last of them ending at or past
\* the top, with or without a gap between the first two.
CalibrationInit ==
  /\ \E counts \in UNION {[1..k -> Counts] : k \in 1..MaxBuckets}, gap \in {0, 2}, past \in {0, 2} :
       raw = [i \in 1..Len(counts) |->
                LET hi == Top + past - 2 * (Len(counts) - i) - (IF i = 1 THEN gap ELSE 0)
                IN [lo |-> hi - 2, hi |-> hi, n |-> counts[i].n, wins |-> counts[i].wins]]
  /\ taken = 0 /\ pools = <<>>

CalibrationNext == Take \/ Merge

CalibrationSpec == CalibrationInit /\ [][CalibrationNext]_calibrationVars
-----------------------------------------------------------------------------
CalibrationTypeOK == taken \in 0..Len(raw) /\ Len(pools) <= taken

Samples(ps) == FoldFunction(+, 0, [i \in 1..Len(ps) |-> ps[i].n])
Won(ps)     == FoldFunction(+, 0, [i \in 1..Len(ps) |-> ps[i].wins])

\* The fitted map claims no less for a better score: its pools, which cover the
\* buckets in order and lose none of their samples, never fall, and neither
\* does the confidence among scores with a sufficient pool.  Smoothing makes
\* this more than the textbook argument: two pooled rates need not end up
\* between the two.  Without validated evidence nothing reaches the live gate,
\* and no evidence claims more than 95 percent.
CalibrationIsotonic ==
  Fitted =>
    /\ \A i \in 1..(Len(pools) - 1) :
         ~Less(Rate(pools[i + 1]), Rate(pools[i])) /\ pools[i].hi <= pools[i + 1].lo
    /\ Samples(pools) = Samples(raw) /\ Won(pools) = Won(raw)
    /\ LET sure == {s \in 0..Top : \E p \in ToSet(pools) : Holds(p, s) /\ p.n >= MinN} IN
       \A s, t \in sure : s <= t => ~Less(Confidence(TRUE, t), Confidence(TRUE, s))
    /\ \A s \in 0..Top : /\ ~Less(Unvalidated, Confidence(FALSE, s))
                         /\ ~Less(Highest, Confidence(TRUE, s))
=============================================================================
