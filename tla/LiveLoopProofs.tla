--------------------------- MODULE LiveLoopProofs ---------------------------
(***************************************************************************)
(* Proofs about the live loop: a settlement is final, the store mirrors    *)
(* the memory, a session that counts as caught up has left out no bar,     *)
(* each counter of the discipline gates is the number of plans that hold   *)
(* its slot, and no two plans of one strategy on one symbol run at the     *)
(* same time.                                                              *)
(***************************************************************************)
EXTENDS LiveLoop, SumProofs, FunctionTheorems, SequenceTheorems

-----------------------------------------------------------------------------
(* Sessions.                                                               *)

\* Of two neighbouring numbers at most one is a multiple of m.
LEMMA NoTwoMultiples ==
  ASSUME NEW m \in Nat, m >= 2, NEW a \in Int, NEW b \in Int
  PROVE  m * a - m * b # 1
<1>1. m * (a - b) = m * a - m * b
  OBVIOUS
<1>2. ASSUME NEW d \in Int, m * d = 1 PROVE FALSE
  <2>1. CASE d <= 0
    BY <1>2, <2>1
  <2>2. CASE d >= 1
    <3>1. m * d >= m
      BY <2>2
    <3> QED BY <1>2, <3>1
  <2> QED BY <2>1, <2>2
<1> QED BY ONLY <1>1, <1>2, a \in Int, b \in Int, a - b \in Int

\* A number that leaves no remainder is a multiple.
LEMMA NoRemainder ==
  ASSUME NEW m \in Nat, NEW t \in Int, m >= 1, t % m = 0
  PROVE  \E a \in Int : t = m * a
<1> QED OBVIOUS

\* The tick after a close, and only that one, is an open.
LEMMA PhaseSteps ==
  ASSUME NEW t \in Int, Phase(t) = 0
  PROVE  Phase(t - 1) # 0
<1> SUFFICES ASSUME NEW m \in Nat, m = BarsPerDay + 1, (t - 1) % m = 0 PROVE FALSE
  BY SessionsHaveBars DEF Phase
<1>1. m >= 2 /\ t % m = 0
  BY SessionsHaveBars DEF Phase
<1>2. PICK a \in Int : t = m * a
  BY ONLY <1>1, NoRemainder, t \in Int, m \in Nat
<1>3. PICK b \in Int : t - 1 = m * b
  BY ONLY <1>1, NoRemainder, t - 1 \in Int, m \in Nat, (t - 1) % m = 0
<1>4. m * a - m * b = 1
  BY ONLY <1>2, <1>3, t \in Int
<1>5. m * a - m * b # 1
  BY <1>1, NoTwoMultiples
<1> QED BY ONLY <1>4, <1>5

LEMMA PhaseType ==
  ASSUME NEW t \in Int
  PROVE  Phase(t) \in 0..BarsPerDay
<1> QED BY SessionsHaveBars DEF Phase

\* The largest element of a set of integers, when it is known.
LEMMA MaxIs ==
  ASSUME NEW S \in SUBSET Int, NEW m \in S, \A x \in S : x <= m
  PROVE  Max(S) = m
<1>1. \A x \in S : (\A y \in S : x >= y) => x = m
  OBVIOUS
<1>2. \A y \in S : m >= y
  OBVIOUS
<1> QED BY <1>1, <1>2 DEF Max

\* A session's close is at most one tick away from its end and the next open.
LEMMA LatestCloseIs ==
  ASSUME NEW t \in Int
  PROVE  LatestClose(t) \in {t, t - 1}
<1> DEFINE S == {u \in (t - BarsPerDay - 1)..t : Phase(u) # 0}
<1>1. S \subseteq Int /\ \A x \in S : x <= t
  BY SessionsHaveBars
<1>2. CASE Phase(t) # 0
  <2>1. t \in S
    BY <1>2, SessionsHaveBars
  <2>2. Max(S) = t
    BY <1>1, <2>1, MaxIs
  <2> QED BY <2>2 DEF LatestClose
<1>3. CASE Phase(t) = 0
  <2>1. t - 1 \in S /\ \A x \in S : x <= t - 1
    BY <1>1, <1>3, PhaseSteps, SessionsHaveBars
  <2>2. Max(S) = t - 1
    BY <1>1, <2>1, MaxIs
  <2> QED BY <2>2 DEF LatestClose
<1> QED BY <1>2, <1>3

LEMMA LatestSessionIs ==
  ASSUME NEW t \in Int, ~InSession(t)
  PROVE  LatestSession(t) = t
<1> DEFINE S == {u \in (t - BarsPerDay - 1)..t : Phase(u) = BarsPerDay}
<1>1. S \subseteq Int /\ \A x \in S : x <= t
  BY SessionsHaveBars
<1>2. t \in S
  BY PhaseType, SessionsHaveBars DEF InSession
<1>3. Max(S) = t
  BY <1>1, <1>2, MaxIs
<1> QED BY <1>3 DEF LatestSession

-----------------------------------------------------------------------------
(* The order of the bars.                                                  *)

Count(keys, k) == Cardinality({j \in keys : Earlier(j, k)})

\* In a finite set of bars no two have equally many before them, and every
\* number of bars up to all but one is before some bar.
LEMMA CountsDiffer ==
  ASSUME NEW keys, IsFiniteSet(keys), keys \subseteq Symbol \X Nat, NEW j \in keys, NEW k \in keys, Earlier(j, k)
  PROVE  Count(keys, j) < Count(keys, k)
<1> DEFINE A == {i \in keys : Earlier(i, j)}
           B == {i \in keys : Earlier(i, k)}
<1>1. \A i \in keys : i[1] \in Nat /\ i[2] \in Nat
  BY SymbolsAreNumbers
<1>2. A \subseteq B /\ j \in B /\ j \notin A
  BY <1>1 DEF Earlier
<1>3. IsFiniteSet(A) /\ IsFiniteSet(B)
  BY FS_Subset
<1>4. Cardinality(A) <= Cardinality(B) /\ (Cardinality(B) = Cardinality(A) => B = A)
  BY <1>2, <1>3, FS_Subset
<1>5. Cardinality(A) \in Nat /\ Cardinality(B) \in Nat
  BY <1>3, FS_CardinalityType
<1> QED BY <1>2, <1>4, <1>5 DEF Count

LEMMA CountIsRank ==
  ASSUME NEW keys, IsFiniteSet(keys), keys \subseteq Symbol \X Nat
  PROVE  /\ \A k \in keys : Count(keys, k) \in 0..(Cardinality(keys) - 1)
         /\ \A j, k \in keys : Count(keys, j) = Count(keys, k) => j = k
         /\ \A n \in 0..(Cardinality(keys) - 1) : \E k \in keys : Count(keys, k) = n
<1> SUFFICES ASSUME NEW c \in Nat, c = Cardinality(keys)
             PROVE  /\ \A k \in keys : Count(keys, k) \in 0..(c - 1)
                    /\ \A j, k \in keys : Count(keys, j) = Count(keys, k) => j = k
                    /\ \A n \in 0..(c - 1) : \E k \in keys : Count(keys, k) = n
  BY FS_CardinalityType
<1>1. ASSUME NEW k \in keys PROVE Count(keys, k) \in 0..(c - 1)
  <2> DEFINE B == {i \in keys : Earlier(i, k)}
  <2>1. k \notin B /\ B \subseteq keys
    <3>1. k[1] \in Nat /\ k[2] \in Nat
      BY SymbolsAreNumbers
    <3> QED BY <3>1 DEF Earlier
  <2>2. /\ IsFiniteSet(B) /\ Cardinality(B) <= c
        /\ c = Cardinality(B) => keys = B
    BY <2>1, FS_Subset
  <2>3. Cardinality(B) \in Nat /\ Cardinality(B) # c
    BY <2>1, <2>2, FS_CardinalityType
  <2>4. Cardinality(B) \in 0..(c - 1)
    BY <2>2, <2>3
  <2> QED BY <2>4 DEF Count
<1>2. ASSUME NEW j \in keys, NEW k \in keys, Count(keys, j) = Count(keys, k) PROVE j = k
  <2>1. j = k \/ Earlier(j, k) \/ Earlier(k, j)
    <3>1. j \in Symbol \X Nat /\ k \in Symbol \X Nat
      OBVIOUS
    <3>2. j[1] = k[1] /\ j[2] = k[2] => j = k
      BY ONLY <3>1
    <3>3. {j[1], j[2], k[1], k[2]} \subseteq Nat
      BY <3>1, SymbolsAreNumbers
    <3> QED BY <3>2, <3>3 DEF Earlier
  <2>2. Count(keys, j) \in Nat
    BY <1>1
  <2> QED BY <1>2, <2>1, <2>2, CountsDiffer
<1>3. \A n \in 0..(c - 1) : \E k \in keys : Count(keys, k) = n
  <2> DEFINE T == 0..(c - 1)
             f == [k \in keys |-> Count(keys, k)]
  <2>1. f \in Injection(keys, T)
    BY <1>1, <1>2, Fun_IsInj
  <2>2. IsFiniteSet(T) /\ Cardinality(T) = c
    <3> SUFFICES ASSUME NEW d \in Int, d = c - 1 PROVE IsFiniteSet(0..d) /\ Cardinality(0..d) = c
      BY c - 1 \in Int
    <3>1. IsFiniteSet(0..d) /\ Cardinality(0..d) = IF 0 > d THEN 0 ELSE d - 0 + 1
      BY ONLY FS_Interval, 0 \in Int, d \in Int
    <3> QED BY <3>1
  <2>3. f \in Surjection(keys, T)
    BY <2>1, <2>2, FS_Injection
  <2> QED BY <2>3 DEF Surjection
<1> QED BY <1>1, <1>2, <1>3

\* The sorted sequence holds the bars of the set, all of them.
LEMMA SortedBars ==
  ASSUME NEW keys, IsFiniteSet(keys), keys \subseteq Symbol \X Nat
  PROVE  /\ Chronological(keys) \in Seq(keys)
         /\ \A k \in keys : \E n \in 1..Len(Chronological(keys)) : Chronological(keys)[n] = k
<1> SUFFICES ASSUME NEW c \in Nat, c = Cardinality(keys), NEW s, s = Chronological(keys)
             PROVE  s \in Seq(keys) /\ \A k \in keys : \E n \in 1..Len(s) : s[n] = k
  BY FS_CardinalityType
<1>1. s = [n \in 1..c |-> CHOOSE k \in keys : Count(keys, k) = n - 1]
  BY DEF Chronological, Count
<1>2. ASSUME NEW n \in 1..c PROVE s[n] \in keys /\ Count(keys, s[n]) = n - 1
  <2>1. n - 1 \in 0..(c - 1)
    OBVIOUS
  <2>2. \E k \in keys : Count(keys, k) = n - 1
    BY <2>1, CountIsRank
  <2>3. s[n] = CHOOSE k \in keys : Count(keys, k) = n - 1
    BY <1>1
  <2> QED BY <2>2, <2>3
<1>3. s \in Seq(keys) /\ Len(s) = c
  <2>1. s \in [1..c -> keys]
    BY <1>1, <1>2
  <2> QED BY <2>1
<1>4. ASSUME NEW k \in keys PROVE \E n \in 1..c : s[n] = k
  <2>1. Count(keys, k) \in 0..(c - 1)
    BY CountIsRank
  <2>2. PICK n \in 1..c : n - 1 = Count(keys, k)
    <3>1. Count(keys, k) + 1 \in 1..c /\ (Count(keys, k) + 1) - 1 = Count(keys, k)
      BY <2>1
    <3> QED BY <3>1
  <2>3. s[n] \in keys /\ Count(keys, s[n]) = Count(keys, k)
    BY <1>2, <2>2
  <2> QED BY <2>3, CountIsRank
<1> QED BY <1>3, <1>4

-----------------------------------------------------------------------------
(* The inductive invariant.                                                *)

Shaped(t) == t.outcome \in Outcomes /\ t.tranches \in 0..3 /\ {"outcome", "tranches"} \subseteq DOMAIN t

\* The bars of the market have closed, and the work of an ingest is on them.
Typed ==
  /\ LiveTypeOK
  /\ DOMAIN market \subseteq Symbol \X (1..now)
  /\ \A p \in DOMAIN trades : Shaped(trades[p])
  /\ \A p \in DOMAIN tradeRow : Shaped(tradeRow[p])
  /\ todo \in Seq(Symbol \X Nat)
  /\ \A n \in 1..Len(todo) : todo[n] \in DOMAIN market

\* Work is in hand only during an ingest; what it settles has an outcome.
Working ==
  /\ bar = NoBar => settling = {}
  /\ settling \subseteq {p \in DOMAIN trades : trades[p].outcome \in Resolved}
  /\ pc # "ingest" => settling = {} /\ setups = <<>> /\ bar = NoBar
  /\ pc \in {"down", "unbooted"} => ~started

Mirrored == alerts = [p \in DOMAIN alerts |-> alerts[p]] /\ StoreMirrorsMemory

\* A settled row is what the memory holds, unless the memory is gone: no write
\* that can still happen differs from it.
Final ==
  pc \in {"idle", "ingest"} =>
    \A p \in DOMAIN tradeRow :
      tradeRow[p].outcome \in Resolved => p \in DOMAIN trades /\ trades[p] = tradeRow[p]

\* During an ingest every bar in the reach of a poll has been seen or is still
\* to come, and only a poll after the close keeps new entries out.
InHand(k) == k \in seen \/ \E n \in 1..Len(todo) : todo[n] = k
Caught ==
  /\ caughtUp \in Int /\ caughtUp <= now /\ (~started => caughtUp = -1)
  /\ CatchUpLeavesNoBar
  /\ pc = "ingest" =>
       /\ \A k \in DOMAIN market : k[1] \notin partial /\ k[2] > now - PollWindow => InHand(k)
       /\ started /\ ~entries => ~InSession(now)

LoopInv == Typed /\ Working /\ Mirrored /\ Final /\ Caught

-----------------------------------------------------------------------------
(* The operators the steps use.                                            *)

\* Whatever a bar does to a trade, its outcome is one of the ledger's.
LEMMA AdvanceShape ==
  ASSUME NEW terms, NEW trade, NEW created, NEW t, NEW b, NEW late, Shaped(trade)
  PROVE  Shaped(Advance(terms, trade, created, t, b, late))
<1>0. \A r, o, x, y : Shaped(r) /\ o \in Outcomes => Shaped(Resolve(r, o, x, y))
  BY DEF Shaped, Resolve
<1>1. Shaped(Fill(terms, trade, created, t, b))
  <2> DEFINE filled == [trade EXCEPT !.outcome = "OPEN", !.filled = t]
  <2>1. Shaped(filled)
    BY DEF Shaped, Outcomes, Unresolved
  <2>2. {"EXPIRED_UNFILLED", "STOPPED"} \subseteq Outcomes
    BY DEF Outcomes, Resolved
  <2> HIDE DEF filled
  <2>3. \A x, y : Shaped(Resolve(trade, "EXPIRED_UNFILLED", x, y)) /\ Shaped(Resolve(filled, "STOPPED", x, y))
    BY <1>0, <2>1, <2>2
  <2> QED BY <2>1, <2>3 DEF Fill, filled
<1>2. Shaped(Manage(terms, trade, t, b, late))
  <2> DEFINE n   == trade.tranches
             Hit(m) == /\ \A i \in (n + 1)..m : Reached(terms, b, terms.targets[i])
                       /\ m < 3 => ~Reached(terms, b, terms.targets[m + 1])
             hit == CHOOSE m \in n..3 : Hit(m)
             next == [trade EXCEPT !.tranches = hit]
  <2>1. n \in 0..3
    BY DEF Shaped
  <2>2. \E m \in n..3 : Hit(m)
    <3> DEFINE R(i) == Reached(terms, b, terms.targets[i])
    <3> HIDE DEF R
    <3>1. \E m \in n..3 : (\A i \in (n + 1)..m : R(i)) /\ (m < 3 => ~R(m + 1))
      <4>1. CASE \A i \in (n + 1)..3 : R(i)
        BY <2>1, <4>1
      <4>2. CASE \E i \in (n + 1)..3 : ~R(i)
        <5>1. CASE n + 1 <= 3 /\ ~R(n + 1)
          BY <2>1, <5>1
        <5>2. CASE n + 2 <= 3 /\ R(n + 1) /\ ~R(n + 2)
          BY <2>1, <5>2
        <5>3. CASE n + 3 <= 3 /\ R(n + 1) /\ R(n + 2) /\ ~R(n + 3)
          BY <2>1, <5>3
        <5> QED BY <2>1, <4>2, <5>1, <5>2, <5>3
      <4> QED BY <4>1, <4>2
    <3> QED BY <3>1 DEF R
  <2>3. hit \in 0..3
    <3> HIDE DEF Hit
    <3>1. hit \in n..3
      BY <2>2
    <3> HIDE DEF hit
    <3> QED BY <3>1, <2>1
  <2> HIDE DEF hit
  <2>4. Shaped(next)
    BY <2>3 DEF Shaped
  <2>5. Resolved \subseteq Outcomes
    BY DEF Outcomes
  <2> HIDE DEF next
  <2>6. \A o \in Resolved : \A x, y : Shaped(Resolve(trade, o, x, y)) /\ Shaped(Resolve(next, o, x, y))
    BY <1>0, <2>4, <2>5
  <2>7. Manage(terms, trade, t, b, late) \in
          {next} \cup {Resolve(r, o, t, y) : r \in {trade, next}, o \in Resolved,
                       y \in {ProfitAt(terms, n, IF n >= 1 THEN terms.entry ELSE terms.stop),
                              ProfitAt(terms, 3, terms.entry), ProfitAt(terms, hit, b.close)}}
    BY DEF Manage, next, hit, Resolved
  <2> QED BY <2>4, <2>6, <2>7
<1> QED BY <1>1, <1>2 DEF Advance

\* What a boot or a poll is about to work through.
LEMMA FetchedBars ==
  ASSUME LoopInv, NEW keys, keys \subseteq DOMAIN market
  PROVE  /\ Chronological(keys) \in Seq(Symbol \X Nat)
         /\ \A n \in 1..Len(Chronological(keys)) : Chronological(keys)[n] \in DOMAIN market
         /\ \A k \in keys : \E n \in 1..Len(Chronological(keys)) : Chronological(keys)[n] = k
<1>1. now \in Nat /\ DOMAIN market \subseteq Symbol \X (1..now)
  BY SessionsHaveBars DEF LoopInv, Typed, LiveTypeOK
<1>2. 1..now \subseteq Nat
  BY <1>1
<1>3. IsFiniteSet(1..now)
  BY ONLY <1>1, FS_Interval, 1 \in Int, now \in Int
<1>4. IsFiniteSet(Symbol \X (1..now))
  BY ONLY <1>3, SymbolsAreNumbers, FS_Product
<1>5. IsFiniteSet(keys) /\ keys \subseteq Symbol \X Nat
  <2>1. keys \subseteq Symbol \X (1..now)
    BY <1>1
  <2> QED BY <2>1, <1>2, <1>4, FS_Subset
<1> SUFFICES ASSUME NEW s, s \in Seq(keys), \A k \in keys : \E n \in 1..Len(s) : s[n] = k
             PROVE  /\ s \in Seq(Symbol \X Nat)
                    /\ \A n \in 1..Len(s) : s[n] \in DOMAIN market
                    /\ \A k \in keys : \E n \in 1..Len(s) : s[n] = k
  BY <1>5, SortedBars
<1>6. \A n \in 1..Len(s) : s[n] \in keys
  BY ONLY s \in Seq(keys), ElementOfSeq
<1>7. s \in Seq(Symbol \X Nat)
  BY ONLY s \in Seq(keys), <1>5, <1>6
<1> QED BY <1>6, <1>7

-----------------------------------------------------------------------------
(* The steps.                                                              *)

LEMMA LoopInit ==
  ASSUME LiveInit
  PROVE  LoopInv
<1>1. Typed
  <2>1. LiveTypeOK
    <3>1. now \in 0..LastTick /\ faults \in 0..MaxFaults
      BY SessionsHaveBars DEF LiveInit
    <3>2. storeUp \in BOOLEAN /\ started \in BOOLEAN /\ ready \in BOOLEAN /\ slipped \in BOOLEAN
      BY Zenon DEF LiveInit
    <3> QED BY <3>1, <3>2 DEF LiveInit, LiveTypeOK, NoPlan
  <2> QED BY <2>1 DEF LiveInit, Typed, NoPlan
<1>2. Working
  BY DEF LiveInit, Working
<1>3. Mirrored
  BY DEF LiveInit, Mirrored, StoreMirrorsMemory, NoPlan
<1>4. Final
  BY DEF LiveInit, Final
<1>5. Caught
  BY DEF LiveInit, Caught, CatchUpLeavesNoBar
<1> QED BY <1>1, <1>2, <1>3, <1>4, <1>5 DEF LoopInv

LEMMA TickKeeps ==
  ASSUME LoopInv, Tick
  PROVE  LoopInv'
<1> USE DEF store, work, memory, history
<1>1. now \in Nat /\ now' = now + 1 /\ now' \in 0..LastTick /\ pc # "ingest"
  BY SessionsHaveBars DEF LoopInv, Typed, LiveTypeOK, Tick
<1>2. UNCHANGED <<faults, pc, store, work, memory, history>>
  BY DEF Tick
<1>3. /\ DOMAIN market \subseteq DOMAIN market'
      /\ \A k \in DOMAIN market' : k \in DOMAIN market \/ k \in Symbol \X {now'}
  <2>1. CASE UNCHANGED market
    BY <2>1
  <2>2. CASE ~(UNCHANGED market)
    <3>1. PICK b, g : market' = Printed(b, g, now')
      BY <2>2 DEF Tick
    <3>2. DOMAIN market' = DOMAIN market \cup {<<s, now'>> : s \in Symbol}
      BY <3>1 DEF Printed
    <3> QED BY <3>2
  <2> QED BY <2>1, <2>2
<1>4. DOMAIN market' \subseteq Symbol \X (1..now')
  <2>1. 1..now \subseteq 1..now' /\ now' \in 1..now'
    BY <1>1
  <2>2. DOMAIN market \subseteq Symbol \X (1..now)
    BY DEF LoopInv, Typed
  <2>3. ASSUME NEW k \in DOMAIN market' PROVE k \in Symbol \X (1..now')
    <3>1. k \in Symbol \X (1..now) \/ k \in Symbol \X {now'}
      BY <1>3, <2>2
    <3> QED BY <3>1, <2>1
  <2> QED BY <2>3
<1>5. Typed'
  <2>1. LiveTypeOK'
    BY <1>1, <1>2, <1>3 DEF LoopInv, Typed, LiveTypeOK
  <2> QED BY <1>2, <1>3, <1>4, <2>1 DEF LoopInv, Typed
<1>6. Working'
  BY <1>2 DEF LoopInv, Working
<1>7. Mirrored'
  BY <1>2 DEF LoopInv, Mirrored, StoreMirrorsMemory
<1>8. Final'
  BY <1>2 DEF LoopInv, Final
<1>9. Caught'
  <2>1. \A k \in DOMAIN market' : k \in DOMAIN market \/ k[2] = now'
    BY <1>3
  <2>2. CatchUpLeavesNoBar'
    BY <1>1, <1>2, <2>1 DEF LoopInv, Caught, CatchUpLeavesNoBar
  <2> QED BY <1>1, <1>2, <2>2 DEF LoopInv, Caught
<1> QED BY <1>5, <1>6, <1>7, <1>8, <1>9 DEF LoopInv

\* Neither the store's outages nor a restart of the process touch the rest.
LEMMA OutageKeeps ==
  ASSUME LoopInv, StoreFails \/ StoreRecovers \/ Restart
  PROVE  LoopInv'
<1> USE DEF work, memory, history
<1>1. /\ faults' \in 0..MaxFaults /\ storeUp' \in BOOLEAN
      /\ pc' = pc \/ (pc = "down" /\ pc' = "unbooted")
      /\ UNCHANGED <<now, market, alertRow, tradeRow, work, memory, history>>
  <2>1. CASE StoreFails
    <3>1. faults' \in 0..MaxFaults
      BY <2>1, SessionsHaveBars DEF LoopInv, Typed, LiveTypeOK, StoreFails
    <3> QED BY Zenon, <2>1, <3>1 DEF StoreFails
  <2>2. CASE StoreRecovers
    BY <2>2 DEF LoopInv, Typed, LiveTypeOK, StoreRecovers
  <2>3. CASE Restart
    BY <2>3 DEF LoopInv, Typed, LiveTypeOK, Restart, store
  <2> QED BY <2>1, <2>2, <2>3
<1>2. Typed'
  <2>1. LiveTypeOK'
    BY <1>1 DEF LoopInv, Typed, LiveTypeOK
  <2> QED BY <1>1, <2>1 DEF LoopInv, Typed
<1>3. Working'
  BY <1>1 DEF LoopInv, Working
<1>4. Mirrored'
  BY <1>1 DEF LoopInv, Mirrored, StoreMirrorsMemory
<1>5. Final'
  BY <1>1 DEF LoopInv, Final
<1>6. Caught'
  BY <1>1 DEF LoopInv, Caught, CatchUpLeavesNoBar, InHand
<1> QED BY <1>2, <1>3, <1>4, <1>5, <1>6 DEF LoopInv

LEMMA CrashKeeps ==
  ASSUME LoopInv, Crash
  PROVE  LoopInv'
<1> USE DEF store
<1>1. /\ pc' = "down" /\ faults' \in 0..MaxFaults /\ UNCHANGED <<now, market, store>>
      /\ FreshMemory
  BY SessionsHaveBars DEF LoopInv, Typed, LiveTypeOK, Crash
<1>2. Typed'
  <2>1. LiveTypeOK'
    BY <1>1 DEF LoopInv, Typed, LiveTypeOK, FreshMemory, NoWork, NoPlan
  <2> QED BY <1>1, <2>1 DEF LoopInv, Typed, FreshMemory, NoWork, NoPlan
<1>3. Working'
  BY <1>1 DEF Working, FreshMemory, NoWork
<1>4. Mirrored'
  BY <1>1 DEF Mirrored, StoreMirrorsMemory, FreshMemory, NoPlan
<1>5. Final'
  BY <1>1 DEF Final
<1>6. Caught'
  <2>1. now \in Nat
    BY SessionsHaveBars DEF LoopInv, Typed, LiveTypeOK
  <2> QED BY <1>1, <2>1 DEF Caught, CatchUpLeavesNoBar, FreshMemory
<1> QED BY <1>2, <1>3, <1>4, <1>5, <1>6 DEF LoopInv

LEMMA BootKeeps ==
  ASSUME LoopInv, Boot
  PROVE  LoopInv'
<1>1. /\ pc = "unbooted" /\ ~started /\ caughtUp = -1 /\ settling = {} /\ setups = <<>> /\ bar = NoBar
      /\ now \in Nat
  BY SessionsHaveBars DEF LoopInv, Typed, LiveTypeOK, Working, Caught, Boot
<1>2. /\ ready' = TRUE /\ trades' = tradeRow /\ seen' = {} /\ slipped' = FALSE
      /\ UNCHANGED <<now, market, faults, storeUp, tradeRow, started, caughtUp, bar, settling, setups>>
  BY DEF Boot, RestoredTrades
<1>3. PICK bad \in BadFeeds, dailyOk \in BOOLEAN, gone \in SUBSET DOMAIN alertRow :
        /\ alerts' = [p \in DOMAIN alertRow |-> IF p \in gone THEN "CANCELLED" ELSE alertRow[p]]
        /\ alertRow' = alerts'
        /\ \/ /\ pc' = "ingest" /\ partial' = bad
              /\ todo' = Chronological(Fetched(bad, ReplayWindow))
           \/ UNCHANGED <<pc, todo>>
  BY DEF Boot
<1>4. \A k \in DOMAIN market : k[1] \notin bad /\ k[2] > now - PollWindow => k \in Fetched(bad, ReplayWindow)
  <2>1. \A k \in DOMAIN market : k[2] \in Int
    BY DEF LoopInv, Typed
  <2> QED BY <1>1, <2>1, WindowsAreOrdered DEF Fetched
<1>5. /\ todo' \in Seq(Symbol \X Nat) /\ \A n \in 1..Len(todo') : todo'[n] \in DOMAIN market
      /\ pc' = "ingest" =>
           \A k \in Fetched(bad, ReplayWindow) : \E n \in 1..Len(todo') : todo'[n] = k
  <2>1. CASE pc' = "ingest" /\ todo' = Chronological(Fetched(bad, ReplayWindow))
    <3>1. Fetched(bad, ReplayWindow) \subseteq DOMAIN market
      BY DEF Fetched
    <3> QED BY <2>1, <3>1, FetchedBars
  <2>2. CASE UNCHANGED <<pc, todo>>
    BY <2>2, <1>1 DEF LoopInv, Typed
  <2> QED BY <1>3, <2>1, <2>2
<1>6. Typed'
  <2>1. LiveTypeOK'
    <3>1. \A p \in DOMAIN alertRow' : alertRow'[p] \in {"ACTIVE", "SHADOW", "CANCELLED"}
      BY <1>3 DEF LoopInv, Typed, LiveTypeOK
    <3>2. \A p \in DOMAIN trades' : trades'[p].outcome \in Outcomes /\ trades'[p].tranches \in 0..3
      BY <1>2 DEF LoopInv, Typed, Shaped
    <3> QED BY <1>2, <1>3, <3>1, <3>2 DEF LoopInv, Typed, LiveTypeOK
  <2> QED BY <1>2, <1>5, <2>1 DEF LoopInv, Typed
<1>7. Working'
  BY <1>1, <1>2, <1>3 DEF Working
<1>8. Mirrored'
  BY <1>2, <1>3 DEF Mirrored, StoreMirrorsMemory
<1>9. Final'
  BY <1>2 DEF Final
<1>10. Caught'
  <2>1. pc' = "ingest" => partial' = bad
    BY <1>1, <1>3
  <2> QED BY <1>1, <1>2, <1>4, <1>5, <2>1 DEF Caught, CatchUpLeavesNoBar, InHand
<1> QED BY <1>6, <1>7, <1>8, <1>9, <1>10 DEF LoopInv

LEMMA PollKeeps ==
  ASSUME LoopInv, Poll
  PROVE  LoopInv'
<1>1. /\ pc = "idle" /\ settling = {} /\ setups = <<>> /\ bar = NoBar /\ now \in Nat
      /\ InSession(now) \/ CatchUpDue
  BY SessionsHaveBars DEF LoopInv, Typed, LiveTypeOK, Working, Poll
<1>2. UNCHANGED <<now, market, faults, storeUp, tradeRow, started, trades, seen, caughtUp, bar,
                  settling, setups, slipped>>
  BY DEF Poll, history
<1>3. PICK bad, gone :
        /\ alerts' = [p \in DOMAIN alerts |-> IF p \in gone THEN "CANCELLED" ELSE alerts[p]]
        /\ alertRow' = IF ready /\ storeUp
                       THEN [p \in DOMAIN alertRow |-> IF p \in gone THEN "CANCELLED" ELSE alertRow[p]]
                       ELSE alertRow
        /\ ready' = (ready /\ (storeUp \/ gone = {}))
        /\ \/ UNCHANGED <<pc, todo>>
           \/ /\ pc' = "ingest" /\ partial' = bad /\ entries' = ~CatchUpDue
              /\ todo' = Chronological(Fetched(bad, PollWindow) \ seen)
  BY Zenon DEF Poll
<1>4. /\ todo' \in Seq(Symbol \X Nat) /\ \A n \in 1..Len(todo') : todo'[n] \in DOMAIN market
      /\ pc' = "ingest" =>
           \A k \in Fetched(bad, PollWindow) \ seen : \E n \in 1..Len(todo') : todo'[n] = k
  <2>1. CASE pc' = "ingest" /\ todo' = Chronological(Fetched(bad, PollWindow) \ seen)
    <3>1. Fetched(bad, PollWindow) \ seen \subseteq DOMAIN market
      BY DEF Fetched
    <3> QED BY <2>1, <3>1, FetchedBars
  <2>2. CASE UNCHANGED <<pc, todo>>
    BY <2>2, <1>1 DEF LoopInv, Typed
  <2> QED BY <1>3, <2>1, <2>2
<1>5. Typed'
  <2>1. LiveTypeOK'
    <3>1. \A p \in DOMAIN alertRow' : alertRow'[p] \in {"ACTIVE", "SHADOW", "CANCELLED"}
      BY <1>3 DEF LoopInv, Typed, LiveTypeOK
    <3>2. ready' \in BOOLEAN /\ pc' \in {"idle", "ingest"}
      BY <1>1, <1>3
    <3> QED BY <1>2, <3>1, <3>2 DEF LoopInv, Typed, LiveTypeOK
  <2> QED BY <1>2, <1>4, <2>1 DEF LoopInv, Typed
<1>6. Working'
  BY <1>1, <1>2, <1>3 DEF Working
<1>7. Mirrored'
  <2>1. alerts' = [p \in DOMAIN alerts' |-> alerts'[p]]
    BY <1>3
  <2>2. CASE ready' /\ ~slipped
    <3>1. alertRow = alerts /\ ready
      BY <1>1, <1>3, <2>2 DEF LoopInv, Mirrored, StoreMirrorsMemory
    <3>2. alertRow' = alerts'
      <4>1. CASE storeUp
        BY <1>3, <3>1, <4>1
      <4>2. CASE ~storeUp /\ gone = {}
        <5>1. alerts' = alerts
          BY <1>3, <4>2 DEF LoopInv, Mirrored
        <5> QED BY <1>3, <3>1, <4>2, <5>1
      <4> QED BY <1>3, <2>2, <4>1, <4>2
    <3> QED BY <1>1, <1>2, <2>1, <2>2, <3>1, <3>2 DEF LoopInv, Mirrored, StoreMirrorsMemory
  <2> QED BY <1>2, <2>1, <2>2 DEF Mirrored, StoreMirrorsMemory
<1>8. Final'
  BY <1>1, <1>2 DEF LoopInv, Final
<1>9. Caught'
  <2>1. CatchUpLeavesNoBar' /\ caughtUp' \in Int /\ caughtUp' <= now' /\ (~started' => caughtUp' = -1)
    BY <1>2 DEF LoopInv, Caught, CatchUpLeavesNoBar
  <2>2. ASSUME pc' = "ingest", NEW k \in DOMAIN market', k[1] \notin partial', k[2] > now' - PollWindow
        PROVE  InHand(k)'
    <3>1. partial' = bad
      BY <1>1, <1>3, <2>2
    <3>2. k \in Fetched(bad, PollWindow)
      BY <1>2, <2>2, <3>1 DEF Fetched
    <3> QED BY <1>2, <1>4, <2>2, <3>2 DEF InHand
  <2>3. pc' = "ingest" /\ ~entries' => ~InSession(now')
    BY <1>1, <1>2, <1>3 DEF CatchUpDue
  <2> QED BY <2>1, <2>2, <2>3 DEF Caught
<1> QED BY <1>5, <1>6, <1>7, <1>8, <1>9 DEF LoopInv

LEMMA TakeBarKeeps ==
  ASSUME LoopInv, TakeBar
  PROVE  LoopInv'
<1> DEFINE k == Head(todo)
           mine == {p \in Active : p.symbol = k[1]}
           next(p) == Advance(Terms[p.strategy], trades[p], p.at, k[2], market[<<k[1], k[2]>>].bar, Late(k[2]))
<1>1. /\ pc = "ingest" /\ bar = NoBar /\ settling = {} /\ todo # <<>> /\ now \in Nat
      /\ todo \in Seq(Symbol \X Nat)
  BY SessionsHaveBars DEF LoopInv, Typed, LiveTypeOK, Working, TakeBar
<1>2. /\ UNCHANGED <<now, market, faults, pc, storeUp, alertRow, tradeRow, started, ready, alerts,
                     caughtUp, entries, partial, setups, slipped>>
      /\ bar' = k /\ todo' = Tail(todo) /\ seen' = seen \cup {<<k[1], k[2]>>}
      /\ trades' = [p \in DOMAIN trades |-> IF p \in mine THEN next(p) ELSE trades[p]]
      /\ settling' = {p \in mine : next(p).outcome \in Resolved}
  BY DEF TakeBar, store
<1> HIDE DEF next
<1>3. /\ k = todo[1] /\ 1 \in 1..Len(todo) /\ Tail(todo) \in Seq(Symbol \X Nat)
      /\ Len(todo) \in Nat /\ Len(Tail(todo)) = Len(todo) - 1
      /\ \A n \in 1..Len(Tail(todo)) : Tail(todo)[n] = todo[n + 1]
  BY ONLY <1>1, HeadTailProperties
<1> HIDE DEF k
<1>4. k \in DOMAIN market /\ k \in Symbol \X (1..now) /\ <<k[1], k[2]>> = k /\ k # NoBar
  <2>1. k \in DOMAIN market /\ k \in Symbol \X (1..now)
    BY <1>3 DEF LoopInv, Typed
  <2>2. k[2] >= 1
    BY <2>1
  <2> QED BY <2>1, <2>2 DEF NoBar
<1>5. \A p \in mine : p \in DOMAIN trades /\ Shaped(next(p)) /\ trades[p].outcome \in Unresolved
  BY AdvanceShape DEF LoopInv, Typed, Active, next
<1>6. \A p \in DOMAIN trades : trades'[p] = trades[p] \/ (p \in mine /\ trades'[p] = next(p))
  <2> HIDE DEF mine
  <2>1. trades' = [p \in DOMAIN trades |-> IF p \in mine THEN next(p) ELSE trades[p]]
    BY <1>2
  <2>2. ASSUME NEW p \in DOMAIN trades PROVE trades'[p] = IF p \in mine THEN next(p) ELSE trades[p]
    BY <2>1
  <2> QED BY <2>2
<1>7. Typed'
  <2>1. \A p \in DOMAIN trades' : Shaped(trades'[p])
    BY <1>2, <1>5, <1>6 DEF LoopInv, Typed
  <2>2. LiveTypeOK'
    BY <1>2, <1>4, <2>1 DEF LoopInv, Typed, LiveTypeOK, Shaped
  <2>3. \A n \in 1..Len(todo') : todo'[n] \in DOMAIN market'
    <3>1. \A n \in 1..Len(Tail(todo)) : n + 1 \in 1..Len(todo)
      BY <1>3
    <3> QED BY <1>2, <1>3, <3>1 DEF LoopInv, Typed
  <2> QED BY <1>2, <1>3, <2>1, <2>2, <2>3 DEF LoopInv, Typed
<1>8. Working'
  <2>1. settling' \subseteq {p \in DOMAIN trades' : trades'[p].outcome \in Resolved}
    BY <1>2, <1>5
  <2> QED BY <1>1, <1>2, <1>4, <2>1 DEF Working
<1>9. \A p \in DOMAIN trades : trades[p].outcome \in Resolved => trades'[p] = trades[p]
  BY <1>5, <1>6 DEF Resolved, Unresolved
<1>10. Mirrored'
  <2>1. CASE ready /\ ~slipped
    <3>1. /\ alertRow = alerts /\ DOMAIN tradeRow = DOMAIN trades
          /\ \A p \in DOMAIN trades : trades[p].outcome \in Resolved => tradeRow[p] = trades[p]
      BY <1>1, <2>1 DEF LoopInv, Mirrored, StoreMirrorsMemory
    <3>2. \A p \in DOMAIN trades \ settling' :
            trades'[p].outcome \in Resolved => trades'[p] = trades[p]
      BY <1>2, <1>6
    <3> QED BY <1>2, <2>1, <3>1, <3>2 DEF LoopInv, Mirrored, StoreMirrorsMemory
  <2> QED BY <1>2, <2>1 DEF LoopInv, Mirrored, StoreMirrorsMemory
<1>11. Final'
  BY <1>1, <1>2, <1>9 DEF LoopInv, Final
<1>12. Caught'
  <2>1. CatchUpLeavesNoBar'
    BY <1>2 DEF LoopInv, Caught, CatchUpLeavesNoBar
  <2>2. ASSUME NEW j, InHand(j) PROVE InHand(j)'
    <3>1. CASE j \in seen
      BY <1>2, <3>1 DEF InHand
    <3>2. CASE \E n \in 1..Len(todo) : todo[n] = j
      <4>1. PICK n \in 1..Len(todo) : todo[n] = j
        BY <3>2
      <4>2. CASE n = 1
        BY <1>2, <1>3, <1>4, <4>1, <4>2 DEF InHand
      <4>3. CASE n # 1
        <5>1. n - 1 \in 1..Len(Tail(todo)) /\ (n - 1) + 1 = n
          BY <1>3, <4>3
        <5>2. Tail(todo)[n - 1] = j
          BY <1>3, <4>1, <5>1
        <5> QED BY <1>2, <5>1, <5>2 DEF InHand
      <4> QED BY <4>2, <4>3
    <3> QED BY <2>2, <3>1, <3>2 DEF InHand
  <2> QED BY <1>2, <2>1, <2>2 DEF LoopInv, Caught
<1> QED BY <1>7, <1>8, <1>10, <1>11, <1>12 DEF LoopInv

\* A step that goes on with the work, or abandons it, leaves out no bar.
LEMMA WorkKeeps ==
  ASSUME LoopInv, pc = "ingest",
         UNCHANGED <<now, market, started, ready, seen, caughtUp>>,
         Abandon \/ UNCHANGED <<todo, entries, partial, bar, pc, slipped>>
  PROVE  /\ Caught'
         /\ todo' \in Seq(Symbol \X Nat) /\ \A n \in 1..Len(todo') : todo'[n] \in DOMAIN market
         /\ bar' \in DOMAIN market \cup {NoBar} /\ slipped' \in BOOLEAN
         /\ pc' \in {"ingest", "idle"} \/ (pc' = "unbooted" /\ ~started)
<1>1. CASE Abandon
  <2>1. /\ todo' = <<>> /\ bar' = NoBar /\ slipped' = TRUE
        /\ pc' = IF started THEN "idle" ELSE "unbooted"
    BY <1>1 DEF Abandon, NoWork
  <2>2. Caught'
    BY <2>1 DEF LoopInv, Caught, CatchUpLeavesNoBar
  <2> QED BY <2>1, <2>2
<1>2. CASE UNCHANGED <<todo, entries, partial, bar, pc, slipped>>
  <2>1. Caught'
    BY <1>2 DEF LoopInv, Caught, CatchUpLeavesNoBar, InHand
  <2> QED BY <1>2, <2>1 DEF LoopInv, Typed, LiveTypeOK
<1> QED BY <1>1, <1>2

LEMMA SettleKeeps ==
  ASSUME LoopInv, NEW p \in settling, Settle(p)
  PROVE  LoopInv'
<1>1. /\ pc = "ingest" /\ p \in DOMAIN trades /\ trades[p].outcome \in Resolved
      /\ bar # NoBar
  BY DEF LoopInv, Working
<1>2. UNCHANGED <<now, market, storeUp, alertRow, started, ready, alerts, trades, seen, caughtUp>>
  BY DEF Settle
<1>3. tradeRow' = IF ready /\ storeUp THEN With(tradeRow, p, trades[p]) ELSE tradeRow
  BY DEF Settle, Upsert
<1>4. \/ /\ UNCHANGED <<todo, entries, partial, bar, setups, pc, faults, slipped>>
         /\ settling' = settling \ {p} /\ (storeUp \/ ~ready)
      \/ Abandon /\ faults' \in 0..MaxFaults
  <2>1. faults \in 0..MaxFaults /\ (faults < MaxFaults => faults + 1 \in 0..MaxFaults)
    BY SessionsHaveBars DEF LoopInv, Typed, LiveTypeOK
  <2> QED BY Zenon, <2>1 DEF Settle
<1>5. /\ Caught'
      /\ todo' \in Seq(Symbol \X Nat) /\ \A n \in 1..Len(todo') : todo'[n] \in DOMAIN market
      /\ bar' \in DOMAIN market \cup {NoBar} /\ slipped' \in BOOLEAN
      /\ pc' \in {"ingest", "idle"} \/ (pc' = "unbooted" /\ ~started)
  BY <1>1, <1>2, <1>4, WorkKeeps
<1>6. \A q \in DOMAIN tradeRow' : \/ q \in DOMAIN tradeRow /\ tradeRow'[q] = tradeRow[q]
                                  \/ q = p /\ tradeRow'[q] = trades[p]
  BY <1>3 DEF With
<1>7. Typed'
  <2>1. faults' \in 0..MaxFaults
    BY <1>4 DEF LoopInv, Typed, LiveTypeOK
  <2>2. LiveTypeOK'
    BY <1>2, <1>5, <2>1 DEF LoopInv, Typed, LiveTypeOK
  <2>3. \A q \in DOMAIN tradeRow' : Shaped(tradeRow'[q])
    BY <1>1, <1>6 DEF LoopInv, Typed
  <2> QED BY <1>2, <1>5, <2>2, <2>3 DEF LoopInv, Typed
<1>8. Working'
  <2>1. CASE Abandon
    BY <1>2, <1>5, <2>1 DEF Working, Abandon, NoWork
  <2>2. CASE UNCHANGED <<bar, setups, pc>> /\ settling' = settling \ {p}
    BY <1>1, <1>2, <2>2 DEF LoopInv, Working
  <2> QED BY <1>4, <2>1, <2>2
<1>9. Mirrored'
  <2>1. CASE slipped'
    BY <1>2, <2>1 DEF LoopInv, Mirrored, StoreMirrorsMemory
  <2>2. CASE ~ready
    BY <1>2, <2>2 DEF LoopInv, Mirrored, StoreMirrorsMemory
  <2>3. CASE ~slipped' /\ ready
    <3>1. /\ settling' = settling \ {p} /\ storeUp /\ slipped' = slipped
      BY <1>4, <2>3 DEF Abandon
    <3>2. /\ alertRow = alerts /\ DOMAIN tradeRow = DOMAIN trades
          /\ \A q \in DOMAIN trades \ settling : trades[q].outcome \in Resolved => tradeRow[q] = trades[q]
      BY <1>1, <2>3, <3>1 DEF LoopInv, Mirrored, StoreMirrorsMemory
    <3>3. tradeRow' = With(tradeRow, p, trades[p])
      BY <1>3, <2>3, <3>1
    <3>4. DOMAIN tradeRow' = DOMAIN trades /\ tradeRow'[p] = trades[p]
          /\ \A q \in DOMAIN trades : q # p => tradeRow'[q] = tradeRow[q]
      BY <1>1, <3>2, <3>3 DEF With
    <3> QED BY <1>2, <3>1, <3>2, <3>4 DEF LoopInv, Mirrored, StoreMirrorsMemory
  <2> QED BY <2>1, <2>2, <2>3
<1>10. Final'
  BY <1>1, <1>2, <1>6 DEF LoopInv, Final
<1> QED BY <1>5, <1>7, <1>8, <1>9, <1>10 DEF LoopInv

LEMMA EvaluateKeeps ==
  ASSUME LoopInv, Evaluate
  PROVE  LoopInv'
<1>1. /\ pc = "ingest" /\ settling = {} /\ bar' = NoBar
      /\ UNCHANGED <<now, market, faults, pc, store, memory, slipped, todo, entries, partial, settling>>
  BY DEF Evaluate, history
<1> USE DEF store, memory
<1>2. Typed'
  <2>1. LiveTypeOK'
    BY <1>1 DEF LoopInv, Typed, LiveTypeOK
  <2> QED BY <1>1, <2>1 DEF LoopInv, Typed
<1>3. Working'
  BY <1>1 DEF LoopInv, Working
<1>4. Mirrored'
  BY <1>1 DEF LoopInv, Mirrored, StoreMirrorsMemory
<1>5. Final'
  BY <1>1 DEF LoopInv, Final
<1>6. Caught'
  BY <1>1 DEF LoopInv, Caught, CatchUpLeavesNoBar, InHand
<1> QED BY <1>2, <1>3, <1>4, <1>5, <1>6 DEF LoopInv

LEMMA RecordKeeps ==
  ASSUME LoopInv, RecordSetup
  PROVE  LoopInv'
<1> DEFINE p       == Head(setups)
           isNew   == p \notin DOMAIN alerts
           tracked == p \notin DOMAIN trades
           goesOn  == UNCHANGED <<todo, entries, partial, bar, settling, pc, slipped>>
<1>1. pc = "ingest"
  BY DEF LoopInv, Working, RecordSetup
<1>2. UNCHANGED <<now, market, started, ready, seen, caughtUp>>
  BY DEF RecordSetup
<1>3. /\ alerts' = IF isNew THEN With(alerts, p, StatusOf(p)) ELSE alerts
      /\ \/ Abandon /\ UNCHANGED <<alertRow, trades, tradeRow, faults>>
         \/ /\ ~isNew \/ ~ready \/ storeUp
            /\ alertRow' = IF isNew /\ ready THEN With(alertRow, p, With(alerts, p, StatusOf(p))[p])
                           ELSE alertRow
            /\ trades' = IF tracked THEN With(trades, p, NewTrade) ELSE trades
            /\ \/ ~tracked /\ goesOn /\ UNCHANGED <<tradeRow, faults>>
               \/ /\ tracked /\ Abandon /\ UNCHANGED tradeRow
                  /\ faults < MaxFaults \/ ~storeUp
                  /\ faults' = IF storeUp THEN faults + 1 ELSE faults
               \/ /\ tracked
                  /\ tradeRow' = IF ready THEN With(tradeRow, p, NewTrade) ELSE tradeRow
                  /\ \/ goesOn /\ UNCHANGED faults
                     \/ Abandon /\ faults < MaxFaults /\ faults' = faults + 1
  BY Zenon DEF RecordSetup, Upsert
<1> HIDE DEF p
<1>4. Abandon \/ goesOn
  BY <1>3
<1>5. faults' \in 0..MaxFaults /\ storeUp' \in BOOLEAN
  <2>1. storeUp' = storeUp \/ storeUp' = FALSE
    BY DEF RecordSetup
  <2>2. faults' = faults \/ (faults < MaxFaults /\ faults' = faults + 1)
    BY <1>3
  <2>3. faults \in 0..MaxFaults /\ storeUp \in BOOLEAN
    BY DEF LoopInv, Typed, LiveTypeOK
  <2>4. faults' \in 0..MaxFaults
    BY <2>2, <2>3, SessionsHaveBars
  <2> QED BY <2>1, <2>3, <2>4
<1>6. /\ Caught'
      /\ todo' \in Seq(Symbol \X Nat) /\ \A n \in 1..Len(todo') : todo'[n] \in DOMAIN market
      /\ bar' \in DOMAIN market \cup {NoBar} /\ slipped' \in BOOLEAN
      /\ pc' \in {"ingest", "idle"} \/ (pc' = "unbooted" /\ ~started)
  BY <1>1, <1>2, <1>4, WorkKeeps
<1>7. /\ DOMAIN trades \subseteq DOMAIN trades' /\ \A q \in DOMAIN trades : trades'[q] = trades[q]
      /\ \A q \in DOMAIN trades' : q \in DOMAIN trades \/ trades'[q] = NewTrade
  BY <1>3 DEF With
<1>8. /\ DOMAIN tradeRow \subseteq DOMAIN tradeRow'
      /\ \A q \in DOMAIN tradeRow' : tradeRow'[q] = NewTrade \/ (q \in DOMAIN tradeRow /\ tradeRow'[q] = tradeRow[q])
  BY <1>3 DEF With
<1>9. Shaped(NewTrade) /\ NewTrade.outcome \notin Resolved
  BY DEF Shaped, NewTrade, Outcomes, Unresolved, Resolved
<1>10. Typed'
  <2>1. \A q \in DOMAIN alertRow' : alertRow'[q] \in {"ACTIVE", "SHADOW", "CANCELLED"}
    <3>1. StatusOf(p) \in {"ACTIVE", "SHADOW", "CANCELLED"} /\ With(alerts, p, StatusOf(p))[p] = StatusOf(p)
      BY DEF StatusOf, With
    <3>2. CASE alertRow' = alertRow
      BY <3>2 DEF LoopInv, Typed, LiveTypeOK
    <3>3. CASE alertRow' = With(alertRow, p, StatusOf(p))
      BY <3>1, <3>3 DEF LoopInv, Typed, LiveTypeOK, With
    <3> QED BY <1>3, <3>1, <3>2, <3>3
  <2>2. \A q \in DOMAIN trades' : Shaped(trades'[q])
    BY <1>7, <1>9 DEF LoopInv, Typed
  <2>3. \A q \in DOMAIN tradeRow' : Shaped(tradeRow'[q])
    BY <1>8, <1>9 DEF LoopInv, Typed
  <2>4. LiveTypeOK'
    BY <1>2, <1>5, <1>6, <2>1, <2>2 DEF LoopInv, Typed, LiveTypeOK, Shaped
  <2> QED BY <1>2, <1>6, <2>2, <2>3, <2>4 DEF LoopInv, Typed
<1>11. Working'
  <2>1. CASE Abandon
    BY <1>2, <1>6, <2>1 DEF Working, Abandon, NoWork
  <2>2. CASE goesOn
    BY <1>1, <1>2, <1>7, <2>2 DEF LoopInv, Working
  <2> QED BY <1>4, <2>1, <2>2
<1>12. Mirrored'
  <2>1. alerts' = [q \in DOMAIN alerts' |-> alerts'[q]]
    BY <1>3 DEF LoopInv, Mirrored, With
  <2>2. CASE ~ready \/ slipped'
    BY <1>2, <2>1, <2>2 DEF Mirrored, StoreMirrorsMemory
  <2>3. CASE ready /\ ~slipped'
    <3>1. goesOn
      BY <1>4, <2>3 DEF Abandon
    <3>2. /\ alertRow = alerts /\ DOMAIN tradeRow = DOMAIN trades
          /\ \A q \in DOMAIN trades \ settling : trades[q].outcome \in Resolved => tradeRow[q] = trades[q]
      BY <1>1, <2>3, <3>1 DEF LoopInv, Mirrored, StoreMirrorsMemory
    <3>3. /\ alertRow' = IF isNew THEN With(alertRow, p, With(alerts, p, StatusOf(p))[p]) ELSE alertRow
          /\ trades' = IF tracked THEN With(trades, p, NewTrade) ELSE trades
          /\ tradeRow' = IF tracked THEN With(tradeRow, p, NewTrade) ELSE tradeRow
      BY <1>3, <2>3 DEF Abandon
    <3>4. alertRow' = alerts'
      <4>1. With(alerts, p, StatusOf(p))[p] = StatusOf(p)
        BY DEF With
      <4> QED BY <1>3, <3>2, <3>3, <4>1
    <3>5. DOMAIN tradeRow' = DOMAIN trades'
      BY <3>2, <3>3 DEF With
    <3>6. \A q \in DOMAIN trades' \ settling' : trades'[q].outcome \in Resolved => tradeRow'[q] = trades'[q]
      <4>1. CASE tracked
        BY <1>7, <1>9, <3>1, <3>2, <3>3, <4>1 DEF With
      <4>2. CASE ~tracked
        BY <3>1, <3>2, <3>3, <4>2
      <4> QED BY <4>1, <4>2
    <3> QED BY <2>1, <3>4, <3>5, <3>6 DEF Mirrored, StoreMirrorsMemory
  <2> QED BY <2>2, <2>3
<1>13. Final'
  BY <1>1, <1>7, <1>8, <1>9 DEF LoopInv, Final
<1> QED BY <1>6, <1>10, <1>11, <1>12, <1>13 DEF LoopInv

LEMMA FinishKeeps ==
  ASSUME LoopInv, FinishIngest
  PROVE  LoopInv'
<1> USE DEF store
<1>1. /\ pc = "ingest" /\ bar = NoBar /\ settling = {} /\ todo = <<>>
      /\ caughtUp' = CaughtUpAfter(partial) /\ started' = TRUE /\ pc' = "idle" /\ NoWork
      /\ UNCHANGED <<now, market, faults, store, ready, alerts, trades, seen, slipped>>
      /\ now \in Nat
  BY SessionsHaveBars DEF FinishIngest, LoopInv, Typed, LiveTypeOK, Working, history
<1>2. Typed'
  <2>1. LiveTypeOK'
    BY <1>1 DEF LoopInv, Typed, LiveTypeOK, NoWork
  <2> QED BY <1>1, <2>1 DEF LoopInv, Typed, NoWork
<1>3. Working'
  BY <1>1 DEF Working, NoWork
<1>4. Mirrored'
  BY <1>1 DEF LoopInv, Mirrored, StoreMirrorsMemory, NoWork
<1>5. Final'
  BY <1>1 DEF LoopInv, Final
<1>6. Caught'
  <2>1. \A k \in DOMAIN market : k[1] \notin partial /\ k[2] > now - PollWindow => k \in seen
    BY <1>1 DEF LoopInv, Caught, InHand
  <2>2. CASE caughtUp' = caughtUp
    BY <1>1, <2>2 DEF LoopInv, Caught, CatchUpLeavesNoBar
  <2>3. CASE caughtUp' # caughtUp
    <3>1. /\ partial = {} /\ caughtUp' = LatestSession(now)
          /\ LatestSession(now) \in {now, now - 1}
      <4>1. CASE ~started /\ LatestClose(now) = LatestSession(now) /\ partial = {} /\ caughtUp' = LatestSession(now)
        BY <1>1, <4>1, LatestCloseIs
      <4>2. CASE started /\ ~entries /\ partial = {} /\ caughtUp' = LatestSession(now)
        <5>1. ~InSession(now)
          BY <1>1, <4>2 DEF LoopInv, Caught
        <5> QED BY <1>1, <4>2, <5>1, LatestSessionIs
      <4> QED BY <1>1, <2>3, <4>1, <4>2 DEF CaughtUpAfter
    <3>2. \A k \in DOMAIN market : k[2] \in Nat
      BY <1>1 DEF LoopInv, Typed
    <3>3. \A k \in DOMAIN market : k[2] > caughtUp' + 1 - PollWindow => k \in seen
      BY <1>1, <2>1, <3>1, <3>2, WindowsAreOrdered
    <3> QED BY <1>1, <3>1, <3>3 DEF Caught, CatchUpLeavesNoBar
  <2> QED BY <2>2, <2>3
<1> QED BY <1>2, <1>3, <1>4, <1>5, <1>6 DEF LoopInv

LEMMA LoopStutters ==
  ASSUME LoopInv, UNCHANGED liveVars
  PROVE  LoopInv'
<1> USE DEF liveVars, store, work, memory, history
<1>1. Typed'
  <2>1. LiveTypeOK'
    BY DEF LoopInv, Typed, LiveTypeOK
  <2> QED BY <2>1 DEF LoopInv, Typed
<1>2. Working'
  BY DEF LoopInv, Working
<1>3. Mirrored'
  BY DEF LoopInv, Mirrored, StoreMirrorsMemory
<1>4. Final'
  BY DEF LoopInv, Final
<1>5. Caught'
  BY DEF LoopInv, Caught, CatchUpLeavesNoBar, InHand
<1> QED BY <1>1, <1>2, <1>3, <1>4, <1>5 DEF LoopInv

-----------------------------------------------------------------------------
(* The theorems.                                                           *)

\* The inductive invariant of the loop, for any number of symbols, strategies
\* and bars, and any sequence of crashes, store outages and Telegram errors.
THEOREM LoopInvariant == LiveSpec => []LoopInv
<1>1. LiveInit => LoopInv
  BY LoopInit
<1>2. LoopInv /\ [LiveNext]_liveVars => LoopInv'
  <2> SUFFICES ASSUME LoopInv, [LiveNext]_liveVars PROVE LoopInv'
    OBVIOUS
  <2>1. CASE Tick
    BY <2>1, TickKeeps
  <2>2. CASE StoreFails \/ StoreRecovers \/ Restart
    BY <2>2, OutageKeeps
  <2>3. CASE Crash
    BY <2>3, CrashKeeps
  <2>4. CASE Boot
    BY <2>4, BootKeeps
  <2>5. CASE Poll
    BY <2>5, PollKeeps
  <2>6. CASE TakeBar
    BY <2>6, TakeBarKeeps
  <2>7. CASE \E p \in settling : Settle(p)
    BY <2>7, SettleKeeps
  <2>8. CASE Evaluate
    BY <2>8, EvaluateKeeps
  <2>9. CASE RecordSetup
    BY <2>9, RecordKeeps
  <2>10. CASE FinishIngest
    BY <2>10, FinishKeeps
  <2>11. CASE UNCHANGED liveVars
    BY <2>11, LoopStutters
  <2> QED BY <2>1, <2>2, <2>3, <2>4, <2>5, <2>6, <2>7, <2>8, <2>9, <2>10, <2>11 DEF LiveNext
<1> QED BY <1>1, <1>2, PTL DEF LiveSpec

\* Every variable of the loop keeps its type; in particular the rows of the
\* ledger have only the outcomes paper.py names.
THEOREM LoopTypeCorrect == LiveSpec => []LiveTypeOK
<1>1. LoopInv => LiveTypeOK
  BY DEF LoopInv, Typed
<1> QED BY <1>1, LoopInvariant, PTL

\* _record_setup and _settle write every change of the memory through: while
\* nothing was abandoned, the store's rows are what the process believes.
THEOREM StoreAlwaysMirrors == LiveSpec => []StoreMirrorsMemory
<1>1. LoopInv => StoreMirrorsMemory
  BY DEF LoopInv, Mirrored
<1> QED BY <1>1, LoopInvariant, PTL

\* A close that counts as caught up with left out no bar a poll could fetch,
\* whatever feeds were quarantined and polls were abandoned on the way.
THEOREM CatchUpIsComplete == LiveSpec => []CatchUpLeavesNoBar
<1>1. LoopInv => CatchUpLeavesNoBar
  BY DEF LoopInv, Caught
<1> QED BY <1>1, LoopInvariant, PTL

\* The row of a settled trade is never written with anything else again: not
\* by the replay of a restart, a duplicate signal or a late settlement.
THEOREM SettlementsAreFinal == LiveSpec => SettledNeverReopens
<1> DEFINE Kept == \A p \in DOMAIN tradeRow : tradeRow[p].outcome \in Resolved =>
                      p \in DOMAIN tradeRow' /\ tradeRow'[p] = tradeRow[p]
<1>1. LoopInv /\ [LiveNext]_liveVars => [Kept]_liveVars
  <2> SUFFICES ASSUME LoopInv, LiveNext PROVE Kept
    OBVIOUS
  <2>1. CASE UNCHANGED tradeRow
    BY <2>1
  <2>2. ASSUME NEW p \in settling, Settle(p) PROVE Kept
    <3>1. /\ \A q \in DOMAIN tradeRow : tradeRow[q].outcome \in Resolved => tradeRow[q] = trades[q]
      BY <2>2 DEF LoopInv, Working, Final
    <3>2. tradeRow' = With(tradeRow, p, trades[p]) \/ UNCHANGED tradeRow
      BY <2>2 DEF Settle, Upsert
    <3> QED BY <3>1, <3>2 DEF With
  <2>3. CASE RecordSetup
    <3> DEFINE p == Head(setups)
    <3>1. \A q \in DOMAIN tradeRow : tradeRow[q].outcome \in Resolved => q \in DOMAIN trades
      BY <2>3 DEF LoopInv, Working, Final, RecordSetup
    <3>2. \/ UNCHANGED tradeRow
          \/ p \notin DOMAIN trades /\ tradeRow' = With(tradeRow, p, NewTrade)
      BY Zenon, <2>3 DEF RecordSetup, Upsert
    <3> HIDE DEF p
    <3> QED BY <3>1, <3>2 DEF With
  <2>4. Tick \/ StoreFails \/ StoreRecovers \/ Crash \/ Restart \/ Boot \/ Poll \/ TakeBar \/ Evaluate
        \/ FinishIngest => UNCHANGED tradeRow
    BY Zenon DEF Tick, StoreFails, StoreRecovers, Crash, Restart, Boot, Poll, TakeBar, Evaluate,
                 FinishIngest, store
  <2> QED BY <2>1, <2>2, <2>3, <2>4 DEF LiveNext
<1> QED BY <1>1, LoopInvariant, PTL DEF LiveSpec, SettledNeverReopens

-----------------------------------------------------------------------------
(* The ledger and its counters.                                            *)

Plan == [symbol : Symbol, strategy : Strategy, at : Nat]
Clusters == {ClusterOf[s] : s \in Symbol}
Pairs == Symbol \X Strategy

\* The classes the discipline counts by.
ModuleIs  == [p \in Plan |-> ModuleOf[p.strategy]]
ClusterIs == [p \in Plan |-> ClusterOf[p.symbol]]
PairIs    == [p \in Plan |-> Pair(p)]

\* How many members of H there are of each class in D.
Tally(f, D, H) == [d \in D |-> Cardinality({q \in H : f[q] = d})]

\* The slots of a book that the plans in H hold.
CountOf(H) ==
  [module  |-> Tally(ModuleIs, DOMAIN ModuleCap, H),
   cluster |-> Tally(ClusterIs, Clusters, H),
   plan    |-> Tally(PairIs, Pairs, H)]

-----------------------------------------------------------------------------
(* Counting by classes.                                                    *)

LEMMA ClassesOfPlans ==
  /\ ModuleIs \in [Plan -> DOMAIN ModuleCap]
  /\ ClusterIs \in [Plan -> Clusters]
  /\ PairIs \in [Plan -> Pairs]
<1>1. ModuleIs \in [Plan -> DOMAIN ModuleCap]
  BY StrategiesAreRegistered DEF ModuleIs, Plan
<1>2. ClusterIs \in [Plan -> Clusters]
  BY DEF ClusterIs, Plan, Clusters
<1>3. PairIs \in [Plan -> Pairs]
  BY DEF PairIs, Plan, Pair, Pairs
<1> QED BY <1>1, <1>2, <1>3

\* One more member counts once, in its own class.
LEMMA TallyGrows ==
  ASSUME NEW D, NEW f, NEW H, IsFiniteSet(H), NEW p, p \notin H, f[p] \in D
  PROVE  Tally(f, D, H \cup {p}) = [Tally(f, D, H) EXCEPT ![f[p]] = @ + 1]
<1>1. ASSUME NEW d \in D
      PROVE  Cardinality({q \in H \cup {p} : f[q] = d})
               = IF d = f[p] THEN Cardinality({q \in H : f[q] = d}) + 1 ELSE Cardinality({q \in H : f[q] = d})
  <2>1. IsFiniteSet({q \in H : f[q] = d})
    BY FS_Subset
  <2>2. CASE d = f[p]
    <3>1. {q \in H \cup {p} : f[q] = d} = {q \in H : f[q] = d} \cup {p}
      BY <2>2
    <3>2. p \notin {q \in H : f[q] = d}
      OBVIOUS
    <3> QED BY <2>1, <2>2, <3>1, <3>2, FS_AddElement
  <2>3. CASE d # f[p]
    <3>1. {q \in H \cup {p} : f[q] = d} = {q \in H : f[q] = d}
      BY <2>3
    <3> QED BY <2>3, <3>1
  <2> QED BY <2>2, <2>3
<1> QED BY <1>1 DEF Tally

\* One member less counts once less, and never below zero.
LEMMA TallyShrinks ==
  ASSUME NEW D, NEW f, NEW H, IsFiniteSet(H), NEW p \in H, f[p] \in D
  PROVE  Tally(f, D, H \ {p}) = [Tally(f, D, H) EXCEPT ![f[p]] = Decremented(@)]
<1>1. ASSUME NEW d \in D
      PROVE  Cardinality({q \in H \ {p} : f[q] = d})
               = IF d = f[p] THEN Decremented(Cardinality({q \in H : f[q] = d}))
                 ELSE Cardinality({q \in H : f[q] = d})
  <2>1. IsFiniteSet({q \in H : f[q] = d}) /\ Cardinality({q \in H : f[q] = d}) \in Nat
    BY FS_Subset, FS_CardinalityType
  <2>2. CASE d = f[p]
    <3>1. {q \in H \ {p} : f[q] = d} = {q \in H : f[q] = d} \ {p}
      BY <2>2
    <3>2. p \in {q \in H : f[q] = d}
      BY <2>2
    <3>3. Cardinality({q \in H : f[q] = d}) # 0
      BY <2>1, <3>2, FS_EmptySet
    <3>4. Cardinality({q \in H : f[q] = d} \ {p}) = Cardinality({q \in H : f[q] = d}) - 1
      BY <2>1, <3>2, FS_RemoveElement
    <3> QED BY <2>1, <2>2, <3>1, <3>3, <3>4 DEF Decremented
  <2>3. CASE d # f[p]
    <3>1. {q \in H \ {p} : f[q] = d} = {q \in H : f[q] = d}
      BY <2>3
    <3> QED BY <2>3, <3>1
  <2> QED BY <2>2, <2>3
<1> QED BY <1>1 DEF Tally

LEMMA CountOfNone ==
  CountOf({}) = NoSlots(Symbol, Strategy)
<1>1. \A f, d : {q \in {} : f[q] = d} = {}
  OBVIOUS
<1>2. \A f, D : Tally(f, D, {}) = [d \in D |-> 0]
  BY <1>1, FS_EmptySet DEF Tally
<1> QED BY <1>2 DEF CountOf, NoSlots, Clusters, Pairs

\* register_open counts a plan that held no slot.
LEMMA CountOfMore ==
  ASSUME NEW H, IsFiniteSet(H), NEW p \in Plan, p \notin H
  PROVE  CountOf(H \cup {p}) = RegisterOpen(CountOf(H), ModuleOf[p.strategy], p.symbol, p.strategy)
<1>1. /\ ModuleIs[p] = ModuleOf[p.strategy] /\ ModuleIs[p] \in DOMAIN ModuleCap
      /\ ClusterIs[p] = ClusterOf[p.symbol] /\ ClusterIs[p] \in Clusters
      /\ PairIs[p] = <<p.symbol, p.strategy>> /\ PairIs[p] \in Pairs
  BY ClassesOfPlans DEF ModuleIs, ClusterIs, PairIs, Pair
<1>2. /\ Tally(ModuleIs, DOMAIN ModuleCap, H \cup {p})
           = [Tally(ModuleIs, DOMAIN ModuleCap, H) EXCEPT ![ModuleOf[p.strategy]] = @ + 1]
      /\ Tally(ClusterIs, Clusters, H \cup {p})
           = [Tally(ClusterIs, Clusters, H) EXCEPT ![ClusterOf[p.symbol]] = @ + 1]
      /\ Tally(PairIs, Pairs, H \cup {p})
           = [Tally(PairIs, Pairs, H) EXCEPT ![<<p.symbol, p.strategy>>] = @ + 1]
  <2>1. Tally(ModuleIs, DOMAIN ModuleCap, H \cup {p})
          = [Tally(ModuleIs, DOMAIN ModuleCap, H) EXCEPT ![ModuleIs[p]] = @ + 1]
    BY ONLY <1>1, IsFiniteSet(H), p \notin H, TallyGrows
  <2>2. Tally(ClusterIs, Clusters, H \cup {p})
          = [Tally(ClusterIs, Clusters, H) EXCEPT ![ClusterIs[p]] = @ + 1]
    BY ONLY <1>1, IsFiniteSet(H), p \notin H, TallyGrows
  <2>3. Tally(PairIs, Pairs, H \cup {p})
          = [Tally(PairIs, Pairs, H) EXCEPT ![PairIs[p]] = @ + 1]
    BY ONLY <1>1, IsFiniteSet(H), p \notin H, TallyGrows
  <2> QED BY <1>1, <2>1, <2>2, <2>3
<1> QED BY <1>2 DEF CountOf, RegisterOpen

\* register_close takes back the slots of a plan that held them.
LEMMA CountOfLess ==
  ASSUME NEW H, IsFiniteSet(H), NEW p \in H, p \in Plan
  PROVE  CountOf(H \ {p}) = RegisterClose(CountOf(H), ModuleOf[p.strategy], p.symbol, p.strategy)
<1>1. /\ ModuleIs[p] = ModuleOf[p.strategy] /\ ModuleIs[p] \in DOMAIN ModuleCap
      /\ ClusterIs[p] = ClusterOf[p.symbol] /\ ClusterIs[p] \in Clusters
      /\ PairIs[p] = <<p.symbol, p.strategy>> /\ PairIs[p] \in Pairs
  BY ClassesOfPlans DEF ModuleIs, ClusterIs, PairIs, Pair
<1>2. /\ Tally(ModuleIs, DOMAIN ModuleCap, H \ {p})
           = [Tally(ModuleIs, DOMAIN ModuleCap, H) EXCEPT ![ModuleOf[p.strategy]] = Decremented(@)]
      /\ Tally(ClusterIs, Clusters, H \ {p})
           = [Tally(ClusterIs, Clusters, H) EXCEPT ![ClusterOf[p.symbol]] = Decremented(@)]
      /\ Tally(PairIs, Pairs, H \ {p})
           = [Tally(PairIs, Pairs, H) EXCEPT ![<<p.symbol, p.strategy>>] = Decremented(@)]
  <2>1. Tally(ModuleIs, DOMAIN ModuleCap, H \ {p})
          = [Tally(ModuleIs, DOMAIN ModuleCap, H) EXCEPT ![ModuleIs[p]] = Decremented(@)]
    BY ONLY <1>1, IsFiniteSet(H), p \in H, TallyShrinks
  <2>2. Tally(ClusterIs, Clusters, H \ {p})
          = [Tally(ClusterIs, Clusters, H) EXCEPT ![ClusterIs[p]] = Decremented(@)]
    BY ONLY <1>1, IsFiniteSet(H), p \in H, TallyShrinks
  <2>3. Tally(PairIs, Pairs, H \ {p})
          = [Tally(PairIs, Pairs, H) EXCEPT ![PairIs[p]] = Decremented(@)]
    BY ONLY <1>1, IsFiniteSet(H), p \in H, TallyShrinks
  <2> QED BY <1>1, <2>1, <2>2, <2>3
<1> QED BY <1>2 DEF CountOf, RegisterClose

-----------------------------------------------------------------------------
(* What a boot restores.                                                   *)

Register(p, sl) == RegisterOpen(sl, ModuleOf[p.strategy], p.symbol, p.strategy)

\* g has the slots of every subset of S, one plan registered after the other.
Registers(g, S) ==
  g = [s \in SUBSET S |-> IF s = {} THEN NoSlots(Symbol, Strategy)
                          ELSE Register(Pick(s), g[s \ {Pick(s)}])]

LEMMA RegistersCount ==
  ASSUME NEW S, IsFiniteSet(S), S \subseteq Plan
  PROVE  /\ \E g : Registers(g, S)
         /\ \A g : Registers(g, S) => g[S] = CountOf(S)
<1>1. ASSUME NEW s \in SUBSET S, s # {}
      PROVE  /\ Pick(s) \in s /\ s \ {Pick(s)} \in SUBSET S
             /\ CountOf(s) = Register(Pick(s), CountOf(s \ {Pick(s)}))
  <2>1. Pick(s) \in s
    BY <1>1 DEF Pick
  <2>2. IsFiniteSet(s \ {Pick(s)}) /\ Pick(s) \in Plan
    BY <2>1, FS_Subset
  <2>3. s = (s \ {Pick(s)}) \cup {Pick(s)} /\ Pick(s) \notin s \ {Pick(s)}
    BY <2>1
  <2> DEFINE x == Pick(s)
             r == s \ {x}
  <2>4. CountOf(r \cup {x}) = RegisterOpen(CountOf(r), ModuleOf[x.strategy], x.symbol, x.strategy)
    <3> HIDE DEF x
    <3>1. x \notin r
      OBVIOUS
    <3> HIDE DEF r
    <3> QED BY <2>2, <3>1, CountOfMore DEF x, r
  <2> QED BY <2>1, <2>3, <2>4 DEF Register
<1> DEFINE c == [s \in SUBSET S |-> CountOf(s)]
<1>2. Registers(c, S)
  <2>1. ASSUME NEW s \in SUBSET S
        PROVE  c[s] = IF s = {} THEN NoSlots(Symbol, Strategy) ELSE Register(Pick(s), c[s \ {Pick(s)}])
    <3>1. CASE s = {}
      BY <3>1, CountOfNone
    <3>2. CASE s # {}
      <4>1. c[s] = CountOf(s) /\ c[s \ {Pick(s)}] = CountOf(s \ {Pick(s)})
        BY <1>1, <3>2
      <4> HIDE DEF c
      <4> QED BY <1>1, <3>2, <4>1
    <3> QED BY <3>1, <3>2
  <2>2. c = [s \in SUBSET S |-> c[s]]
    OBVIOUS
  <2> HIDE DEF c
  <2> QED BY <2>1, <2>2 DEF Registers
<1>3. ASSUME NEW g, Registers(g, S) PROVE g[S] = CountOf(S)
  <2> DEFINE Bad == {s \in SUBSET S : g[s] # CountOf(s)}
  <2>1. Bad = {}
    <3> SUFFICES ASSUME Bad # {} PROVE FALSE
      OBVIOUS
    <3>1. PICK T \in Bad : \A s \in Bad : s \subseteq T => s = T
      <4>1. Bad \subseteq SUBSET S
        OBVIOUS
      <4> HIDE DEF Bad
      <4> QED BY <4>1, LeastSubset
    <3>2. g[T] = IF T = {} THEN NoSlots(Symbol, Strategy) ELSE Register(Pick(T), g[T \ {Pick(T)}])
      BY <1>3 DEF Registers
    <3>3. T # {}
      BY <3>2, CountOfNone
    <3>4. Pick(T) \in T /\ CountOf(T) = Register(Pick(T), CountOf(T \ {Pick(T)}))
      BY <1>1, <3>3
    <3>5. g[T \ {Pick(T)}] = CountOf(T \ {Pick(T)})
      BY <3>1, <3>4
    <3> QED BY <3>2, <3>3, <3>4, <3>5
  <2> QED BY <2>1
<1> QED BY <1>2, <1>3

\* boot: every counter of a book is the number of its open rows.
LEMMA RestoredCount ==
  ASSUME NEW rows, IsFiniteSet(DOMAIN rows), DOMAIN rows \subseteq Plan, NEW b \in Books
  PROVE  RestoredSlots(rows)[b] = CountOf({p \in DOMAIN rows : rows[p].outcome \in Unresolved /\ Book(p) = b})
<1> DEFINE S == {p \in DOMAIN rows : rows[p].outcome \in Unresolved /\ Book(p) = b}
           iter == CHOOSE g : Registers(g, S)
<1>1. IsFiniteSet(S) /\ S \subseteq Plan
  BY FS_Subset
<1>2. RestoredSlots(rows)[b] = iter[S]
  BY DEF RestoredSlots, FoldSet, MapThenFoldSet, Registers, Register, Pick
<1> HIDE DEF S
<1>3. iter[S] = CountOf(S)
  BY <1>1, RegistersCount
<1> QED BY <1>2, <1>3 DEF S

-----------------------------------------------------------------------------
(* The invariant of the ledger and its slots.                              *)

Running == pc \in {"idle", "ingest"}

\* The plans that hold a slot, of one book, of one pair; and the stored rows
\* without an outcome, of which those the store never heard the end of are lost.
Held      == Active \cup settling
HeldBy(b) == {p \in Held : Book(p) = b}
HeldOf(k) == {p \in Held : Pair(p) = k}
BookOf(k) == IF k[2] \in Research THEN "shadow" ELSE "live"
OpenRows  == {p \in DOMAIN tradeRow : tradeRow[p].outcome \in Unresolved}
Lost      == unsaved \cup Unsaved

Planned ==
  /\ DOMAIN trades \subseteq Plan /\ IsFiniteSet(DOMAIN trades)
  /\ DOMAIN tradeRow \subseteq Plan /\ IsFiniteSet(DOMAIN tradeRow)
  /\ setups \in Seq(Plan)
  /\ \A k \in DOMAIN market : market[k].signals \subseteq Strategy
  /\ DOMAIN slots = Books /\ \A b \in Books : slots[b].plan \in [Pairs -> Nat]

\* Without an abandoned bar the slots are the count of what is held.
Exact == Running /\ ~slipped => \A b \in Books : slots[b] = CountOf(HeldBy(b))

\* Abandoned or not, a pair holds no more plans than it has slots, unless one
\* of them was tracked without its slot.
Covered ==
  Running => \A k \in Pairs \ leaked : Cardinality(HeldOf(k)) <= slots[BookOf(k)].plan[k]

RowsTracked == Running => DOMAIN tradeRow \subseteq DOMAIN trades

\* No two plans of a pair are held, and none would be after a restart.
HeldApart ==
  \A p, q \in Held \ unsaved : Pair(p) = Pair(q) /\ Pair(p) \notin leaked => p = q
OpenApart ==
  \A p, q \in OpenRows \ Lost : Pair(p) = Pair(q) /\ Pair(p) \notin leaked => p = q

\* The setups of a bar are of different pairs, and their pairs hold nothing.
Queued ==
  setups # <<>> =>
    /\ bar = NoBar /\ settling = {}
    /\ \A i \in 1..Len(setups) : Pair(setups[i]) \notin leaked => HeldOf(Pair(setups[i])) = {}
    /\ \A i, j \in 1..Len(setups) : Pair(setups[i]) = Pair(setups[j]) => i = j

LedgerInv ==
  Planned /\ Exact /\ Covered /\ RowsTracked /\ HeldApart /\ OpenApart /\ Queued

\* What is held is finite, and made of plans.
LEMMA HeldPlans ==
  ASSUME LoopInv, LedgerInv
  PROVE  /\ Held \subseteq Plan /\ IsFiniteSet(Held)
         /\ \A b \in Books : IsFiniteSet(HeldBy(b)) /\ HeldBy(b) \subseteq Plan
         /\ \A k : IsFiniteSet(HeldOf(k)) /\ Cardinality(HeldOf(k)) \in Nat
<1>1. Held \subseteq DOMAIN trades
  BY DEF LoopInv, Working, Held, Active
<1>2. Held \subseteq Plan /\ IsFiniteSet(Held)
  BY <1>1, FS_Subset DEF LedgerInv, Planned
<1>3. \A b \in Books : IsFiniteSet(HeldBy(b)) /\ HeldBy(b) \subseteq Plan
  BY <1>2, FS_Subset DEF HeldBy
<1>4. \A k : IsFiniteSet(HeldOf(k)) /\ Cardinality(HeldOf(k)) \in Nat
  BY <1>2, FS_Subset, FS_CardinalityType DEF HeldOf
<1> QED BY <1>2, <1>3, <1>4

-----------------------------------------------------------------------------
(* The steps.                                                              *)

LEMMA LedgerInit ==
  ASSUME LiveInit
  PROVE  LedgerInv
<1>1. DOMAIN trades = {} /\ DOMAIN tradeRow = {} /\ settling = {} /\ setups = <<>> /\ DOMAIN market = {}
  BY DEF LiveInit, NoPlan
<1>2. slots = [b \in Books |-> NoSlots(Symbol, Strategy)] /\ pc = "unbooted"
  BY DEF LiveInit
<1>3. Planned
  <2>1. NoSlots(Symbol, Strategy).plan \in [Pairs -> Nat]
    BY DEF NoSlots, Pairs
  <2> QED BY <1>1, <1>2, <2>1, FS_EmptySet DEF Planned
<1>4. Exact /\ Covered /\ RowsTracked
  BY <1>2 DEF Exact, Covered, RowsTracked, Running
<1>5. HeldApart /\ OpenApart /\ Queued
  BY <1>1 DEF HeldApart, OpenApart, Queued, Held, Active, OpenRows
<1> QED BY <1>3, <1>4, <1>5 DEF LedgerInv

\* A step that leaves ledger and slots alone.
LEMMA QuietKeeps ==
  ASSUME LedgerInv, UNCHANGED <<trades, tradeRow, slots, settling, unsaved, leaked, slipped>>,
         Running' => Running,
         \A k \in DOMAIN market' : market'[k].signals \subseteq Strategy,
         setups' \in Seq(Plan), Queued'
  PROVE  LedgerInv'
<1>1. Held' = Held /\ OpenRows' = OpenRows /\ Lost' = Lost
  BY DEF Held, Active, OpenRows, Lost, Unsaved
<1>2. \A b : HeldBy(b)' = HeldBy(b)
  BY <1>1 DEF HeldBy
<1>3. \A k : HeldOf(k)' = HeldOf(k)
  BY <1>1 DEF HeldOf
<1>4. Planned'
  BY DEF LedgerInv, Planned
<1>5. Exact'
  BY <1>2 DEF LedgerInv, Exact
<1>6. Covered'
  BY <1>3 DEF LedgerInv, Covered
<1>7. RowsTracked'
  BY DEF LedgerInv, RowsTracked
<1>8. HeldApart' /\ OpenApart'
  BY <1>1 DEF LedgerInv, HeldApart, OpenApart
<1> QED BY <1>4, <1>5, <1>6, <1>7, <1>8 DEF LedgerInv

\* The same, when the setups are left alone or dropped.
LEMMA IdleKeeps ==
  ASSUME LedgerInv, UNCHANGED <<trades, tradeRow, slots, settling, unsaved, leaked, slipped>>,
         Running' => Running,
         \A k \in DOMAIN market' : market'[k].signals \subseteq Strategy,
         UNCHANGED <<setups, bar>> \/ setups' = <<>>
  PROVE  LedgerInv'
<1>1. Held' = Held
  BY DEF Held, Active
<1>2. \A k : HeldOf(k)' = HeldOf(k)
  BY <1>1 DEF HeldOf
<1>3. Queued'
  BY <1>2 DEF LedgerInv, Queued
<1>4. setups' \in Seq(Plan)
  BY EmptySeq DEF LedgerInv, Planned
<1> QED BY <1>3, <1>4, QuietKeeps

\* The signals of a bar are registered strategies.
LEMMA TickPrints ==
  ASSUME LedgerInv, Tick
  PROVE  \A k \in DOMAIN market' : market'[k].signals \subseteq Strategy
<1>1. CASE UNCHANGED market
  BY <1>1 DEF LedgerInv, Planned
<1>2. CASE ~(UNCHANGED market)
  <2>1. PICK b \in NextBars, g \in NextSignals : market' = Printed(b, g, now')
    BY <1>2 DEF Tick
  <2> SUFFICES ASSUME NEW k \in DOMAIN market' PROVE market'[k].signals \subseteq Strategy
    OBVIOUS
  <2>2. k \in DOMAIN market \cup {<<s, now'>> : s \in Symbol}
    BY <2>1 DEF Printed
  <2>3. CASE k \in DOMAIN market
    <3>1. market'[k] = market[k]
      BY <2>1, <2>3 DEF Printed
    <3> QED BY <2>3, <3>1 DEF LedgerInv, Planned
  <2>4. CASE k \notin DOMAIN market
    <3>1. market'[k].signals = g[k[1]]
      BY <2>1, <2>2, <2>4 DEF Printed
    <3>2. k[1] \in Symbol
      BY <2>2, <2>4
    <3>3. g[k[1]] \in Signals[k[1]]
      BY <3>2 DEF NextSignals
    <3>4. Signals[k[1]] \subseteq SUBSET Strategy
      BY <3>2, StrategiesAreRegistered
    <3> QED BY <3>1, <3>3, <3>4
  <2> QED BY <2>3, <2>4
<1> QED BY <1>1, <1>2

LEMMA QuietSteps ==
  ASSUME LoopInv, LedgerInv,
         Tick \/ StoreFails \/ StoreRecovers \/ Restart \/ Poll \/ FinishIngest \/ UNCHANGED liveVars
  PROVE  LedgerInv'
<1> USE DEF store, work, memory, history
<1>1. UNCHANGED <<trades, tradeRow, slots, unsaved, leaked, slipped>>
  BY Zenon DEF Tick, StoreFails, StoreRecovers, Restart, Poll, FinishIngest, liveVars
<1>2. UNCHANGED <<setups, bar>> \/ setups' = <<>>
  BY Zenon DEF Tick, StoreFails, StoreRecovers, Restart, Poll, FinishIngest, liveVars, NoWork
<1>3. UNCHANGED settling
  <2>1. CASE FinishIngest
    BY <2>1 DEF FinishIngest, NoWork, LoopInv, Working
  <2>2. CASE Tick \/ StoreFails \/ StoreRecovers \/ Restart \/ Poll \/ UNCHANGED liveVars
    BY Zenon, <2>2 DEF Tick, StoreFails, StoreRecovers, Restart, Poll, liveVars
  <2> QED BY <2>1, <2>2
<1>4. Running' => Running
  <2>1. CASE Restart
    BY <2>1 DEF Restart, Running
  <2>2. CASE FinishIngest
    BY <2>2 DEF FinishIngest, Running
  <2>3. CASE Poll
    BY <2>3 DEF Poll, Running
  <2>4. CASE Tick \/ StoreFails \/ StoreRecovers \/ UNCHANGED liveVars
    <3>1. UNCHANGED pc
      BY Zenon, <2>4 DEF Tick, StoreFails, StoreRecovers, liveVars
    <3> QED BY <3>1 DEF Running
  <2> QED BY <2>1, <2>2, <2>3, <2>4
<1>5. \A k \in DOMAIN market' : market'[k].signals \subseteq Strategy
  <2>1. CASE Tick
    BY <2>1, TickPrints
  <2>2. CASE ~Tick
    <3>1. UNCHANGED market
      BY Zenon, <2>2 DEF StoreFails, StoreRecovers, Restart, Poll, FinishIngest, liveVars
    <3> QED BY <3>1 DEF LedgerInv, Planned
  <2> QED BY <2>1, <2>2
<1> QED BY <1>1, <1>2, <1>3, <1>4, <1>5, IdleKeeps

\* A killed process forgets what it held; what it had not stored counts as lost.
LEMMA CrashLosesNothingElse ==
  ASSUME LoopInv, LedgerInv, Crash
  PROVE  LedgerInv'
<1>1. /\ DOMAIN trades' = {} /\ settling' = {} /\ setups' = <<>> /\ pc' = "down"
      /\ slots' = [b \in Books |-> NoSlots(Symbol, Strategy)]
      /\ unsaved' = unsaved \cup Unsaved /\ leaked' = StillLeaked
      /\ UNCHANGED <<market, tradeRow>>
  BY DEF Crash, FreshMemory, NoWork, NoPlan, store
<1>2. Planned'
  <2>1. NoSlots(Symbol, Strategy).plan \in [Pairs -> Nat]
    BY DEF NoSlots, Pairs
  <2> QED BY <1>1, <2>1, FS_EmptySet DEF LedgerInv, Planned
<1>3. Exact' /\ Covered' /\ RowsTracked'
  BY <1>1 DEF Exact, Covered, RowsTracked, Running
<1>4. HeldApart'
  BY <1>1 DEF HeldApart, Held, Active
<1>5. OpenApart'
  <2>1. OpenRows' = OpenRows /\ Lost \subseteq Lost'
    BY <1>1 DEF OpenRows, Lost
  <2>2. \A p \in OpenRows : Pair(p) \notin leaked' => Pair(p) \notin leaked
    BY <1>1 DEF OpenRows, StillLeaked
  <2> QED BY <2>1, <2>2 DEF LedgerInv, OpenApart
<1>6. Queued'
  BY <1>1 DEF Queued
<1> QED BY <1>2, <1>3, <1>4, <1>5, <1>6 DEF LedgerInv

\* What the counts count.
LEMMA CountsAre ==
  ASSUME NEW H, H \subseteq Plan
  PROVE  /\ DOMAIN CountOf(H).module = DOMAIN ModuleCap
         /\ DOMAIN CountOf(H).cluster = Clusters /\ DOMAIN CountOf(H).plan = Pairs
         /\ \A m \in DOMAIN ModuleCap : CountOf(H).module[m] = Cardinality({p \in H : ModuleOf[p.strategy] = m})
         /\ \A c \in Clusters : CountOf(H).cluster[c] = Cardinality({p \in H : ClusterOf[p.symbol] = c})
         /\ \A k \in Pairs : CountOf(H).plan[k] = Cardinality({p \in H : Pair(p) = k})
<1>1. ASSUME NEW m \in DOMAIN ModuleCap
      PROVE  CountOf(H).module[m] = Cardinality({p \in H : ModuleOf[p.strategy] = m})
  <2>1. {p \in H : ModuleIs[p] = m} = {p \in H : ModuleOf[p.strategy] = m}
    BY DEF ModuleIs
  <2>2. CountOf(H).module[m] = Cardinality({p \in H : ModuleIs[p] = m})
    BY DEF CountOf, Tally
  <2> QED BY <2>1, <2>2
<1>2. ASSUME NEW c \in Clusters
      PROVE  CountOf(H).cluster[c] = Cardinality({p \in H : ClusterOf[p.symbol] = c})
  <2>1. {p \in H : ClusterIs[p] = c} = {p \in H : ClusterOf[p.symbol] = c}
    BY DEF ClusterIs
  <2>2. CountOf(H).cluster[c] = Cardinality({p \in H : ClusterIs[p] = c})
    BY DEF CountOf, Tally
  <2> QED BY <2>1, <2>2
<1>3. ASSUME NEW k \in Pairs PROVE CountOf(H).plan[k] = Cardinality({p \in H : Pair(p) = k})
  <2>1. {p \in H : PairIs[p] = k} = {p \in H : Pair(p) = k}
    BY DEF PairIs
  <2>2. CountOf(H).plan[k] = Cardinality({p \in H : PairIs[p] = k})
    BY DEF CountOf, Tally
  <2> QED BY <2>1, <2>2
<1>4. DOMAIN CountOf(H).module = DOMAIN ModuleCap /\ DOMAIN CountOf(H).cluster = Clusters /\ DOMAIN CountOf(H).plan = Pairs
  BY DEF CountOf, Tally
<1> QED BY <1>1, <1>2, <1>3, <1>4

\* Slots that are the count of the plans held cover them.
LEMMA CountCovers ==
  ASSUME NEW H, IsFiniteSet(H), H \subseteq Plan, NEW k \in Pairs
  PROVE  CountOf({p \in H : Book(p) = BookOf(k)}).plan[k] = Cardinality({p \in H : Pair(p) = k})
<1> DEFINE B == {p \in H : Book(p) = BookOf(k)}
<1>1. CountOf(B).plan[k] = Cardinality({q \in B : PairIs[q] = k})
  BY DEF CountOf, Tally
<1>2. \A q \in H : PairIs[q] = Pair(q) /\ (Pair(q) = k => Book(q) = BookOf(k))
  BY DEF PairIs, Pair, Book, BookOf
<1>3. {q \in B : PairIs[q] = k} = {p \in H : Pair(p) = k}
  BY <1>2
<1> QED BY <1>1, <1>3

\* A boot tracks every row and takes a slot for every open one.
LEMMA BootRestores ==
  ASSUME LoopInv, LedgerInv, Boot
  PROVE  LedgerInv'
<1>1. /\ trades' = tradeRow /\ slots' = RestoredSlots(tradeRow) /\ UNCHANGED <<tradeRow, settling, setups, market, bar>>
      /\ unsaved' = unsaved \cup Unsaved /\ leaked' = StillLeaked /\ pc = "unbooted"
  BY DEF Boot, RestoredTrades
<1>2. settling = {} /\ setups = <<>>
  BY <1>1 DEF LoopInv, Working
<1>3. Held' = OpenRows /\ OpenRows' = OpenRows /\ Lost \subseteq Lost'
  BY <1>1, <1>2 DEF Held, Active, OpenRows, Lost
<1>4. IsFiniteSet(DOMAIN tradeRow) /\ DOMAIN tradeRow \subseteq Plan
  BY DEF LedgerInv, Planned
<1>5. \A b \in Books : slots'[b] = CountOf(HeldBy(b)')
  <2>1. \A b : HeldBy(b)' = {p \in DOMAIN tradeRow : tradeRow[p].outcome \in Unresolved /\ Book(p) = b}
    BY <1>3 DEF HeldBy, OpenRows
  <2> QED BY <1>1, <1>4, <2>1, RestoredCount
<1>6. Exact' /\ RowsTracked'
  BY <1>1, <1>5 DEF Exact, RowsTracked
<1>7. Planned'
  <2>1. \A H : CountOf(H).plan = Tally(PairIs, Pairs, H)
    BY DEF CountOf
  <2>2. \A b \in Books : IsFiniteSet(HeldBy(b)')
    <3>1. \A b : HeldBy(b)' \subseteq DOMAIN tradeRow
      BY <1>3 DEF HeldBy, OpenRows
    <3> QED BY <1>4, <3>1, FS_Subset
  <2>3. ASSUME NEW b \in Books PROVE slots'[b].plan \in [Pairs -> Nat]
    <3>1. slots'[b].plan = [d \in Pairs |-> Cardinality({q \in HeldBy(b)' : PairIs[q] = d})]
      BY <1>5, <2>1 DEF Tally
    <3>2. \A d : Cardinality({q \in HeldBy(b)' : PairIs[q] = d}) \in Nat
      BY <2>2, FS_Subset, FS_CardinalityType
    <3> QED BY <3>1, <3>2
  <2>4. DOMAIN slots' = Books
    BY <1>1 DEF RestoredSlots
  <2> QED BY <1>1, <1>4, <2>3, <2>4 DEF LedgerInv, Planned
<1>8. Covered'
  <2> SUFFICES ASSUME NEW k \in Pairs PROVE Cardinality(HeldOf(k)') <= slots'[BookOf(k)].plan[k]
    BY DEF Covered
  <2>1. IsFiniteSet(OpenRows) /\ OpenRows \subseteq Plan
    BY <1>4, FS_Subset DEF OpenRows
  <2>2. CountOf({p \in OpenRows : Book(p) = BookOf(k)}).plan[k] = Cardinality({p \in OpenRows : Pair(p) = k})
    BY <2>1, CountCovers
  <2>3. HeldBy(BookOf(k))' = {p \in OpenRows : Book(p) = BookOf(k)} /\ HeldOf(k)' = {p \in OpenRows : Pair(p) = k}
    BY <1>3 DEF HeldBy, HeldOf
  <2>4. BookOf(k) \in Books
    BY DEF BookOf, Books
  <2>5. Cardinality({p \in OpenRows : Pair(p) = k}) \in Nat
    BY <2>1, FS_Subset, FS_CardinalityType
  <2>6. slots'[BookOf(k)].plan[k] = Cardinality(HeldOf(k)') /\ Cardinality(HeldOf(k)') \in Nat
    BY <1>5, <2>2, <2>3, <2>4, <2>5
  <2> QED BY <2>6
<1>9. HeldApart' /\ OpenApart'
  <2>1. \A p \in OpenRows : Pair(p) \notin leaked' => Pair(p) \notin leaked
    BY <1>1 DEF OpenRows, StillLeaked
  <2>2. unsaved' = Lost
    BY <1>1 DEF Lost
  <2> QED BY <1>3, <2>1, <2>2 DEF LedgerInv, HeldApart, OpenApart
<1>10. Queued'
  BY <1>1, <1>2 DEF Queued
<1> QED BY <1>6, <1>7, <1>8, <1>9, <1>10 DEF LedgerInv

\* A bar moves a plan from open to settled; what is held stays the same.
LEMMA TakeBarHolds ==
  ASSUME LoopInv, LedgerInv, TakeBar
  PROVE  LedgerInv'
<1>1. /\ UNCHANGED <<tradeRow, slots, market, setups, pc, slipped, unsaved, leaked>>
      /\ DOMAIN trades' = DOMAIN trades /\ bar = NoBar /\ setups = <<>> /\ pc = "ingest"
  BY DEF TakeBar, store
<1>2. settling = {}
  BY <1>1 DEF LoopInv, Working
<1>3. PICK mine : /\ mine \subseteq Active
                  /\ \A p \in DOMAIN trades \ mine : trades'[p] = trades[p]
                  /\ \A p \in mine : trades'[p].outcome \in Outcomes
                  /\ settling' = {p \in mine : trades'[p].outcome \in Resolved}
  <2> DEFINE s == Head(todo)[1]
             t == Head(todo)[2]
             mine == {p \in Active : p.symbol = s}
             next(p) == Advance(Terms[p.strategy], trades[p], p.at, t, market[<<s, t>>].bar, Late(t))
  <2>1. /\ trades' = [p \in DOMAIN trades |-> IF p \in mine THEN next(p) ELSE trades[p]]
        /\ settling' = {p \in mine : next(p).outcome \in Resolved}
    BY DEF TakeBar
  <2>2. mine \subseteq DOMAIN trades /\ mine \subseteq Active
    BY DEF Active
  <2>3. ASSUME NEW p \in mine PROVE trades'[p] = next(p) /\ next(p).outcome \in Outcomes
    <3>1. Shaped(trades[p])
      BY <2>2 DEF LoopInv, Typed
    <3>2. Shaped(next(p))
      BY <3>1, AdvanceShape
    <3> HIDE DEF next
    <3> QED BY <2>1, <2>2, <3>2 DEF Shaped
  <2> HIDE DEF next, mine
  <2>4. settling' = {p \in mine : trades'[p].outcome \in Resolved}
    BY <2>1, <2>3
  <2>5. \A p \in DOMAIN trades \ mine : trades'[p] = trades[p]
    BY <2>1
  <2>6. \A p \in mine : trades'[p].outcome \in Outcomes
    BY <2>3
  <2> QED BY <2>2, <2>4, <2>5, <2>6
<1>4. Held' = Held
  <2>1. mine \subseteq DOMAIN trades /\ Active \subseteq DOMAIN trades
    BY <1>3 DEF Active
  <2>2. \A p \in Active \ mine : p \in Active'
    BY <1>1, <1>3 DEF Active
  <2>3. \A p \in mine : p \in Active' \/ p \in settling'
    BY <1>1, <1>3, <2>1 DEF Active, Outcomes
  <2>4. \A p \in Active' : p \in Active
    BY <1>1, <1>3 DEF Active
  <2> QED BY <1>2, <1>3, <2>2, <2>3, <2>4 DEF Held
<1>5. Unsaved \subseteq Unsaved'
  <2> SUFFICES ASSUME NEW p \in Unsaved PROVE p \in Unsaved'
    OBVIOUS
  <2>1. p \in DOMAIN trades /\ trades[p].outcome \in Resolved
    BY DEF Unsaved
  <2>2. p \notin Active
    BY <2>1 DEF Active, Resolved, Unresolved
  <2>3. p \notin settling' /\ trades'[p] = trades[p]
    BY <1>3, <2>1, <2>2
  <2> QED BY <1>1, <2>3 DEF Unsaved
<1>6. OpenRows' = OpenRows /\ Lost \subseteq Lost'
  BY <1>1, <1>5 DEF OpenRows, Lost
<1>7. Planned'
  BY <1>1 DEF LedgerInv, Planned
<1>8. (\A b : HeldBy(b)' = HeldBy(b)) /\ (\A k : HeldOf(k)' = HeldOf(k))
  BY <1>4 DEF HeldBy, HeldOf
<1>9. Exact' /\ Covered' /\ RowsTracked'
  BY <1>1, <1>8 DEF LedgerInv, Exact, Covered, RowsTracked, Running
<1>10. HeldApart' /\ OpenApart'
  BY <1>1, <1>4, <1>6 DEF LedgerInv, HeldApart, OpenApart
<1>11. Queued'
  BY <1>1 DEF Queued
<1> QED BY <1>7, <1>9, <1>10, <1>11 DEF LedgerInv

\* A settled plan gives its own slots back, whether the rest is abandoned or not.
LEMMA SettleReleases ==
  ASSUME LoopInv, LedgerInv, NEW p \in settling, Settle(p)
  PROVE  LedgerInv'
<1> DEFINE closed == RegisterClose(slots[Book(p)], ModuleOf[p.strategy], p.symbol, p.strategy)
<1>1. /\ UNCHANGED <<trades, market, unsaved, leaked>>
      /\ slots' = [slots EXCEPT ![Book(p)] = closed]
      /\ UNCHANGED tradeRow \/ tradeRow' = Upsert(tradeRow, p, trades[p])
  BY DEF Settle
<1>2. \/ /\ settling' = settling \ {p} /\ UNCHANGED <<setups, bar, pc, slipped>>
      \/ /\ settling' = {} /\ setups' = <<>> /\ slipped'
  BY Zenon DEF Settle, Abandon, NoWork
<1>3. pc = "ingest" /\ Running
  BY DEF LoopInv, Working, LiveTypeOK, Typed, Running
<1>4. setups = <<>> /\ setups' = <<>>
  BY <1>2 DEF LedgerInv, Queued
<1>5. /\ p \in DOMAIN trades /\ trades[p].outcome \in Resolved /\ p \in Plan
      /\ p \notin Active /\ p \in Held /\ Active' = Active
  <2>1. p \in DOMAIN trades /\ trades[p].outcome \in Resolved /\ p \in Plan
    BY DEF LoopInv, Working, LedgerInv, Planned
  <2> QED BY <1>1, <2>1 DEF Active, Held, Resolved, Unresolved
<1>6. Held' \subseteq Held \ {p} /\ (~slipped' => Held' = Held \ {p})
  BY <1>2, <1>5 DEF Held
<1>7. Book(p) \in Books /\ Pair(p) \in Pairs /\ BookOf(Pair(p)) = Book(p)
  BY <1>5 DEF Book, Books, BookOf, Pair, Pairs, Plan
<1>8. closed.plan = [slots[Book(p)].plan EXCEPT ![Pair(p)] = Decremented(@)]
  BY DEF RegisterClose, Pair
<1>9. DOMAIN slots = Books /\ \A b \in Books : slots[b].plan \in [Pairs -> Nat]
  BY DEF LedgerInv, Planned
<1> HIDE DEF closed
<1>10. slots'[Book(p)] = closed /\ \A b \in Books \ {Book(p)} : slots'[b] = slots[b]
  BY <1>1, <1>7, <1>9
<1>11. DOMAIN tradeRow' \subseteq DOMAIN tradeRow \cup {p} /\ IsFiniteSet(DOMAIN tradeRow')
  <2>1. DOMAIN tradeRow' = DOMAIN tradeRow \/ DOMAIN tradeRow' = DOMAIN tradeRow \cup {p}
    BY <1>1 DEF Upsert, With
  <2>2. IsFiniteSet(DOMAIN tradeRow)
    BY DEF LedgerInv, Planned
  <2> QED BY <2>1, <2>2, FS_AddElement
<1>12. Planned'
  <2>1. \A n \in Nat : Decremented(n) \in Nat
    BY DEF Decremented
  <2>2. closed.plan \in [Pairs -> Nat]
    BY <1>7, <1>8, <1>9, <2>1
  <2>3. DOMAIN slots' = Books /\ \A b \in Books : slots'[b].plan \in [Pairs -> Nat]
    BY <1>1, <1>9, <1>10, <2>2
  <2> QED BY <1>1, <1>4, <1>5, <1>11, <2>3 DEF LedgerInv, Planned
<1>13. Exact'
  <2> SUFFICES ASSUME ~slipped', NEW b \in Books PROVE slots'[b] = CountOf(HeldBy(b)')
    BY DEF Exact
  <2>1. slots[b] = CountOf(HeldBy(b))
    BY <1>2, <1>3 DEF LedgerInv, Exact
  <2>2. CASE b = Book(p)
    <3>1. HeldBy(b)' = HeldBy(b) \ {p} /\ p \in HeldBy(b)
      BY <1>5, <1>6, <2>2 DEF HeldBy
    <3>2. IsFiniteSet(HeldBy(b))
      BY HeldPlans
    <3>3. CountOf(HeldBy(b) \ {p}) = RegisterClose(CountOf(HeldBy(b)), ModuleOf[p.strategy], p.symbol, p.strategy)
      BY <1>5, <3>1, <3>2, CountOfLess
    <3> QED BY <1>10, <2>1, <2>2, <3>1, <3>3 DEF closed
  <2>3. CASE b # Book(p)
    <3>1. HeldBy(b)' = HeldBy(b)
      BY <1>6, <2>3 DEF HeldBy
    <3> QED BY <1>10, <2>1, <2>3, <3>1
  <2> QED BY <2>2, <2>3
<1>14. Covered'
  <2> SUFFICES ASSUME NEW k \in Pairs \ leaked PROVE Cardinality(HeldOf(k)') <= slots'[BookOf(k)].plan[k]
    BY <1>1 DEF Covered
  <2>1. Cardinality(HeldOf(k)) <= slots[BookOf(k)].plan[k] /\ IsFiniteSet(HeldOf(k))
    BY <1>3, HeldPlans DEF LedgerInv, Covered
  <2>2. BookOf(k) \in Books
    BY DEF BookOf, Books
  <2>3. HeldOf(k)' \subseteq HeldOf(k) \ {p}
    BY <1>6 DEF HeldOf
  <2>4. /\ IsFiniteSet(HeldOf(k) \ {p}) /\ Cardinality(HeldOf(k)') <= Cardinality(HeldOf(k) \ {p})
        /\ Cardinality(HeldOf(k)') \in Nat
    BY <2>1, <2>3, FS_RemoveElement, FS_Subset, FS_CardinalityType
  <2>5. Cardinality(HeldOf(k)) \in Nat /\ slots[BookOf(k)].plan[k] \in Nat
    BY <1>9, <2>1, <2>2, FS_CardinalityType
  <2>6. CASE k = Pair(p)
    <3>1. p \in HeldOf(k)
      BY <1>5, <2>6 DEF HeldOf
    <3>2. Cardinality(HeldOf(k) \ {p}) = Cardinality(HeldOf(k)) - 1
      BY <2>1, <3>1, FS_RemoveElement
    <3>3. slots'[BookOf(k)].plan[k] = Decremented(slots[BookOf(k)].plan[k])
      BY <1>7, <1>8, <1>9, <1>10, <2>6
    <3> QED BY <2>1, <2>4, <2>5, <3>2, <3>3 DEF Decremented
  <2>7. CASE k # Pair(p)
    <3>1. slots'[BookOf(k)].plan[k] = slots[BookOf(k)].plan[k]
      <4>1. CASE BookOf(k) = Book(p)
        BY <1>8, <1>9, <1>10, <2>2, <2>7, <4>1
      <4>2. CASE BookOf(k) # Book(p)
        BY <1>10, <2>2, <4>2
      <4> QED BY <4>1, <4>2
    <3>2. p \notin HeldOf(k)
      BY <2>7 DEF HeldOf
    <3>3. Cardinality(HeldOf(k) \ {p}) = Cardinality(HeldOf(k))
      BY <2>1, <3>2, FS_RemoveElement
    <3> QED BY <2>1, <2>4, <2>5, <3>1, <3>3
  <2> QED BY <2>6, <2>7
<1>15. RowsTracked'
  BY <1>1, <1>3, <1>5, <1>11 DEF LedgerInv, RowsTracked
<1>16. HeldApart'
  BY <1>1, <1>6 DEF LedgerInv, HeldApart
<1>17. OpenApart'
  <2>1. OpenRows' \subseteq OpenRows
    <3>1. CASE UNCHANGED tradeRow
      BY <3>1 DEF OpenRows
    <3>2. CASE tradeRow' = Upsert(tradeRow, p, trades[p])
      <4>1. trades[p].outcome \notin Unresolved
        BY <1>5 DEF Resolved, Unresolved
      <4>2. \A q \in DOMAIN tradeRow' : q # p => q \in DOMAIN tradeRow /\ tradeRow'[q] = tradeRow[q]
        BY <3>2 DEF Upsert, With
      <4>3. p \in DOMAIN tradeRow' => tradeRow'[p] = trades[p]
        BY <3>2 DEF Upsert, With
      <4> QED BY <4>1, <4>2, <4>3 DEF OpenRows
    <3> QED BY <1>1, <3>1, <3>2
  <2>2. \A q \in Unsaved : q \in OpenRows' => q \in Unsaved'
    <3>1. settling' \subseteq settling
      BY <1>2
    <3> QED BY <1>1, <3>1 DEF Unsaved, OpenRows
  <2>3. \A q \in OpenRows' : q \notin Lost' => q \in OpenRows /\ q \notin Lost
    BY <1>1, <2>1, <2>2 DEF Lost
  <2> QED BY <1>1, <2>3 DEF LedgerInv, OpenApart
<1>18. Queued'
  BY <1>4 DEF Queued
<1> QED BY <1>12, <1>13, <1>14, <1>15, <1>16, <1>17, <1>18 DEF LedgerInv

\* A set listed as a sequence: each of its members once.
LEMMA SeqOfSet ==
  ASSUME NEW S, IsFiniteSet(S), NEW T, S \subseteq T
  PROVE  /\ SetToSeq(S) \in Seq(T)
         /\ \A i \in 1..Len(SetToSeq(S)) : SetToSeq(S)[i] \in S
         /\ \A i, j \in 1..Len(SetToSeq(S)) : SetToSeq(S)[i] = SetToSeq(S)[j] => i = j
<1> SUFFICES ASSUME NEW c \in Nat, c = Cardinality(S), NEW s, s = SetToSeq(S)
             PROVE  /\ s \in Seq(T)
                    /\ \A i \in 1..Len(s) : s[i] \in S
                    /\ \A i, j \in 1..Len(s) : s[i] = s[j] => i = j
  BY FS_CardinalityType
<1>1. \E f \in [1..c -> S] : IsInjective(f)
  <2>1. PICK f : f \in Bijection(1..c, S)
    BY FS_CardinalityType DEF ExistsBijection
  <2> QED BY <2>1 DEF Bijection, Injection
<1>2. s \in [1..c -> S] /\ IsInjective(s)
  BY <1>1 DEF SetToSeq
<1>3. s \in Seq(T) /\ Len(s) = c /\ DOMAIN s = 1..c
  <2>1. s \in [1..c -> T]
    BY <1>2
  <2> QED BY <1>2, <2>1
<1>4. \A i \in 1..c : s[i] \in S
  BY <1>2
<1>5. \A i, j \in 1..c : s[i] = s[j] => i = j
  BY <1>2, <1>3 DEF IsInjective
<1> QED BY <1>3, <1>4, <1>5

Distinct(q) == \A i, j \in 1..Len(q) : q[i] = q[j] => i = j

\* Two sets without a common member, listed one after the other.
LEMMA SeqOfTwoSets ==
  ASSUME NEW A, IsFiniteSet(A), NEW B, IsFiniteSet(B), A \cap B = {}
  PROVE  LET q == SetToSeq(A) \o SetToSeq(B) IN q \in Seq(A \cup B) /\ Distinct(q)
<1> SUFFICES ASSUME NEW q, NEW a \in Seq(A \cup B), NEW b \in Seq(A \cup B), q = a \o b,
                    \A i \in 1..Len(a) : a[i] \in A,
                    \A i \in 1..Len(b) : b[i] \in B,
                    \A i, j \in 1..Len(a) : a[i] = a[j] => i = j,
                    \A i, j \in 1..Len(b) : b[i] = b[j] => i = j
             PROVE  q \in Seq(A \cup B) /\ Distinct(q)
  <2>1. A \subseteq A \cup B /\ B \subseteq A \cup B
    OBVIOUS
  <2> QED BY <2>1, SeqOfSet
<1>1. /\ q \in Seq(A \cup B) /\ Len(q) = Len(a) + Len(b) /\ Len(a) \in Nat /\ Len(b) \in Nat
      /\ \A i \in 1..Len(q) : q[i] = IF i <= Len(a) THEN a[i] ELSE b[i - Len(a)]
  OBVIOUS
<1>2. ASSUME NEW i \in 1..Len(q), NEW j \in 1..Len(q), q[i] = q[j] PROVE i = j
  <2>1. CASE i <= Len(a) /\ j <= Len(a)
    BY <1>1, <1>2, <2>1
  <2>2. CASE i > Len(a) /\ j > Len(a)
    <3>1. i - Len(a) \in 1..Len(b) /\ j - Len(a) \in 1..Len(b)
      BY <1>1, <2>2
    <3>2. b[i - Len(a)] = b[j - Len(a)]
      BY <1>1, <1>2, <2>2
    <3>3. i - Len(a) = j - Len(a)
      BY <3>1, <3>2
    <3> QED BY <1>1, <3>3
  <2>3. CASE i <= Len(a) /\ j > Len(a)
    <3>1. q[i] \in A
      BY <1>1, <2>3
    <3>2. j - Len(a) \in 1..Len(b) /\ q[j] = b[j - Len(a)]
      BY <1>1, <2>3
    <3> QED BY <1>2, <3>1, <3>2
  <2>4. CASE i > Len(a) /\ j <= Len(a)
    <3>1. q[j] \in A
      BY <1>1, <2>4
    <3>2. i - Len(a) \in 1..Len(b) /\ q[i] = b[i - Len(a)]
      BY <1>1, <2>4
    <3> QED BY <1>2, <3>1, <3>2
  <2> QED BY <1>1, <2>1, <2>2, <2>3, <2>4
<1> QED BY <1>1, <1>2 DEF Distinct

\* What passes the gates is of different pairs, and none of them holds a plan.
LEMMA EvaluatePasses ==
  ASSUME LoopInv, LedgerInv, Evaluate
  PROVE  LedgerInv'
<1>1. /\ UNCHANGED <<market, pc, trades, tradeRow, slots, settling, unsaved, leaked, slipped>>
      /\ pc = "ingest" /\ bar # NoBar /\ bar' = NoBar /\ settling = {}
  BY DEF Evaluate, store, memory, history
<1> DEFINE room(g) == HasRoom(slots[Book([strategy |-> g])], ModuleOf[g], bar[1], g)
           passed == {g \in market[bar].signals : room(g)}
           plan(g) == [symbol |-> bar[1], strategy |-> g, at |-> bar[2]]
           inOrder == SetToSeq(passed \ Research) \o SetToSeq(passed \cap Research)
<1>2. setups' = <<>> \/ setups' = [i \in DOMAIN inOrder |-> plan(inOrder[i])]
  BY DEF Evaluate
<1>3. bar \in DOMAIN market /\ bar[1] \in Symbol /\ bar[2] \in Nat
  <2>1. bar \in DOMAIN market /\ DOMAIN market \subseteq Symbol \X (1..now) /\ now \in Nat
    BY <1>1, SessionsHaveBars DEF LoopInv, Typed, LiveTypeOK
  <2> QED BY <2>1
<1>4. passed \subseteq Strategy /\ IsFiniteSet(passed \ Research) /\ IsFiniteSet(passed \cap Research)
  <2>1. passed \subseteq Strategy
    BY <1>3 DEF LedgerInv, Planned
  <2> HIDE DEF passed
  <2> QED BY <2>1, StrategiesAreRegistered, FS_Subset
<1>5. inOrder \in Seq(passed) /\ Distinct(inOrder)
  <2> HIDE DEF passed
  <2>1. (passed \ Research) \cup (passed \cap Research) = passed /\ (passed \ Research) \cap (passed \cap Research) = {}
    OBVIOUS
  <2> DEFINE A == passed \ Research
             B == passed \cap Research
  <2>2. inOrder = SetToSeq(A) \o SetToSeq(B) /\ IsFiniteSet(A) /\ IsFiniteSet(B) /\ A \cap B = {} /\ A \cup B = passed
    BY <1>4, <2>1
  <2> HIDE DEF A, B, inOrder
  <2>3. inOrder \in Seq(A \cup B) /\ Distinct(inOrder)
    BY ONLY <2>2, SeqOfTwoSets
  <2> QED BY <2>2, <2>3
<1>6. ASSUME NEW g \in passed, <<bar[1], g>> \notin leaked
      PROVE  HeldOf(<<bar[1], g>>) = {}
  <2>1. <<bar[1], g>> \in Pairs \ leaked
    BY <1>3, <1>4, <1>6 DEF Pairs
  <2>2. BookOf(<<bar[1], g>>) = Book([strategy |-> g])
    BY DEF BookOf, Book
  <2>3. slots[Book([strategy |-> g])].plan[<<bar[1], g>>] = 0
    BY DEF HasRoom
  <2>4. Cardinality(HeldOf(<<bar[1], g>>)) <= slots[BookOf(<<bar[1], g>>)].plan[<<bar[1], g>>]
    BY <1>1, <2>1 DEF LedgerInv, Covered, Running
  <2>5. Cardinality(HeldOf(<<bar[1], g>>)) \in Nat /\ IsFiniteSet(HeldOf(<<bar[1], g>>))
    BY HeldPlans
  <2>6. Cardinality(HeldOf(<<bar[1], g>>)) = 0
    BY <2>2, <2>3, <2>4, <2>5
  <2> QED BY <2>5, <2>6, FS_EmptySet
<1>7. Held' = Held
  BY <1>1 DEF Held, Active
<1> HIDE DEF passed, inOrder
<1>8. setups' \in Seq(Plan) /\ Queued'
  <2>1. CASE setups' = <<>>
    BY <2>1, EmptySeq DEF Queued
  <2>2. CASE setups' = [i \in DOMAIN inOrder |-> plan(inOrder[i])]
    <3>1. DOMAIN inOrder = 1..Len(inOrder) /\ Len(inOrder) \in Nat /\ \A i \in 1..Len(inOrder) : inOrder[i] \in passed
      BY <1>5
    <3>2. \A g \in passed : plan(g) \in Plan
      BY <1>3, <1>4 DEF Plan
    <3>3. setups' \in Seq(Plan) /\ Len(setups') = Len(inOrder)
      <4>1. setups' \in [1..Len(inOrder) -> Plan]
        BY <2>2, <3>1, <3>2
      <4> QED BY <3>1, <4>1
    <3>4. \A i \in 1..Len(inOrder) : Pair(setups'[i]) = <<bar[1], inOrder[i]>>
      BY <2>2, <3>1 DEF Pair
    <3>5. (\A i \in 1..Len(setups) : Pair(setups[i]) \notin leaked => HeldOf(Pair(setups[i])) = {})'
      <4> SUFFICES ASSUME NEW i \in 1..Len(setups'), Pair(setups'[i]) \notin leaked'
                   PROVE  {p \in Held' : Pair(p) = Pair(setups'[i])} = {}
        BY DEF HeldOf
      <4>1. inOrder[i] \in passed /\ Pair(setups'[i]) = <<bar[1], inOrder[i]>>
        BY <3>1, <3>3, <3>4
      <4>2. HeldOf(<<bar[1], inOrder[i]>>) = {}
        BY <1>1, <1>6, <4>1
      <4> QED BY <1>7, <4>1, <4>2 DEF HeldOf
    <3>6. \A i, j \in 1..Len(setups') : Pair(setups'[i]) = Pair(setups'[j]) => i = j
      BY <1>5, <3>1, <3>3, <3>4 DEF Distinct
    <3> QED BY <1>1, <3>3, <3>5, <3>6 DEF Queued
  <2> QED BY <1>2, <2>1, <2>2
<1>9. \A k \in DOMAIN market' : market'[k].signals \subseteq Strategy
  BY <1>1 DEF LedgerInv, Planned
<1>10. Running' => Running
  BY <1>1 DEF Running
<1> QED BY <1>1, <1>8, <1>9, <1>10, QuietKeeps

\* Recording the first of the setups tracks its plan and takes its slot, or
\* leaves both as they are, or tracks the plan and leaks its slot.
LEMMA RecordCases ==
  ASSUME RecordSetup
  PROVE  LET p == Head(setups) IN
         /\ setups # <<>> /\ UNCHANGED <<market, unsaved>>
         /\ \/ UNCHANGED <<setups, bar, pc, slipped, settling>>
            \/ setups' = Tail(setups) /\ UNCHANGED <<bar, pc, slipped, settling>>
            \/ setups' = <<>> /\ settling' = {} /\ slipped'
         /\ \/ UNCHANGED <<trades, tradeRow, slots, leaked>>
            \/ /\ p \notin DOMAIN trades /\ trades' = With(trades, p, NewTrade) /\ slipped'
               /\ leaked' = leaked \cup {Pair(p)} /\ UNCHANGED <<tradeRow, slots>>
            \/ /\ p \notin DOMAIN trades /\ trades' = With(trades, p, NewTrade)
               /\ UNCHANGED tradeRow \/ tradeRow' = With(tradeRow, p, NewTrade)
               /\ slots' = [slots EXCEPT ![Book(p)] = RegisterOpen(@, ModuleOf[p.strategy], p.symbol, p.strategy)]
               /\ UNCHANGED leaked
BY Zenon DEF RecordSetup, Abandon, NoWork, Upsert

\* A plan that is tracked leaves the setups, alone or with the rest of them.
LEMMA RecordMoves ==
  ASSUME RecordSetup, ~(UNCHANGED trades)
  PROVE  (setups' = Tail(setups) /\ UNCHANGED <<bar, settling>>) \/ setups' = <<>>
BY Zenon DEF RecordSetup, Abandon, NoWork

\* The setups that are left are still of different pairs that hold nothing.
LEMMA QueueMoves ==
  ASSUME LoopInv, LedgerInv, setups # <<>>, setups' \in {Tail(setups), <<>>}, leaked \subseteq leaked',
         setups' # <<>> => UNCHANGED <<bar, settling>>,
         \A q \in Held' : q \in Held \/ q = Head(setups)
  PROVE  Queued' /\ setups' \in Seq(Plan)
<1>1. setups \in Seq(Plan)
  BY DEF LedgerInv, Planned
<1>2. CASE setups' = <<>>
  BY <1>2, EmptySeq DEF Queued
<1>3. CASE setups' = Tail(setups) /\ setups' # <<>>
  <2> SUFFICES ASSUME NEW s \in Seq(Plan), s = setups, s # <<>>, NEW t, t = Tail(s), setups' = t
               PROVE  Queued' /\ setups' \in Seq(Plan)
    BY <1>1, <1>3
  <2>1. /\ t \in Seq(Plan) /\ Len(t) = Len(s) - 1 /\ Len(s) \in Nat /\ Head(s) = s[1]
        /\ \A i \in 1..Len(t) : t[i] = s[i + 1]
    OBVIOUS
  <2>2. ASSUME NEW i \in 1..Len(t)
        PROVE  i + 1 \in 1..Len(s) /\ i + 1 # 1 /\ 1 \in 1..Len(s)
    BY <2>1
  <2>3. /\ \A i \in 1..Len(s) : Pair(s[i]) \notin leaked => HeldOf(Pair(s[i])) = {}
        /\ \A i, j \in 1..Len(s) : Pair(s[i]) = Pair(s[j]) => i = j
    BY DEF LedgerInv, Queued
  <2>4. ASSUME NEW i \in 1..Len(t), Pair(t[i]) \notin leaked' PROVE {q \in Held' : Pair(q) = Pair(t[i])} = {}
    <3>1. Pair(t[i]) \notin leaked /\ t[i] = s[i + 1] /\ i + 1 \in 1..Len(s)
      BY <2>1, <2>2, <2>4
    <3>2. HeldOf(Pair(t[i])) = {}
      BY <2>3, <3>1
    <3>3. Pair(Head(s)) # Pair(t[i])
      BY <2>1, <2>2, <2>3, <3>1
    <3> QED BY <3>2, <3>3 DEF HeldOf
  <2>5. ASSUME NEW i \in 1..Len(t), NEW j \in 1..Len(t), Pair(t[i]) = Pair(t[j]) PROVE i = j
    <3>1. t[i] = s[i + 1] /\ t[j] = s[j + 1] /\ i + 1 \in 1..Len(s) /\ j + 1 \in 1..Len(s)
      BY <2>1, <2>2
    <3>2. i + 1 = j + 1
      BY <2>3, <2>5, <3>1
    <3> QED BY <3>2
  <2>6. (\A i \in 1..Len(setups) : Pair(setups[i]) \notin leaked => HeldOf(Pair(setups[i])) = {})'
    BY <2>4 DEF HeldOf
  <2>7. bar' = NoBar /\ settling' = {}
    BY <1>3 DEF LedgerInv, Queued
  <2> QED BY <2>1, <2>5, <2>6, <2>7 DEF Queued
<1> QED BY <1>2, <1>3

LEMMA RecordTakes ==
  ASSUME LoopInv, LedgerInv, RecordSetup
  PROVE  LedgerInv'
<1> DEFINE p == Head(setups)
<1>1. setups # <<>> /\ UNCHANGED <<market, unsaved>>
  BY RecordCases
<1>2. bar = NoBar /\ settling = {} /\ pc = "ingest" /\ Running
  BY <1>1 DEF LedgerInv, Queued, LoopInv, Working, Running
<1>3. settling' = {} /\ (slipped => slipped')
  <2>1. settling' = settling \/ settling' = {}
    BY RecordCases
  <2>2. slipped' = slipped \/ slipped'
    BY RecordCases
  <2> QED BY <1>2, <2>1, <2>2
<1>4. p \in Plan /\ Pair(p) \in Pairs /\ Book(p) \in Books /\ BookOf(Pair(p)) = Book(p)
  <2>1. p \in Plan
    BY <1>1, HeadTailProperties DEF LedgerInv, Planned
  <2> HIDE DEF p
  <2> QED BY <2>1 DEF Plan, Pair, Pairs, Book, Books, BookOf
<1>5. Held = Active /\ Held' = Active'
  BY <1>2, <1>3 DEF Held
<1>6. \A k \in DOMAIN market' : market'[k].signals \subseteq Strategy
  BY <1>1 DEF LedgerInv, Planned
<1> HIDE DEF p
<1>7. CASE UNCHANGED <<trades, tradeRow, slots, leaked>>
  <2>1. Held' = Held /\ OpenRows' = OpenRows /\ Lost' = Lost
    BY <1>1, <1>2, <1>3, <1>7 DEF Held, Active, OpenRows, Lost, Unsaved
  <2>2. (\A b : HeldBy(b)' = HeldBy(b)) /\ (\A k : HeldOf(k)' = HeldOf(k))
    BY <2>1 DEF HeldBy, HeldOf
  <2>3. Queued' /\ setups' \in Seq(Plan)
    <3>1. CASE UNCHANGED <<setups, bar, settling>>
      BY <1>7, <2>2, <3>1 DEF LedgerInv, Queued, Planned
    <3>2. CASE setups' = Tail(setups) /\ UNCHANGED <<bar, settling>>
      BY <1>1, <1>7, <2>1, <3>2, QueueMoves
    <3>3. CASE setups' = <<>>
      BY <1>1, <1>7, <2>1, <3>3, QueueMoves
    <3> QED BY <3>1, <3>2, <3>3, RecordCases
  <2>4. Planned'
    BY <1>6, <1>7, <2>3 DEF LedgerInv, Planned
  <2>5. Exact' /\ Covered' /\ RowsTracked'
    BY <1>2, <1>3, <1>7, <2>2 DEF LedgerInv, Exact, Covered, RowsTracked
  <2>6. HeldApart' /\ OpenApart'
    BY <1>1, <1>7, <2>1 DEF LedgerInv, HeldApart, OpenApart
  <2> QED BY <2>3, <2>4, <2>5, <2>6 DEF LedgerInv
<1>8. ASSUME p \notin DOMAIN trades, trades' = With(trades, p, NewTrade), leaked \subseteq leaked',
             UNCHANGED tradeRow \/ tradeRow' = With(tradeRow, p, NewTrade)
      PROVE  /\ Held' = Held \cup {p} /\ p \notin Held
             /\ DOMAIN trades' = DOMAIN trades \cup {p} /\ DOMAIN tradeRow' \subseteq DOMAIN tradeRow \cup {p}
             /\ RowsTracked' /\ Queued' /\ setups' \in Seq(Plan)
             /\ OpenRows' \subseteq OpenRows \cup {p} /\ Lost \subseteq Lost'
  <2>1. DOMAIN trades' = DOMAIN trades \cup {p} /\ trades'[p] = NewTrade /\ \A q \in DOMAIN trades : trades'[q] = trades[q]
    BY <1>8 DEF With
  <2>2. \/ UNCHANGED tradeRow
        \/ /\ DOMAIN tradeRow' = DOMAIN tradeRow \cup {p}
           /\ \A q \in DOMAIN tradeRow : q # p => tradeRow'[q] = tradeRow[q]
    BY <1>8 DEF With
  <2>3. NewTrade.outcome \in Unresolved
    BY DEF NewTrade, Unresolved
  <2>4. Active' = Active \cup {p} /\ p \notin Active
    BY <1>8, <2>1, <2>3 DEF Active
  <2>5. Queued' /\ setups' \in Seq(Plan)
    <3>1. \A q \in Held' : q \in Held \/ q = Head(setups)
      BY <1>5, <2>4 DEF p
    <3>2. \/ setups' = Tail(setups) /\ UNCHANGED <<bar, settling>>
          \/ setups' = <<>>
      <4>1. ~(UNCHANGED trades)
        BY <1>8, <2>1
      <4> QED BY Zenon, <4>1, RecordMoves
    <3> QED BY <1>1, <1>8, <3>1, <3>2, QueueMoves
  <2>6. p \notin DOMAIN tradeRow
    BY <1>2, <1>8 DEF LedgerInv, RowsTracked
  <2>7. Unsaved \subseteq Unsaved'
    <3> SUFFICES ASSUME NEW q \in Unsaved PROVE q \in Unsaved'
      OBVIOUS
    <3>1. q \in DOMAIN trades /\ q \in DOMAIN tradeRow /\ q # p
      BY <2>6 DEF Unsaved
    <3>2. trades'[q] = trades[q] /\ q \in DOMAIN tradeRow' /\ tradeRow'[q] = tradeRow[q]
      BY <2>1, <2>2, <3>1
    <3> QED BY <1>3, <2>1, <3>1, <3>2 DEF Unsaved
  <2>8. DOMAIN tradeRow' \subseteq DOMAIN tradeRow \cup {p} /\ OpenRows' \subseteq OpenRows \cup {p}
    BY <2>2 DEF OpenRows
  <2>9. RowsTracked'
    BY <1>2, <2>1, <2>8 DEF LedgerInv, RowsTracked
  <2> QED BY <1>1, <1>5, <2>1, <2>4, <2>5, <2>7, <2>8, <2>9 DEF Lost
<1>9. ASSUME NEW rows, IsFiniteSet(rows), rows \subseteq Plan, NEW more, more \subseteq rows \cup {p}
      PROVE  IsFiniteSet(more) /\ more \subseteq Plan
  BY <1>4, <1>9, FS_AddElement, FS_Subset
<1>10. CASE /\ p \notin DOMAIN trades /\ trades' = With(trades, p, NewTrade) /\ slipped'
            /\ leaked' = leaked \cup {Pair(p)} /\ UNCHANGED <<tradeRow, slots>>
  <2>1. /\ Held' = Held \cup {p}
        /\ DOMAIN trades' = DOMAIN trades \cup {p}
        /\ RowsTracked' /\ Queued' /\ setups' \in Seq(Plan) /\ Lost \subseteq Lost'
    BY <1>8, <1>10
  <2>2. Planned'
    <3>1. IsFiniteSet(DOMAIN trades') /\ DOMAIN trades' \subseteq Plan
      BY <1>9, <2>1 DEF LedgerInv, Planned
    <3> QED BY <1>6, <1>10, <2>1, <3>1 DEF LedgerInv, Planned
  <2>3. Exact'
    BY <1>10 DEF Exact
  <2>4. Covered'
    <3>1. \A k \in Pairs \ leaked' : HeldOf(k)' = HeldOf(k)
      BY <1>10, <2>1 DEF HeldOf
    <3> QED BY <1>2, <1>10, <3>1 DEF LedgerInv, Covered
  <2>5. HeldApart'
    BY <1>1, <1>10, <2>1 DEF LedgerInv, HeldApart
  <2>6. OpenApart'
    <3>1. OpenRows' = OpenRows
      BY <1>10 DEF OpenRows
    <3> QED BY <1>10, <2>1, <3>1 DEF LedgerInv, OpenApart
  <2> QED BY <2>1, <2>2, <2>3, <2>4, <2>5, <2>6 DEF LedgerInv
<1>11. CASE /\ p \notin DOMAIN trades /\ trades' = With(trades, p, NewTrade)
            /\ UNCHANGED tradeRow \/ tradeRow' = With(tradeRow, p, NewTrade)
            /\ slots' = [slots EXCEPT ![Book(p)] = RegisterOpen(@, ModuleOf[p.strategy], p.symbol, p.strategy)]
            /\ UNCHANGED leaked
  <2> DEFINE opened == RegisterOpen(slots[Book(p)], ModuleOf[p.strategy], p.symbol, p.strategy)
  <2>1. /\ Held' = Held \cup {p} /\ p \notin Held
        /\ DOMAIN trades' = DOMAIN trades \cup {p} /\ DOMAIN tradeRow' \subseteq DOMAIN tradeRow \cup {p}
        /\ RowsTracked' /\ Queued' /\ setups' \in Seq(Plan)
        /\ OpenRows' \subseteq OpenRows \cup {p} /\ Lost \subseteq Lost'
    BY <1>8, <1>11
  <2>2. DOMAIN slots = Books /\ \A b \in Books : slots[b].plan \in [Pairs -> Nat]
    BY DEF LedgerInv, Planned
  <2>3. opened.plan = [slots[Book(p)].plan EXCEPT ![Pair(p)] = @ + 1]
    BY DEF RegisterOpen, Pair
  <2>4. slots' = [slots EXCEPT ![Book(p)] = opened]
    BY <1>11
  <2> HIDE DEF opened
  <2>5. slots'[Book(p)] = opened /\ \A b \in Books \ {Book(p)} : slots'[b] = slots[b]
    BY <1>4, <2>2, <2>4
  <2>6. Planned'
    <3>1. IsFiniteSet(DOMAIN trades') /\ DOMAIN trades' \subseteq Plan
      BY <1>9, <2>1 DEF LedgerInv, Planned
    <3>2. IsFiniteSet(DOMAIN tradeRow') /\ DOMAIN tradeRow' \subseteq Plan
      BY <1>9, <2>1 DEF LedgerInv, Planned
    <3>3. opened.plan \in [Pairs -> Nat]
      BY <1>4, <2>2, <2>3
    <3>4. DOMAIN slots' = Books /\ \A b \in Books : slots'[b].plan \in [Pairs -> Nat]
      BY <2>2, <2>4, <2>5, <3>3
    <3> QED BY <1>6, <2>1, <3>1, <3>2, <3>4 DEF Planned
  <2>7. Exact'
    <3> SUFFICES ASSUME ~slipped', NEW b \in Books PROVE slots'[b] = CountOf(HeldBy(b)')
      BY DEF Exact
    <3>1. slots[b] = CountOf(HeldBy(b))
      BY <1>2, <1>3 DEF LedgerInv, Exact
    <3>2. CASE b = Book(p)
      <4>1. HeldBy(b)' = HeldBy(b) \cup {p} /\ p \notin HeldBy(b)
        BY <2>1, <3>2 DEF HeldBy
      <4>2. IsFiniteSet(HeldBy(b))
        BY HeldPlans
      <4>3. CountOf(HeldBy(b) \cup {p}) = RegisterOpen(CountOf(HeldBy(b)), ModuleOf[p.strategy], p.symbol, p.strategy)
        BY <1>4, <4>1, <4>2, CountOfMore
      <4> QED BY <2>5, <3>1, <3>2, <4>1, <4>3 DEF opened
    <3>3. CASE b # Book(p)
      <4>1. HeldBy(b)' = HeldBy(b)
        BY <2>1, <3>3 DEF HeldBy
      <4> QED BY <2>5, <3>1, <3>3, <4>1
    <3> QED BY <3>2, <3>3
  <2>8. Covered'
    <3> SUFFICES ASSUME NEW k \in Pairs \ leaked PROVE Cardinality(HeldOf(k)') <= slots'[BookOf(k)].plan[k]
      BY <1>11 DEF Covered
    <3>1. /\ Cardinality(HeldOf(k)) <= slots[BookOf(k)].plan[k]
          /\ IsFiniteSet(HeldOf(k)) /\ Cardinality(HeldOf(k)) \in Nat
      BY <1>2, HeldPlans DEF LedgerInv, Covered
    <3>2. BookOf(k) \in Books
      BY DEF BookOf, Books
    <3>3. slots[BookOf(k)].plan[k] \in Nat
      BY <2>2, <3>2
    <3>4. CASE k = Pair(p)
      <4>1. HeldOf(k)' = HeldOf(k) \cup {p} /\ p \notin HeldOf(k)
        BY <2>1, <3>4 DEF HeldOf
      <4>2. Cardinality(HeldOf(k)') = Cardinality(HeldOf(k)) + 1
        BY <3>1, <4>1, FS_AddElement
      <4>3. slots'[BookOf(k)].plan[k] = slots[BookOf(k)].plan[k] + 1
        BY <1>4, <2>2, <2>3, <2>5, <3>4
      <4> QED BY <3>1, <3>3, <4>2, <4>3
    <3>5. CASE k # Pair(p)
      <4>1. HeldOf(k)' = HeldOf(k)
        BY <2>1, <3>5 DEF HeldOf
      <4>2. slots'[BookOf(k)].plan[k] = slots[BookOf(k)].plan[k]
        <5>1. CASE BookOf(k) = Book(p)
          BY <2>2, <2>3, <2>5, <3>2, <3>5, <5>1
        <5>2. CASE BookOf(k) # Book(p)
          BY <2>5, <3>2, <5>2
        <5> QED BY <5>1, <5>2
      <4> QED BY <3>1, <4>1, <4>2
    <3> QED BY <3>4, <3>5
  <2>9. Pair(p) \notin leaked => \A q \in Held : Pair(q) # Pair(p)
    <3>1. 1 \in 1..Len(setups) /\ setups[1] = p
      BY <1>1 DEF LedgerInv, Planned, p
    <3>2. Pair(p) \notin leaked => HeldOf(Pair(p)) = {}
      BY <1>1, <3>1 DEF LedgerInv, Queued
    <3> QED BY <3>2 DEF HeldOf
  <2>10. HeldApart'
    BY <1>1, <1>11, <2>1, <2>9 DEF LedgerInv, HeldApart
  <2>11. OpenRows \ Lost \subseteq Held
    <3> SUFFICES ASSUME NEW q \in OpenRows, q \notin Lost, q \notin Held PROVE FALSE
      OBVIOUS
    <3>1. q \in DOMAIN trades /\ q \in DOMAIN tradeRow /\ tradeRow[q].outcome \in Unresolved
      BY <1>2 DEF LedgerInv, RowsTracked, OpenRows
    <3>2. trades[q].outcome \in Outcomes
      BY <3>1 DEF LoopInv, Typed, Shaped
    <3>3. trades[q].outcome \in Resolved
      BY <1>5, <3>1, <3>2 DEF Active, Outcomes
    <3> QED BY <1>2, <3>1, <3>3 DEF Lost, Unsaved
  <2>12. OpenApart'
    <3>1. \A q \in OpenRows' : q \notin Lost' => q = p \/ (q \in OpenRows /\ q \notin Lost)
      BY <2>1
    <3> QED BY <1>11, <2>9, <2>11, <3>1 DEF LedgerInv, OpenApart
  <2> QED BY <2>1, <2>6, <2>7, <2>8, <2>10, <2>12 DEF LedgerInv
<1> QED
  <2>1. \/ UNCHANGED <<trades, tradeRow, slots, leaked>>
        \/ /\ p \notin DOMAIN trades /\ trades' = With(trades, p, NewTrade) /\ slipped'
           /\ leaked' = leaked \cup {Pair(p)} /\ UNCHANGED <<tradeRow, slots>>
        \/ /\ p \notin DOMAIN trades /\ trades' = With(trades, p, NewTrade)
           /\ UNCHANGED tradeRow \/ tradeRow' = With(tradeRow, p, NewTrade)
           /\ slots' = [slots EXCEPT ![Book(p)] = RegisterOpen(@, ModuleOf[p.strategy], p.symbol, p.strategy)]
           /\ UNCHANGED leaked
    BY Zenon, RecordCases DEF p
  <2> QED BY <1>7, <1>10, <1>11, <2>1

-----------------------------------------------------------------------------
(* The theorems.                                                           *)

\* The inductive invariant of ledger and slots, for any number of symbols and
\* strategies, any signals, and any sequence of crashes and outages.
THEOREM LedgerInvariant == LiveSpec => []LedgerInv
<1>1. LiveInit => LedgerInv
  BY LedgerInit
<1>2. LoopInv /\ LedgerInv /\ [LiveNext]_liveVars => LedgerInv'
  <2> SUFFICES ASSUME LoopInv, LedgerInv, [LiveNext]_liveVars PROVE LedgerInv'
    OBVIOUS
  <2>1. CASE Tick \/ StoreFails \/ StoreRecovers \/ Restart \/ Poll \/ FinishIngest \/ UNCHANGED liveVars
    BY <2>1, QuietSteps
  <2>2. CASE Crash
    BY <2>2, CrashLosesNothingElse
  <2>3. CASE Boot
    BY <2>3, BootRestores
  <2>4. CASE TakeBar
    BY <2>4, TakeBarHolds
  <2>5. CASE \E p \in settling : Settle(p)
    BY <2>5, SettleReleases
  <2>6. CASE Evaluate
    BY <2>6, EvaluatePasses
  <2>7. CASE RecordSetup
    BY <2>7, RecordTakes
  <2> QED BY <2>1, <2>2, <2>3, <2>4, <2>5, <2>6, <2>7 DEF LiveNext
<1> QED BY <1>1, <1>2, LoopInvariant, PTL DEF LiveSpec

\* veto.py: each counter of each book is the number of plans that hold its
\* slot, through restarts, replays and duplicates, while no bar was abandoned.
THEOREM SlotsAlwaysMatch == LiveSpec => []SlotsMatchLedger
<1>1. LoopInv /\ LedgerInv => SlotsMatchLedger
  <2> SUFFICES ASSUME LoopInv, LedgerInv, Running, ~slipped, NEW b \in Books
               PROVE  LET held == {p \in Active \cup settling : Book(p) = b} IN
                      /\ \A m \in DOMAIN slots[b].module :
                           slots[b].module[m] = Cardinality({p \in held : ModuleOf[p.strategy] = m})
                      /\ \A c \in DOMAIN slots[b].cluster :
                           slots[b].cluster[c] = Cardinality({p \in held : ClusterOf[p.symbol] = c})
                      /\ \A k \in DOMAIN slots[b].plan :
                           slots[b].plan[k] = Cardinality({p \in held : Pair(p) = k})
    BY DEF SlotsMatchLedger, Running
  <2>1. slots[b] = CountOf(HeldBy(b)) /\ HeldBy(b) \subseteq Plan
    BY HeldPlans DEF LedgerInv, Exact
  <2>2. HeldBy(b) = {p \in Active \cup settling : Book(p) = b}
    BY DEF HeldBy, Held
  <2>3. ASSUME NEW m \in DOMAIN slots[b].module
        PROVE  slots[b].module[m] = Cardinality({p \in HeldBy(b) : ModuleOf[p.strategy] = m})
    BY <2>1, <2>3, CountsAre
  <2>4. ASSUME NEW c \in DOMAIN slots[b].cluster
        PROVE  slots[b].cluster[c] = Cardinality({p \in HeldBy(b) : ClusterOf[p.symbol] = c})
    BY <2>1, <2>4, CountsAre
  <2>5. ASSUME NEW k \in DOMAIN slots[b].plan
        PROVE  slots[b].plan[k] = Cardinality({p \in HeldBy(b) : Pair(p) = k})
    BY <2>1, <2>5, CountsAre
  <2> QED BY <2>2, <2>3, <2>4, <2>5
<1> QED BY <1>1, LoopInvariant, LedgerInvariant, PTL

\* veto.py's duplicate guard holds where it matters: two plans of one strategy
\* on one symbol never run at once, whatever a restart replays, unless the
\* store lost the settlement of one, or refused the row of one when it opened.
THEOREM OnePlanActive == LiveSpec => []OneActivePlan
<1>1. LedgerInv => OneActivePlan
  BY DEF LedgerInv, HeldApart, Held, OneActivePlan
<1> QED BY <1>1, LedgerInvariant, PTL
=============================================================================
