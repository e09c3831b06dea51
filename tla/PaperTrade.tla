----------------------------- MODULE PaperTrade -----------------------------
(***************************************************************************)
(* One paper trade of the learning ledger (paper.py): what a five-minute   *)
(* bar does to it, and, independently of that, what its printed plan says  *)
(* the whole series of bars makes of it.                                   *)
(*                                                                         *)
(* A plan's terms are a record [long, entry, stop, targets, zeroDte,       *)
(* validity] in whole price units; a bar is [low, high, close] and closes  *)
(* at a tick; late says that it closes at or after 15:55 ET.  Profit is in *)
(* hundredths of a price unit: the code's realized_r times risk times 100. *)
(***************************************************************************)
EXTENDS Integers, Sequences, FiniteSets, FiniteSetsExt

Unresolved == {"PENDING", "OPEN"}
Resolved   == {"EXPIRED_UNFILLED", "STOPPED", "STOPPED_AFTER_BE", "TP_FULL", "FLATTENED_TIME"}
Outcomes   == Unresolved \cup Resolved
Tranches   == <<33, 33, 34>>

NewTrade == [outcome |-> "PENDING", filled |-> 0, exit |-> 0, profit |-> 0, tranches |-> 0]

Gain(terms, price) == IF terms.long THEN price - terms.entry ELSE terms.entry - price
StopHit(terms, bar, stop) == IF terms.long THEN bar.low <= stop ELSE bar.high >= stop
Reached(terms, bar, target) == IF terms.long THEN bar.high >= target ELSE bar.low <= target

\* Profit of the first n tranches at their targets and of the rest at price.
ProfitAt(terms, n, price) ==
  LET part == [i \in 1..3 |-> Tranches[i] * Gain(terms, IF i <= n THEN terms.targets[i] ELSE price)]
  IN MapThenSumSet(LAMBDA i : part[i], 1..3)

Resolve(trade, outcome, t, profit) ==
  [trade EXCEPT !.outcome = outcome, !.exit = t, !.profit = profit]

\* A pending plan fills when the bar trades through its limit, and is stopped
\* by the bar that fills it when that bar also reaches the stop.
Fill(terms, trade, created, t, bar) ==
  LET filled == [trade EXCEPT !.outcome = "OPEN", !.filled = t] IN
  IF t > created + terms.validity THEN Resolve(trade, "EXPIRED_UNFILLED", t, 0)
  ELSE IF ~(bar.low <= terms.entry /\ terms.entry <= bar.high) THEN trade
  ELSE IF StopHit(terms, bar, terms.stop)
       THEN Resolve(filled, "STOPPED", t, 100 * Gain(terms, terms.stop))
       ELSE filled

\* An open trade: the stop (at break-even once a tranche is out) resolves
\* before any target of the same bar; a bar may take several targets.
Manage(terms, trade, t, bar, late) ==
  LET n    == trade.tranches
      stop == IF n >= 1 THEN terms.entry ELSE terms.stop
      hit  == CHOOSE m \in n..3 : /\ \A i \in (n + 1)..m : Reached(terms, bar, terms.targets[i])
                                  /\ m < 3 => ~Reached(terms, bar, terms.targets[m + 1])
      next == [trade EXCEPT !.tranches = hit]
  IN IF StopHit(terms, bar, stop)
     THEN Resolve(trade, IF n >= 1 THEN "STOPPED_AFTER_BE" ELSE "STOPPED", t, ProfitAt(terms, n, stop))
     ELSE IF hit = 3 THEN Resolve(next, "TP_FULL", t, ProfitAt(terms, 3, terms.entry))
     ELSE IF terms.zeroDte /\ late
     THEN Resolve(next, "FLATTENED_TIME", t, ProfitAt(terms, hit, bar.close))
     ELSE next

\* Fault: bars from before the plan or its fill count as well.
FaultyAdvance(terms, trade, created, t, bar, late) ==
  IF trade.outcome = "PENDING" THEN Fill(terms, trade, created, t, bar)
  ELSE Manage(terms, trade, t, bar, late)

\* _advance: bars at or before the creation (or the recorded fill) are ignored.
Advance(terms, trade, created, t, bar, late) ==
  LET notBefore == IF trade.outcome = "PENDING" THEN created ELSE trade.filled IN
  IF t <= notBefore THEN trade
  ELSE IF trade.outcome = "PENDING" THEN Fill(terms, trade, created, t, bar)
  ELSE Manage(terms, trade, t, bar, late)

-----------------------------------------------------------------------------
(* The printed plan, read once over the whole series: bars is a function   *)
(* from ticks to bars, lates the ticks of late bars.                       *)

Earliest(S) == IF S = {} THEN 0 ELSE Min(S)

FillTick(terms, created, bars) ==
  Earliest({t \in DOMAIN bars : /\ created < t
                                /\ t <= created + terms.validity
                                /\ bars[t].low <= terms.entry
                                /\ terms.entry <= bars[t].high})

\* Targets taken by the bars after the fill up to and including tick t.
Taken(terms, fill, t, bars) ==
  Cardinality({i \in 1..3 : \E u \in DOMAIN bars : fill < u /\ u <= t
                              /\ Reached(terms, bars[u], terms.targets[i])})

Ends(terms, fill, t, bars, lates) ==
  \/ StopHit(terms, bars[t], IF Taken(terms, fill, t - 1, bars) >= 1 THEN terms.entry ELSE terms.stop)
  \/ Taken(terms, fill, t, bars) = 3
  \/ terms.zeroDte /\ t \in lates

\* What the plan has come to once every bar of the series is known.
Reference(terms, created, bars, lates) ==
  LET fill    == FillTick(terms, created, bars)
      expiry  == Earliest({t \in DOMAIN bars : t > created + terms.validity})
      exit    == Earliest({t \in DOMAIN bars : t > fill /\ Ends(terms, fill, t, bars, lates)})
      before  == Taken(terms, fill, exit - 1, bars)
      stopped == StopHit(terms, bars[exit], IF before >= 1 THEN terms.entry ELSE terms.stop)
      open    == [NewTrade EXCEPT !.outcome = "OPEN", !.filled = fill]
  IN IF fill = 0
     THEN IF expiry = 0 THEN NewTrade ELSE Resolve(NewTrade, "EXPIRED_UNFILLED", expiry, 0)
     ELSE IF StopHit(terms, bars[fill], terms.stop)
     THEN Resolve(open, "STOPPED", fill, 100 * Gain(terms, terms.stop))
     ELSE IF exit = 0
     THEN [open EXCEPT !.tranches = Taken(terms, fill, Max(DOMAIN bars), bars)]
     ELSE IF stopped
     THEN Resolve([open EXCEPT !.tranches = before],
                  IF before = 0 THEN "STOPPED" ELSE "STOPPED_AFTER_BE", exit,
                  ProfitAt(terms, before, IF before = 0 THEN terms.stop ELSE terms.entry))
     ELSE LET taken == Taken(terms, fill, exit, bars) IN
          Resolve([open EXCEPT !.tranches = taken],
                  IF taken = 3 THEN "TP_FULL" ELSE "FLATTENED_TIME", exit,
                  ProfitAt(terms, taken, bars[exit].close))
=============================================================================
