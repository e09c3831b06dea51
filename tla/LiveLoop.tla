------------------------------ MODULE LiveLoop ------------------------------
(***************************************************************************)
(* The live loop (live.py) with the runner's gating (runner.py), the paper *)
(* ledger (paper.py) and the two tables it keeps in the store: alerts and  *)
(* paper trades.                                                           *)
(*                                                                         *)
(* The loop is one asyncio task.  Booting and polling fetch bars, mark     *)
(* symbols whose feed is bad, and then work through the bars one by one:   *)
(* settle, evaluate, record.  Each of those is a step here, because a      *)
(* store write or a Telegram call inside it may raise and abandon the rest *)
(* of the work, and because the process may be killed between any two.     *)
(*                                                                         *)
(* A plan is [symbol, strategy, at]: stable_plan_key.  What the strategies *)
(* make of a bar depends on the bars alone, so the raw signals of a bar    *)
(* are part of the recorded market and are the same on every replay.       *)
(*                                                                         *)
(* Time counts the five-minute ticks of short sessions: BarsPerDay bars a  *)
(* day, and one more tick for the open, at which no bar has closed yet.    *)
(***************************************************************************)
EXTENDS PaperTrade, Discipline, SequencesExt

CONSTANTS
  Symbol,        \* monitored symbols, numbered in the order of their tickers
  Strategy,      \* registered strategies
  ModuleOf,      \* [Strategy -> module]
  Research,      \* strategies that are monitored but never live
  Terms,         \* [Strategy -> terms of the plans it prints]
  Bars,          \* [Symbol -> the bars the market may print]
  Signals,       \* [Symbol -> sets of strategies that may signal on one bar]
  BadFeeds,      \* sets of symbols whose feed may fail together
  BarsPerDay,    \* bars of a session
  ReplayWindow,  \* ticks of history a boot fetches (4 days)
  PollWindow,    \* ticks of history a poll fetches (1 day)
  MaxSignals,    \* bound: raw signals of the run
  LastTick,      \* bound: end of the run
  MaxFaults      \* bound: crashes, store outages and Telegram errors

ASSUME WindowsAreOrdered == PollWindow \in Nat /\ ReplayWindow \in Nat /\ PollWindow <= ReplayWindow
ASSUME SymbolsAreNumbers == Symbol \subseteq Nat /\ IsFiniteSet(Symbol)
ASSUME StrategiesAreRegistered ==
  /\ IsFiniteSet(Strategy) /\ Research \subseteq Strategy
  /\ ModuleOf \in [Strategy -> DOMAIN ModuleCap]
  /\ \A s \in Symbol : Signals[s] \subseteq SUBSET Strategy
\* The composer's three targets lie in order of distance (Strategies!PlanGeometry).
ASSUME PlansAreLadders ==
  \A g \in Strategy :
    /\ Terms[g].validity \in Nat /\ Terms[g].entry \in Int /\ Terms[g].targets \in Seq(Int) /\ Len(Terms[g].targets) = 3
    /\ \A i \in 1..2 : Gain(Terms[g], Terms[g].targets[i]) <= Gain(Terms[g], Terms[g].targets[i + 1])
ASSUME BarsAreNumbers == \A s \in Symbol : \A b \in Bars[s] : {b.low, b.high} \subseteq Int
ASSUME SessionsHaveBars == BarsPerDay \in Nat \ {0} /\ LastTick \in Nat /\ MaxFaults \in Nat

VARIABLES
  now,          \* current tick
  market,       \* [<<symbol, tick>> -> [bar, signals]] of every closed bar
  storeUp,      \* the store answers
  alertRow,     \* stored alerts: plan -> status
  tradeRow,     \* stored paper trades: plan -> trade
  faults,       \* faults so far
  pc,           \* "down", "unbooted", "idle" or "ingest"
  started,      \* started_at is set: boot has finished
  ready,        \* persistence_ready
  alerts,       \* alerts in memory: plan -> status
  trades,       \* executor.trades: plan -> trade
  slots,        \* runner.controls and runner.shadow_controls
  seen,         \* seen_bars
  todo,         \* bars of this ingest still to be worked through
  entries,      \* allow_new_entries of this ingest
  partial,      \* symbols this ingest quarantined
  bar,          \* the bar being worked on, or NoBar
  settling,     \* plans it settled that are still to be notified
  setups,       \* setups it passed that are still to be recorded
  caughtUp,     \* last_close_catchup_at
  slipped,      \* history: work was abandoned in the middle since the boot
  tainted,      \* history: plans whose trade skipped a bar nobody can fetch
  unsaved,      \* history: plans whose settlement was lost with the memory
  leaked        \* history: pairs of which a plan was tracked without its slot

store   == <<storeUp, alertRow, tradeRow>>
work    == <<todo, entries, partial, bar, settling, setups>>
memory  == <<started, ready, alerts, trades, slots, seen, caughtUp>>
history == <<slipped, tainted, unsaved, leaked>>
liveVars == <<now, market, faults, pc, store, work, memory, history>>

NoBar  == <<0, 0>>
NoPlan == [p \in {} |-> "NONE"]
Books  == {"live", "shadow"}
Book(p) == IF p.strategy \in Research THEN "shadow" ELSE "live"
Pair(p) == <<p.symbol, p.strategy>>
Until(p) == p.at + Terms[p.strategy].validity
Active  == {p \in DOMAIN trades : trades[p].outcome \in Unresolved}
With(f, p, v) == [q \in DOMAIN f \cup {p} |-> IF q = p THEN v ELSE f[q]]

\* Fault: a row that exists is left as it is.
FaultyUpsert(rows, p, v) == IF p \in DOMAIN rows THEN rows ELSE With(rows, p, v)

\* upsert_alert, upsert_paper_trade: insert, or replace on the same id.
Upsert(rows, p, v) == With(rows, p, v)

\* Fault: research plans get a status of their own.
FaultyStatusOf(p) == IF p.strategy \in Research THEN "RESEARCH" ELSE "ACTIVE"

\* The status an alert is composed with.
StatusOf(p) == IF p.strategy \in Research THEN "SHADOW" ELSE "ACTIVE"

-----------------------------------------------------------------------------
(* Sessions.  Tick day * (BarsPerDay + 1) is the open, the last tick of a  *)
(* day is the close; ticks below 0 stand for the sessions before the run.  *)

Phase(t) == t % (BarsPerDay + 1)
InSession(t) == Phase(t) < BarsPerDay
LatestClose(t) == Max({u \in (t - BarsPerDay - 1)..t : Phase(u) # 0})
LatestSession(t) == Max({u \in (t - BarsPerDay - 1)..t : Phase(u) = BarsPerDay})
Late(t) == Phase(t) = BarsPerDay

BarsOf(s) == [t \in {u \in 1..now : <<s, u>> \in DOMAIN market} |-> market[<<s, t>>].bar]

\* Bound: the raw signals of the market so far, and of one more bar per symbol.
PrintedSignals == MapThenSumSet(LAMBDA k : Cardinality(market[k].signals), DOMAIN market)
AddedSignals(g) == MapThenSumSet(LAMBDA s : Cardinality(g[s]), Symbol)

\* What the symbols may print on one tick.
NextBars == {b \in [Symbol -> UNION {Bars[s] : s \in Symbol}] : \A s \in Symbol : b[s] \in Bars[s]}
NextSignals == {g \in [Symbol -> UNION {Signals[s] : s \in Symbol}] : \A s \in Symbol : g[s] \in Signals[s]}

\* The market with one more bar b[s], signals g[s], of every symbol s at tick t.
Printed(b, g, t) ==
  [k \in DOMAIN market \cup {<<s, t>> : s \in Symbol} |->
     IF k \in DOMAIN market THEN market[k] ELSE [bar |-> b[k[1]], signals |-> g[k[1]]]]

\* Time passes; a bar of every symbol closes unless the session just opened.
Tick ==
  /\ pc # "ingest" /\ now < LastTick
  /\ now' = now + 1
  /\ IF Phase(now') = 0 THEN UNCHANGED market
     ELSE \E b \in NextBars, g \in NextSignals :
            /\ AddedSignals(g) + PrintedSignals <= MaxSignals
            /\ market' = Printed(b, g, now')
  /\ UNCHANGED <<faults, pc, store, work, memory, history>>

StoreFails ==
  /\ storeUp /\ faults < MaxFaults
  /\ storeUp' = FALSE /\ faults' = faults + 1
  /\ UNCHANGED <<now, market, alertRow, tradeRow, pc, work, memory, history>>

StoreRecovers ==
  /\ ~storeUp /\ storeUp' = TRUE
  /\ UNCHANGED <<now, market, faults, alertRow, tradeRow, pc, work, memory, history>>

-----------------------------------------------------------------------------
(* The work of one ingest is dropped when it ends or raises.  A raise while *)
(* booting leaves the loop unbooted; while polling it only degrades it.     *)

NoWork ==
  /\ todo' = <<>> /\ settling' = {} /\ setups' = <<>> /\ bar' = NoBar
  /\ entries' = TRUE /\ partial' = {}

Abandon ==
  /\ NoWork /\ slipped' = TRUE
  /\ pc' = IF started THEN "idle" ELSE "unbooted"

\* Settlements passed over by an exception that the store never got.
Unsaved ==
  {p \in DOMAIN trades \ settling :
     trades[p].outcome \in Resolved /\ p \in DOMAIN tradeRow /\ tradeRow[p].outcome \in Unresolved}

\* A restart rebuilds the slots from the open rows.
StillLeaked ==
  leaked \cap {Pair(p) : p \in {q \in DOMAIN tradeRow : tradeRow[q].outcome \in Unresolved}}

FreshMemory ==
  /\ started' = FALSE /\ ready' = FALSE /\ alerts' = NoPlan /\ trades' = NoPlan
  /\ slots' = [b \in Books |-> NoSlots(Symbol, Strategy)]
  /\ seen' = {} /\ caughtUp' = -1 /\ NoWork /\ slipped' = FALSE

Crash ==
  /\ pc # "down" /\ faults < MaxFaults
  /\ pc' = "down" /\ faults' = faults + 1
  /\ FreshMemory
  /\ unsaved' = unsaved \cup Unsaved
  /\ leaked' = StillLeaked
  /\ UNCHANGED <<now, market, store, tainted>>

Restart ==
  /\ pc = "down" /\ pc' = "unbooted"
  /\ UNCHANGED <<now, market, faults, store, work, memory, history>>

\* _cancel_symbol_alerts: the live alerts of the symbols just quarantined.
Retired(bad) ==
  {p \in DOMAIN alerts : p.symbol \in bad /\ alerts[p] # "CANCELLED" /\ Until(p) > now}

\* Bars of the good symbols in the window.
Fetched(bad, window) == {k \in DOMAIN market : k[1] \notin bad /\ k[2] > now - window}

\* Oldest first, ties by symbol: the n-th bar is the one that n - 1 come before.
Earlier(j, k) == j[2] < k[2] \/ (j[2] = k[2] /\ j[1] < k[1])
Chronological(keys) ==
  [n \in 1..Cardinality(keys) |->
     CHOOSE k \in keys : Cardinality({j \in keys : Earlier(j, k)}) = n - 1]

\* Fault: a restart forgets the slots of the plans it restores.
FaultyRestoredSlots(rows) == [b \in Books |-> NoSlots(Symbol, Strategy)]

\* boot: register_open for every unresolved trade of the ledger.
RestoredSlots(rows) ==
  LET open(b) == {p \in DOMAIN rows : rows[p].outcome \in Unresolved /\ Book(p) = b} IN
  [b \in Books |->
    FoldSet(LAMBDA p, sl : RegisterOpen(sl, ModuleOf[p.strategy], p.symbol, p.strategy),
            NoSlots(Symbol, Strategy), open(b))]

\* Fault: settled rows are left out of the ledger on a restart.
FaultyRestoredTrades(rows) ==
  [p \in {q \in DOMAIN rows : rows[q].outcome \in Unresolved} |-> rows[p]]

\* executor.restore: every row of the ledger, settled ones included.
RestoredTrades(rows) == rows

\* boot up to the replay: the store is read, the runner is new, and four days
\* of bars are fetched.  Daily bars that fail the quality check, or no usable
\* intraday feed at all, make the boot raise; run_forever calls it again.
Boot ==
  /\ pc = "unbooted" /\ storeUp
  /\ ready' = TRUE
  /\ trades' = RestoredTrades(tradeRow)
  /\ slots' = RestoredSlots(tradeRow)
  /\ seen' = {} /\ slipped' = FALSE /\ unsaved' = unsaved \cup Unsaved
  /\ leaked' = StillLeaked
  /\ \E bad \in BadFeeds, dailyOk \in BOOLEAN :
       LET gone == {p \in DOMAIN alertRow : p.symbol \in bad /\ dailyOk
                                            /\ alertRow[p] # "CANCELLED" /\ Until(p) > now}
       IN /\ alerts' = [p \in DOMAIN alertRow |-> IF p \in gone THEN "CANCELLED" ELSE alertRow[p]]
          /\ alertRow' = alerts'
          /\ IF dailyOk /\ bad # Symbol
             THEN /\ pc' = "ingest" /\ partial' = bad /\ entries' = TRUE
                  /\ todo' = Chronological(Fetched(bad, ReplayWindow))
             ELSE UNCHANGED <<pc, partial, entries, todo>>
  /\ UNCHANGED <<now, market, faults, storeUp, tradeRow, started, caughtUp, bar, settling,
                 setups, tainted>>

CatchUpDue ==
  /\ ~InSession(now)
  /\ LatestClose(now) = LatestSession(now)
  /\ caughtUp # LatestSession(now)

\* poll_once up to the bars: bad symbols are quarantined and their alerts are
\* retired, in memory and, while persistence is ready, in the store.
Poll ==
  /\ pc = "idle" /\ (InSession(now) \/ CatchUpDue)
  /\ \E bad \in BadFeeds :
       LET gone == Retired(bad) IN
       /\ alerts' = [p \in DOMAIN alerts |-> IF p \in gone THEN "CANCELLED" ELSE alerts[p]]
       /\ alertRow' = IF ready /\ storeUp
                      THEN [p \in DOMAIN alertRow |-> IF p \in gone THEN "CANCELLED" ELSE alertRow[p]]
                      ELSE alertRow
       /\ ready' = (ready /\ (storeUp \/ gone = {}))
       /\ IF bad = Symbol
          THEN UNCHANGED <<pc, partial, entries, todo>>
          ELSE /\ pc' = "ingest" /\ partial' = bad /\ entries' = ~CatchUpDue
               /\ todo' = Chronological(Fetched(bad, PollWindow) \ seen)
  /\ UNCHANGED <<now, market, faults, storeUp, tradeRow, started, trades, slots, seen, caughtUp,
                 bar, settling, setups, history>>

\* The next bar: seen before it is worked on; the ledger advances on it.
TakeBar ==
  /\ pc = "ingest" /\ bar = NoBar /\ setups = <<>> /\ todo # <<>>
  /\ LET s == Head(todo)[1]
         t == Head(todo)[2]
         mine == {p \in Active : p.symbol = s}
         next(p) == Advance(Terms[p.strategy], trades[p], p.at, t, market[<<s, t>>].bar, Late(t))
     IN /\ bar' = Head(todo) /\ todo' = Tail(todo)
        /\ seen' = seen \cup {<<s, t>>}
        /\ trades' = [p \in DOMAIN trades |-> IF p \in mine THEN next(p) ELSE trades[p]]
        /\ settling' = {p \in mine : next(p).outcome \in Resolved}
        /\ tainted' = tainted \cup
             {p \in mine : \E u \in (p.at + 1)..(t - 1) : <<s, u>> \in DOMAIN market \ seen}
  /\ UNCHANGED <<now, market, faults, pc, store, started, ready, alerts, slots, caughtUp,
                 entries, partial, setups, slipped, unsaved, leaked>>

\* A settled trade gives its slot back and is stored; live, it is notified.
\* The store may refuse the row and Telegram may raise: then the rest is lost.
Settle(p) ==
  /\ p \in settling
  /\ slots' = [slots EXCEPT ![Book(p)] = RegisterClose(@, ModuleOf[p.strategy], p.symbol, p.strategy)]
  /\ tradeRow' = IF ready /\ storeUp THEN Upsert(tradeRow, p, trades[p]) ELSE tradeRow
  /\ \/ /\ storeUp \/ ~ready
        /\ settling' = settling \ {p}
        /\ UNCHANGED <<todo, entries, partial, bar, setups, pc, faults, slipped>>
     \/ /\ ready /\ ~storeUp
        /\ Abandon /\ UNCHANGED faults
     \/ /\ started /\ (storeUp \/ ~ready) /\ faults < MaxFaults
        /\ Abandon /\ faults' = faults + 1
  /\ UNCHANGED <<now, market, storeUp, alertRow, started, ready, alerts, trades, seen, caughtUp,
                 tainted, unsaved, leaked>>

\* on_bar_5m: every signal of the bar meets the gates before any of them is
\* recorded; research signals meet the gates of the shadow book.
Evaluate ==
  /\ pc = "ingest" /\ bar # NoBar /\ settling = {}
  /\ LET passed == {g \in market[bar].signals :
                      HasRoom(slots[Book([strategy |-> g])], ModuleOf[g], bar[1], g)}
         plan(g) == [symbol |-> bar[1], strategy |-> g, at |-> bar[2]]
         inOrder == SetToSeq(passed \ Research) \o SetToSeq(passed \cap Research)
     IN setups' = IF entries THEN [i \in DOMAIN inOrder |-> plan(inOrder[i])] ELSE <<>>
  /\ bar' = NoBar
  /\ UNCHANGED <<now, market, faults, pc, store, memory, history, todo, entries, partial, settling>>

\* _record_setup: a new alert, a new paper trade, its slot; live, its delivery.
\* Either write may raise, and so may Telegram at the end; when the trade's row
\* is refused the trade is tracked already and its slot is not yet taken.
RecordSetup ==
  /\ setups # <<>>
  /\ LET p        == Head(setups)
         isNew    == p \notin DOMAIN alerts
         tracked  == p \notin DOMAIN trades
         alerted  == With(alerts, p, StatusOf(p))
         done     == setups' = Tail(setups) /\ UNCHANGED <<todo, entries, partial, bar, settling, pc, slipped>>
         opened   == [slots EXCEPT ![Book(p)] = RegisterOpen(@, ModuleOf[p.strategy], p.symbol, p.strategy)]
     IN /\ alerts' = IF isNew THEN alerted ELSE alerts
        /\ \/ /\ isNew /\ ready /\ ~storeUp            \* the alert row is refused
              /\ Abandon
              /\ UNCHANGED <<storeUp, alertRow, trades, tradeRow, slots, leaked, faults>>
           \/ /\ ~isNew \/ ~ready \/ storeUp
              /\ alertRow' = IF isNew /\ ready THEN Upsert(alertRow, p, alerted[p]) ELSE alertRow
              /\ trades' = IF tracked THEN With(trades, p, NewTrade) ELSE trades
              /\ \/ /\ ~tracked                         \* a replayed duplicate
                    /\ done
                    /\ UNCHANGED <<storeUp, tradeRow, slots, leaked, faults>>
                 \/ /\ tracked /\ ready               \* the trade row is refused
                    /\ Abandon /\ storeUp' = FALSE
                    /\ faults < MaxFaults \/ ~storeUp
                    /\ faults' = IF storeUp THEN faults + 1 ELSE faults
                    /\ leaked' = leaked \cup {Pair(p)}
                    /\ UNCHANGED <<tradeRow, slots>>
                 \/ /\ tracked /\ (~ready \/ storeUp)
                    /\ tradeRow' = IF ready THEN Upsert(tradeRow, p, NewTrade) ELSE tradeRow
                    /\ slots' = opened
                    /\ \/ done /\ UNCHANGED faults
                       \/ /\ started /\ Book(p) = "live" /\ faults < MaxFaults
                          /\ Abandon /\ faults' = faults + 1
                    /\ UNCHANGED <<storeUp, leaked>>
  /\ UNCHANGED <<now, market, started, ready, seen, caughtUp, tainted, unsaved>>

\* Fault: a catch-up over a partial feed counts as done.
FaultyCaughtUpAfter(bad) == IF ~InSession(now) \/ ~started THEN LatestSession(now) ELSE caughtUp

\* The close is caught up with only when no symbol was quarantined.
CaughtUpAfter(bad) ==
  IF bad # {} THEN caughtUp
  ELSE IF ~started /\ LatestClose(now) = LatestSession(now) THEN LatestSession(now)
  ELSE IF started /\ ~entries THEN LatestSession(now)
  ELSE caughtUp

\* The last bar is done: boot is complete, or the poll is.
FinishIngest ==
  /\ pc = "ingest" /\ bar = NoBar /\ setups = <<>> /\ todo = <<>>
  /\ caughtUp' = CaughtUpAfter(partial)
  /\ started' = TRUE /\ pc' = "idle" /\ NoWork
  /\ UNCHANGED <<now, market, faults, store, ready, alerts, trades, slots, seen, history>>

LiveInit ==
  /\ now = 0 /\ market = [k \in {} |-> {}] /\ faults = 0
  /\ storeUp = TRUE /\ alertRow = NoPlan /\ tradeRow = NoPlan
  /\ pc = "unbooted" /\ started = FALSE /\ ready = FALSE /\ alerts = NoPlan /\ trades = NoPlan
  /\ slots = [b \in Books |-> NoSlots(Symbol, Strategy)]
  /\ seen = {} /\ caughtUp = -1
  /\ todo = <<>> /\ entries = TRUE /\ partial = {} /\ bar = NoBar /\ settling = {} /\ setups = <<>>
  /\ slipped = FALSE /\ tainted = {} /\ unsaved = {} /\ leaked = {}

LiveNext ==
  \/ Tick \/ StoreFails \/ StoreRecovers \/ Crash \/ Restart \/ Boot \/ Poll
  \/ TakeBar \/ (\E p \in settling : Settle(p)) \/ Evaluate \/ RecordSetup \/ FinishIngest

LiveSpec == LiveInit /\ [][LiveNext]_liveVars
-----------------------------------------------------------------------------
(* What the loop promises.                                                 *)

LiveTypeOK ==
  /\ now \in 0..LastTick /\ faults \in 0..MaxFaults /\ storeUp \in BOOLEAN
  /\ pc \in {"down", "unbooted", "idle", "ingest"}
  /\ started \in BOOLEAN /\ ready \in BOOLEAN /\ slipped \in BOOLEAN
  /\ \A p \in DOMAIN alertRow : alertRow[p] \in {"ACTIVE", "SHADOW", "CANCELLED"}
  /\ \A p \in DOMAIN trades : trades[p].outcome \in Outcomes /\ trades[p].tranches \in 0..3
  /\ seen \subseteq DOMAIN market
  /\ bar \in DOMAIN market \cup {NoBar}

\* The discipline counters equal the ledger: whatever was restored, replayed,
\* settled or recorded, each counter is the number of plans that hold its slot,
\* as long as no exception has abandoned a bar half way since the boot.
SlotsMatchLedger ==
  pc \in {"idle", "ingest"} /\ ~slipped =>
    \A b \in Books :
      LET held == {p \in Active \cup settling : Book(p) = b} IN
      /\ \A m \in DOMAIN slots[b].module :
           slots[b].module[m] = Cardinality({p \in held : ModuleOf[p.strategy] = m})
      /\ \A c \in DOMAIN slots[b].cluster :
           slots[b].cluster[c] = Cardinality({p \in held : ClusterOf[p.symbol] = c})
      /\ \A k \in DOMAIN slots[b].plan :
           slots[b].plan[k] = Cardinality({p \in held : Pair(p) = k})

\* Two plans of one strategy on one symbol are never open at the same time,
\* however restarts, replays and abandoned polls interleave with new signals,
\* unless the store never got the settlement of one of them, or refused the row
\* of a plan of theirs, which then runs without its slot.
OneActivePlan ==
  \A p, q \in Active \ unsaved : Pair(p) = Pair(q) /\ Pair(p) \notin leaked => p = q

\* Every resolved trade has the outcome, the fill, the exit and the profit that
\* its printed plan has on the recorded bars, although it was computed bar by
\* bar, in part again after restarts.  The exception is a trade that skipped a
\* bar which no fetch window reaches any more.
LedgerHonoursPlan ==
  \A p \in DOMAIN trades :
    trades[p].outcome \in Resolved /\ p \notin tainted =>
      trades[p] = Reference(Terms[p.strategy], p.at,
                            [t \in {u \in DOMAIN BarsOf(p.symbol) : u <= trades[p].exit} |->
                               BarsOf(p.symbol)[t]],
                            {t \in 1..now : Late(t)})

\* While persistence is ready and nothing was abandoned, the store is a copy of
\* the memory: every alert with its status, every trade, and the outcome of
\* every trade that was settled and notified.
StoreMirrorsMemory ==
  pc \in {"idle", "ingest"} /\ ready /\ ~slipped =>
    /\ alertRow = alerts
    /\ DOMAIN tradeRow = DOMAIN trades
    /\ \A p \in DOMAIN trades \ settling :
         trades[p].outcome \in Resolved => tradeRow[p] = trades[p]

\* Once the close of a session counts as caught up, no bar that the poll could
\* fetch was left out, so no open trade waits over night for its settlement.
CatchUpLeavesNoBar ==
  caughtUp >= 1 =>
    \A k \in DOMAIN market : k[2] <= caughtUp /\ k[2] > caughtUp + 1 - PollWindow => k \in seen

\* A settlement is final: no restart, replay or late write changes its row.
SettledNeverReopens ==
  [][\A p \in DOMAIN tradeRow : tradeRow[p].outcome \in Resolved =>
       p \in DOMAIN tradeRow' /\ tradeRow'[p] = tradeRow[p]]_liveVars

\* veto.py:144: a symbol and strategy is not alerted again while a prior alert
\* on it is still open or pending fill.
OnePlanAtATime ==
  \A p, q \in DOMAIN trades :
    p.symbol = q.symbol /\ p.strategy = q.strategy /\ p.at < q.at =>
      trades[p].outcome \in Resolved /\ trades[p].exit <= q.at
=============================================================================
