# IntelliDhan: specification and proofs

IntelliDhan is an alerting terminal that may also hand trades to an execution
agent. A live loop reads market data, an engine turns it into alerts, and an
execution manager decides whether an alert may become a broker order. The
manager never talks to a broker: an external agent fetches *intents*, claims
one, places the order and posts the broker's answers back as receipts. The
authority to place an order is what can go wrong at somebody's expense, so it
is modelled first: how it is granted, how it is withdrawn, and what is left of
both after a crash. The loop that makes the alerts comes next, with its ledger,
its counters and its store; then the parts around it.

## 1. Inventory

Paths are relative to `src/`; `gateway`, `engine`, `ingestor`, `analytics`,
`learning` and `delivery` are the packages under `services/`.

| Component | State | Operations | What must hold | Modelled |
|---|---|---|---|---|
| Execution manager, `gateway/autotrade.py` | policy (mode, `live_until`, caps), intents with status, selection, capital review, claim, trade events | `update_policy`, `on_alert`, `attest_option_selection`, `attest_capital`, `claim`, `record_receipt`, `record_simulation`, `reject`, `block_symbol`, `list_intents` | authority only in LIVE, on good data, inside the caps and the deadlines; broker truth is never refused | `Autotrade` |
| Agent and broker (external) | orders, positions, unreported events | fetch, place, fill, refuse, exit, post | gateway and account agree in the end | `AutotradeBroker` |
| Execution store, `gateway/terminal_store.py` settings and events | policy, intent snapshot, immutable event rows | `put_setting`, `append_autotrade_event`, load at boot | what was answered survives a crash | `AutotradeDurability` |
| Live loop, `gateway/live.py` | alerts, symbol health, seen bars, readiness | boot and replay, poll, catch-up, settle, evaluate, record, quarantine, recover | a restart changes nothing that was decided; a bad feed disarms everything on the symbol | `LiveLoop`; its calls into the manager: `Autotrade` |
| Paper ledger, `learning/paper.py` | paper trades | track, restore, advance on a bar | a plan settles once, as its printed terms say | `PaperTrade` |
| Discipline gates, `engine/veto.py`, `engine/runner.py` | open slots by module, cluster, symbol and strategy, in a live and a shadow book | register open and close, run gates, route | slots equal open trades | `Discipline`, `Strategies` |
| Delivery, `live.py`, `terminal_store.claim_delivery`, `delivery/telegram.py` | delivery log, subscriber queues | claim, send, publish | a message is sent at most once; a slow reader gets the newest | `Delivery` |
| Accounts, `gateway/auth.py`, user tables | users, sessions, cookies, sockets | register, log in and out, add an account, send to a socket and recheck it | one first administrator; a stream that is read ends with its session | `Accounts` |
| Budgets and desk, `app.py`, `engine/composer.py` `Budgets` | the budget file, the stored setting, limits, preferences, watchlists | save, read, boot, relaunch | the engine sizes with what was acknowledged | `Desk` |
| Market clock, sentinel, rollup | calendar, window, buckets | newest finished bar, check a window, roll up | boundaries right over half days and holidays; each bucket once, whole | `MarketData` |
| Strategies, `engine/strategies.py` | none | signal on a bar | what is emitted is a plan | `Strategies` |
| Composer, `engine/composer.py` | none | size shares or contracts | the size fits both budgets | `Composer` |
| Calibration, `engine/calibration.py` | pools | fit, look up | of two well sampled scores the better claims no less | `Calibration` |
| Backtests, `learning/opening_range_reversal.py`, `learning/ema9_crossover.py` | one position, session by session | enter, manage, flatten; split and choose | no trade is booked better than it could go; a winner was chosen by earlier entries than its test's | `ReversalStudy`, `CrossoverStudy`, `StudyReport` |
| Scoring, indicators, analytics, research, briefings, other studies | price series, text | numeric or textual functions | - | no: section 6 |
| Providers, backfill, web terminal, scripts, deployment files | - | input and output | - | no: section 6 |

### How the components interact

The gateway is one asyncio process. HTTP handlers, websocket handlers and the
live loop are coroutines of it; the manager's methods contain no `await`, so
each runs to completion. They interleave with one another, in any order, at the
granularity of one call.

    providers -> live loop -> engine -> alert -> on_alert ----> manager <---- operator
                   |                                             ^   |        (mode, caps, reject)
                   |  quarantine: block_symbol, retire alerts    |   v
                   +------------------------------------------->-+  store (settings, event rows)
                                                                 ^
                      agent: list_intents, selection, review, claim, receipts  <-> broker

Hard behaviours: requests that come between any two others; deadlines that take
effect only when somebody asks (`_expire_stale`); broker answers that arrive
after everything that could have ended the intent; caps that change between
decision and use; several writes without a transaction; a rolling deploy that
has two processes on one store for a short time.

`PROJECT.json` lists every hazard at its line, with the property that covers it
or the reason why none does.

## 2. Modules

| Module | Models |
|---|---|
| `IntentStates` | the statuses of an intent, the receipts each accepts, the journal entry each leaves |
| `IntentLifecycle` | what docs 27 and 28 promise about one intent: the abstract specification |
| `Autotrade` | the execution manager and what the live loop and the operator do to it |
| `AutotradeBroker` | `Autotrade` with the agent and the broker |
| `AutotradeDurability` | the same manager seen from its store: one action per write, crashes, failed writes |
| `LiveLoop` | the live loop with its store, on top of the two below |
| `PaperTrade` | one paper trade, bar by bar, and what its plan says of the whole series |
| `Discipline` | the slot counters and the gates that read them |
| `Accounts` | accounts, sessions, cookies, websockets |
| `Desk` | budgets in the file and in the store; limits, preferences, watchlists |
| `Delivery` | the delivery log, senders, subscriber queues |
| `MarketData` | the market clock, the sentinel on a window, the rollup |
| `Strategies` | the strategy registry, the structural gates, the routing |
| `Composer` | order sizing |
| `Calibration` | the isotonic fit and the lookup of a confidence |
| `ReversalStudy`, `CrossoverStudy` | the two backtests with a simulator of their own |
| `StudyReport` | their reports, the split of the sessions, the choice of a variant |
| `MC...` | instances for TLC; `MCTerminal` puts the parts that share no state side by side |
| `AutotradeProofs` | proofs about the manager: types, authority, reviews and claims, its journal, its two exposure caps, and that it refines `IntentLifecycle` |
| `AutotradeBrokerProofs` | proofs about the manager together with agent and broker |
| `AutotradeDurabilityProofs` | proofs about crashes and writes |
| `LiveLoopProofs` | proofs about the live loop: its store, its catch-up, its settlements, its counters and its active plans |
| `PaperLedgerProofs` | proofs about paper trades: what `Reference` reads of one bar more, and that the loop's ledger is that reading |
| `TerminalProofs` | proofs about `Delivery`, `Accounts`, `Desk`, `MarketData`, `Strategies` and `Composer` |
| `StudyProofs` | proofs about `CrossoverStudy`, `ReversalStudy`, `Calibration` and `StudyReport`, and that `MCTerminal` is each part by itself |
| `SumProofs` | lemmas: what a fold over a finite set is, and that a sum does not depend on the order of summation |

Definitions named `Faulty...` are faults that a property must notice; nothing
else uses them.

### Autotrade

An intent is named by its alert (`"ati_" + alert_id`), and an alert has at most
one. The variables correspond to the code as follows.

| Variable | Code |
|---|---|
| `now`, `today` | `datetime.now(timezone.utc)`, its date in New York |
| `policy` | `AutotradePolicy`: `mode`, `live_until` (0 when SIMULATION), and the caps |
| `policy.limits.admits` | the symbol, strategy and module allowlists taken together, as the alerts they admit |
| `liveEligible` | `CalibrationMap.load(strategy).meta["live_eligible"]`, read again at every decision |
| `alert`, `validUntil` | status and `valid_until` of the live loop's alerts |
| `health` | `symbol_health`: `OK` is actionable, `CLOSED` is healthy but not, `QUARANTINED` |
| `mode`, `status`, `createdDay` | the intent's fields |
| `selection`, `capital` | `option_selection`, `capital_check` |
| `lease`, `revoked` | `claim.lease_until`, presence of `claim.revoked_at` |
| `trades` | `trade_events` |

Every handler is one action. `claim` is split by outcome: `ClaimRefused`,
`ClaimExpired`, `ClaimGranted`. A handler that raises `ValueError` changes
nothing, so it is not enabled. `Halt` is the pair `_mutate_blocked` and
`_mutate_revoked_claim` that every way of withdrawing authority goes through.
`Quarantine` is the whole of `_record_symbol_failure`: the gate, the intents and
the alerts change in the same call.

Data is reduced to what decisions compare. Money is a small number; a list of
option candidates is its winner, of which price and liquidity are kept; the age
of a quote or an observation is a lag. An underlying quote outside the entry
zone is an error and so a step that is not taken.

Left out: `approve` and the status `AWAITING_APPROVAL` (no code of v2 reaches
them), the migration of v1 payloads, the five-second tolerance for clocks that
run ahead, and the amounts of realized profit.

### AutotradeBroker

The agent and the broker are not in the repository. They follow the Live loop of
doc 27: the agent fetches the intents before it places an order, places at most
one order for an intent, and posts broker events oldest first until they are
accepted. Between its fetch and its order, and between an event and its receipt,
anything may happen. The broker may fill, refuse, cancel, fill after it
acknowledged a cancellation, and fail an exit.

### AutotradeDurability

A handler is a list of writes: the policy, one row per intent event, and a
snapshot of all intents. `Write` takes one; `WriteRaises` fails it, before or
after it took effect, and abandons the rest with memory already changed;
`Crash` loses memory; `Boot` loads policy, snapshot and rows as `_load_state`
does. `promised` is a history variable: what was answered, about which intents.
Only LIVE intents occur, and no deadline passes: neither matters for what the
store holds.

### LiveLoop, PaperTrade and Discipline

The loop is one task; its work is cut at every point where it writes, sends or
may raise. `Boot` reads the store, restores ledger and slots, and fetches four
days of bars; `Poll` fetches one. Both leave a list of bars, `todo`, that
`TakeBar`, `Settle`, `Evaluate`, `RecordSetup` and `FinishIngest` work through as
`_ingest_recent` does. An exception drops the list (`Abandon`); a kill drops the
memory (`Crash`). The market is recorded: what a strategy makes of a bar depends
on the bars alone, so a replay meets the same signals.

| Variable | Code |
|---|---|
| `market` | the bars of the provider, with the raw signals they give |
| `alertRow`, `tradeRow`, `storeUp` | tables `alerts` and `paper_trades`; whether the store answers |
| `alerts`, `trades` | `alerts`, `executor.trades`, by `stable_plan_key` |
| `slots` | `runner.controls` and `runner.shadow_controls` |
| `seen`, `caughtUp` | `seen_bars`, `last_close_catchup_at` |
| `started`, `ready` | `started_at`, `persistence_ready` |
| `todo`, `bar`, `settling`, `setups`, `entries`, `partial` | the locals of an ingest between two awaits |
| `slipped`, `tainted`, `unsaved`, `leaked` | history: where an exception, a gap or an outage cost something, so that the properties can say exactly what is promised without them |

`_record_setup` stores the alert and the trade in two writes, and the second may
fail alone: the trade is then tracked, its row is missing and its slot was never
taken. `leaked` names the pair of symbol and strategy this happened to, until a
restart rebuilds the slots from the rows that are there. `OneActivePlan` excepts
those pairs, and plans whose settlement the store never got (`unsaved`); without
such a failure of the store it holds across every abandoned bar and replay.

`PaperTrade` states a trade twice: `Advance` is the code, bar by bar;
`Reference` reads the printed plan over the whole series at once.

### The parts

`Accounts`: a handler does not await and is one step; registration is two,
because another process may insert between its count and its insert. Time
passes through `PassTime`. The coroutine of a stream serves its expiry, its
recheck and then its queue; `SendEvent` and `Sent` are the two ends of
`await send_json`, between which the client may take any time to read. While it
does, no timer is served (`sending`); a stream one of whose timers fell due in
that time is marked `late`. All other coroutines serve their timers when they
are due.
`Desk`: the owner edits the file and then the setting, and the second may fail;
`Relaunch` keeps the file or brings the shipped one. `Delivery`: two processes
come to the same message; `ClaimSend` may get no answer, `Send` may raise before
or after the message left, `Replaced` kills either in any step; a research alert
(`Shadow`) is only published. `MarketData`
counts time in half bars, so that a bar may be open. `Strategies` and `Composer`
take one input from a grid and decide. `Calibration` has one action per turn of
the loops of `fit`. The studies have one action per bar; `StudyReport` is one
choice over all the trades a small grid can make: several in a session, of
symbols that overlap, filed by the session of their entry and settled up to
`Carry` sessions later. For the reversal `Carry` is zero, since a session is
simulated by itself. For the crossover it is one: on a half day no bar straddles
the flatten time, and `CrossoverStudy` shows the position held over night.

## 3. What is checked

| Run | Instance | Shows |
|---|---|---|
| `autotrade_caps` | an equity and an option plan on one symbol, two caps settings, two ticks | `DailyExposureWithinCap` and `OpenExposureWithinCap`: two plans racing for one budget cannot both be claimed; `JournalMatchesStatus`; `ImplementsLifecycle`: the manager refines the abstract life cycle |
| `autotrade_plan` | one option plan, two caps settings the operator may alternate, prices, powers, liquidities and lags of two values each, four ticks, a demotable strategy | `SimulationHasNoAuthority`, `ReviewMatchesPlan`; `ClaimFitsCapsInForce`: a claim fits the caps of its moment, whatever was created, selected and reviewed under others |
| `autotrade_mixed` | two symbols, one plan research-only, two ticks, with fairness | `BadDataHasNoAuthority`; `AuthorityEnds`, liveness |
| `broker_truth` | one option plan of two contracts filled at once, up to four broker events | `TruthIsRecordable`, `TruthIsRecorded`, `BooksAgree`, `TradingTypeOK`, of which the manager's `TypeOK` is a part |
| `durability_crash` | two intents, one process, any number of crashes, at most one failed write | `AcknowledgedSurvives`, `OpenPositionHasEntry`, `JournalCoversStatus`, `AcknowledgedFillIsJournaled`, `DurabilityTypeOK` |
| `live_restart` | two symbols of which one feed or both may fail, one live and one research strategy, two short days, up to two signals and two faults | `SlotsMatchLedger`, `OneActivePlan`, `LedgerHonoursPlan`, `StoreMirrorsMemory`, `CatchUpLeavesNoBar`, `SettledNeverReopens`, `LiveTypeOK` |
| `terminal_parts` | the parts, one in each behaviour (`subject`) | the properties below, `PartsTypeOK` |

`terminal_parts` asks of each part what could go wrong in it:

- `OneBootstrap` (`Accounts`): two bootstrap requests never both become
  administrator.
- `StreamEndsWithSession`, `NoEventAfterSession` (`Accounts`): a stream whose
  client reads ends one recheck after its session was revoked, and at once when
  it expires; one whose client does not stays open, but gets no further event.
- `BudgetsInForce` (`Desk`): after a boot the engine sizes with the budgets that
  were last acknowledged, unless a PUT was answered with an error.
- `DeliveredOnce`, `NewestIsKept` (`Delivery`): at most one message reaches
  Telegram, except when the store gave no answer; a full queue keeps the newest
  events in their order and loses one gap.
- `ClockAgrees`, `CompleteBuckets` (`MarketData`): the boundary asked of the
  provider is that of the newest finished bar; every bucket is emitted once and
  consists of its own bars, whichever bars a window misses.
- `PlanGeometry` (`Strategies`): what passes the gates, which compare distances,
  has its stop and targets on the right sides.
- `SizeFitsBudget` (`Composer`): the largest size that fits risk and money; and
  a setup is suppressed only when not one unit of the vehicle it falls to fits.
- `CalibrationIsotonic` (`Calibration`): the fit ends monotone and loses no
  sample, though its rates are smoothed; of two scores in sufficiently sampled
  pools the lower claims no more. A score outside falls back to a conservative
  claim, which may be less than what a lower score claims.
- `ReversalHonest`, `CrossoverHonest` (the studies): no trade is booked better
  than it could go.
- `TuneHonest` (`StudyReport`): every trade is filed in one part and every
  drawdown is the worst of its part; the winner is chosen by trades entered
  before the test, gained on both earlier parts and is not outdone; what decided
  is settled before the test, or as far into it as a position may be held.

Deadlock is checked in every run but `live_restart`, `live_overlap` and
`terminal_parts`. Those end at their bounds: the last tick, bar or input.

### Bounds

Two plans are the smallest number that compete for a cap; one is charged twice
the other, so that either order of arrival matters. Three or four ticks let a
lease, a review, a quote, a validity and the LIVE window end in every order: a
lease and a review last one or two ticks, a validity one to three. `MaxTrades`
bounds a journal at two to four entries, enough for a cancellation, a late
fill, a failed exit and an exit. `MaxDay` lets midnight pass once where it
matters. `CapsFixed` keeps the operator from changing caps where a property is
about the caps: tightening them below what is already open is legal, and no
exposure is closed by it. `ClaimFitsCapsInForce` is about the claim and needs no such
premise. In `autotrade_plan` the operator alternates two settings, of which one
allows a small order out of much buying power and the other a large one out of
little, so that either becomes the one that refuses what was selected and
reviewed under the other. What two plans take from a budget that moves is left
to the theorem. In `durability_crash` two intents are the smallest
number for which a halt takes several rows; they are interchangeable, hence the
symmetry. Crashes are not bounded.

In `live_restart` a session is an open and two bars; five ticks show a night, a
catch-up, and a bar of yesterday; a boot fetches three ticks and a poll two, so
that a bar may be out of reach of either. Validities of one tick and of two let
a plan expire, fill late and live over night. One symbol prints three kinds of
bars and the signals, the other keeps the feed alive when the first goes dark.
Two faults are a crash during an outage, or two crashes in one replay;
`MaxSignals` is two plans, enough for a duplicate and for both books.

In `terminal_parts` two addresses, two processes and one browser race for the
bootstrap; a session lives two ticks and is rechecked after one, so that it is
revoked, falls due or expires before, during and after a send; two processes race for two messages; a queue holds two events
of three, so that an order inside it exists and is disturbed by a loss; trading
days, half days and holidays come in every order for three days, with timeframes
of two, three and seven bars, of which none divides both kinds of session; a
window has up to four bars; three buckets of up to four samples are enough for a
merge that causes a merge; a study has one to four sessions, so that it is
too short to be split, split into single sessions, or trained on two, and a
variant makes up to two trades, in one session or in two, each settled the same
day or the next. The
prices of the strategies and studies are grids on which every condition holds
and fails.

Most of the durability properties assume that no write raised (`failures = 0`).
The code does not keep them otherwise: after a failed write memory is ahead of
the store, the retried request finds the work done and answers success without
writing. `AcknowledgedFillIsJournaled` holds all the same. `AcknowledgedSurvives` also
assumes one process at a time, as `koyeb.yaml` asks: with two, the last snapshot
wins, and doc 28 admits it.

### Fairness

`AuthorityEnds` needs `WF(Tick)`, because time passes, and `WF(Poll)`: the web
terminal fetches `/api/autotrade` every fifteen seconds and the agent's loop
starts by listing intents, and either goes through `_expire_stale`. Without a
poll nothing expires, and that is the code. `TruthIsRecorded` needs `WF` of
posting, because the agent's contract is to reconcile until it succeeds. No
other action is fair: nobody has to claim, place or quarantine anything.

### Findings

Five runs expect a violation; each is a statement of a document that the code
does not keep.

- `autotrade_lease`: doc 27 bounds a lease by the Live window. Setting LIVE
  again with a shorter window leaves leases that outlive it, until the next
  poll after the window.
- `autotrade_overnight`: doc 30 charges completed trades to the budget of the
  trading day. The code charges the day the intent was created, so an intent
  that lives over midnight is filled on a day it does not consume.
- `broker_partial`: doc 27 keeps an intent EXECUTED until a CLOSED receipt is
  reconciled. After a fill in two parts the exit of the whole position is
  refused, so that receipt can never be.
- `durability_mid_switch`: doc 27 says that switching to Simulation revokes all
  placement authority. A crash between storing the policy and storing the halted
  intents restarts in Simulation with an executable LIVE intent. `claim` refuses
  it while the mode is Simulation; switching back to LIVE does not.
- `live_overlap`: `veto.py:144` does not re-alert a symbol and strategy while a
  prior alert is open or pending. A boot evaluates four days of bars again with
  the slots of today; a signal that an open plan had suppressed now passes, and
  the ledger holds two plans that were open at the same time.

Two more statements hold with an exception that the models show and the
properties name. Doc 21 revalidates the session of a websocket "so a live socket
cannot outlast revocation": the coroutine that does so awaits `send_json`, and
while the client does not read, neither recheck nor expiry is served
(`late` in `StreamEndsWithSession`). Doc 24 scores a winner "on the untouched
test split": a trade entered in the last validation session and held over night
is settled by bars of the test, and its result helps to choose the winner (the
`Carry` of `TuneHonest`).

## 4. What is proved

The theorems hold for every value of the constants: any number of alerts,
symbols, intents, messages, processes and accounts, any caps, deadlines, prices
and calendars, journals, queues and outboxes of any length. Each is the argument
*initially*, *preserved by every action*, *implies the property*, with one step
per action; the work is in the invariant that is preserved.

| Theorem | Property | Inductive invariant |
|---|---|---|
| `TypeCorrect`, `SimulationSafe`, `BadDataSafe`, `ReviewsMatch`, `ClaimsBacked` | those of the manager; `ClaimIsBacked` by proof only | `IInv` |
| `JournalsSound` | `JournalMatchesStatus` | `JInv` |
| `DailyExposureCapped`, `OpenExposureCapped` | the two caps | `IInv`, `CapInv` and the bound itself |
| `ClaimsFitCaps` | `ClaimFitsCapsInForce`, an action property | `IInv` |
| `LifecycleRefined` | `ImplementsLifecycle` | `FInv` |
| `ManagerInside` | a manager that trades takes only steps of the manager | - |
| `TradingTypeCorrect`, `BooksAlwaysAgree` | `TradingTypeOK`, `BooksAgree` | `BrokerInv` |
| `TruthAlwaysRecordable` | `TruthIsRecordable` | `BrokerInv` and `WholeFill` |
| `DurabilityTypeCorrect`, `AcknowledgedFillStays`, `JournalCovers`, `PositionsHaveEntries` | those of the store | `DurabilityInv` |
| `AcknowledgedAlwaysSurvives` | `AcknowledgedSurvives` | `DurabilityInv` and `SurvivalInv` |
| `LoopTypeCorrect`, `StoreAlwaysMirrors`, `CatchUpIsComplete`, `SettlementsAreFinal` | those of the loop | `LoopInv` |
| `SlotsAlwaysMatch`, `OnePlanActive` | `SlotsMatchLedger`, `OneActivePlan` | `LedgerInv` |
| `LedgerHonours` | `LedgerHonoursPlan` | `HonestInv`, with `LoopInv` and `LedgerInv` |
| `DeliveredAtMostOnce`, `NewestAreKept` | `DeliveredOnce`, `NewestIsKept` | `DeliveryInv` |
| `AccountTypeCorrect`, `BootstrapIsSingle`, `StreamsEnd` | `OneBootstrap`, `StreamEndsWithSession` | `AccountInv` |
| `NoEventsAfterSession` | `NoEventAfterSession`, an action property | `AccountInv` |
| `BudgetsAreInForce` | `BudgetsInForce` | itself |
| `DeskTypeCorrect` | - | `DeskTypeOK` with the budgets as functions |
| `ClockAlwaysAgrees` | `ClockAgrees` | `Calendar` |
| `MarketTypeCorrect`, `BucketsAreComplete` | `CompleteBuckets` | `MarketInv` |
| `PlansAreGeometric` | `PlanGeometry` | none: it is about one decision |
| `SizesFit` | `SizeFitsBudget` | `Composition` |
| `CrossoverTypeCorrect`, `CrossoverIsHonest` | `CrossoverHonest`, an action property | `CrossInv` |
| `ReversalTypeCorrect`, `ReversalIsHonest` | `ReversalHonest` | `RevInv` |
| `CalibrationTypeCorrect`, `CalibrationIsIsotonic` | `CalibrationIsotonic` | `CalInv` |
| `StudyTypeCorrect`, `WinnersAreHonest` | `TuneHonest` | `StudyInv`, and what `Slide` computes |
| `PartsAreThemselves`, `PartsTypeCorrect` | `PartsTypeOK` | each part's own |

### The invariants and why they are needed

**The manager.** `IInv` is `TypeOK` and, for each intent, four facts. *Armed*:
what is executable is LIVE in a LIVE mode, on an active alert and a symbol that
is not quarantined. *Reviewed*: a review is dated and of the order as planned.
*Backed*: a claim has a passed review (or was revoked) and a lease inside the
validity. *Listed*: an intent has an alert; without it, emitting an alert, which
writes status and validity, would disturb an intent that was there before.
`PollReconciles` adds that after a poll nothing executable is expired or outside
the window, which is what the agent relies on. `JInv` describes the journal by
status: no entry; exactly one; exactly one and a later exit. `FInv` adds for the
refinement that what was never claimed carries no trace of a claim.

The caps need more than the sum stays under the cap: a receipt moves an intent
between the sets that are summed. `Booked` says what an intent that was claimed
has on record, so that its charge cannot change afterwards; the charge is then a
constant of the plan, and only a granted claim adds to the sum, after comparing
it with the cap. The theorems carry the premises of the property: caps that the
operator does not change (`CapsFixed`) and a finite set of alerts. `ClaimsFitCaps`
has no such premise on the caps: it is about the one step that takes from them.
`OnlyClaimsLease` shows which step that is, and `ClaimInsideDay` and
`ClaimInsideOpen` compare the sum the code takes, over the other intents, with
the sum of the property, over the intents that are exposed after the claim.

**Agent and broker.** `ManagerInside` makes every theorem about the manager hold
with the broker as well. `OrderSound` relates three books: what the broker did,
what waits in the outbox, what the manager recorded. Its core is `Chained`: each
report in the outbox is one that the manager will accept in the status the
report before it leaves. `WholeFill` adds for `TruthAlwaysRecordable` that an
order that fills at once has one entry of the whole position; the theorem assumes
`Fills = {Contracts}`, for with partial fills it is false (section 3, Findings).

**Durability.** A handler is interrupted between its writes, so `JobInv` says
what remains to be written and what that will make true; `EntryInv` says that
the rows a job has not written yet are in it, before the snapshot that needs
them. The properties that only hold while no write has failed carry that
premise. `SurvivalInv` is for one process: the store is the memory, or the job in
progress will make it so.

**The live loop.** `LoopInv` has five parts: types; what an ingest in progress
holds (`Working`); the store against the memory (`Mirrored`); rows of settled
trades (`Final`); bars that were fetched and are in hand (`Caught`).
`LedgerInv` is about the counters. *Exact*: a counter is the number of plans
that hold its slot. An abandoned bar breaks it: the settlement of a trade is
dropped with its slot still counted, which the boot repairs. *Covered*: each
active plan's slot is taken all the same. This weaker fact survives every
abandonment, and it is what makes the duplicate guard of the veto wall sound.
*Planned*, *RowsTracked*, *HeldApart*, *OpenApart* and *Queued* carry it through
a boot, where the slots are rebuilt from the rows, and through an evaluation,
where plans of one bar are recorded one by one. Slots are counts over sets:
the proofs first show what adding or removing one plan does to them,
and that rebuilding them row by row at boot gives the count.

**The paper ledger.** `paper.py` advances a trade bar by bar; `Reference` reads
all bars of a plan at once and says when it filled, which bar ended it and at
what profit. The first half of `PaperLedgerProofs` knows nothing of the loop:
`AdvanceReads` says that if a trade is the reading of its bars, advancing it by
a later bar gives the reading of those and that one. A fill, an expiry, a stop,
a target, a flattening bar and the runner are a case each, and the case that
matters is the bar that touches targets and stop together. The second half is
`HonestInv`. *Honest*: a trade in memory is the reading of the bars its plan has
met; a row is the reading up to the exit of a finished trade, or that of a new
trade, for `paper.py` stores nothing in between and a boot starts over.
*InOrder* is why the next bar is always a later one: the bars in hand are
sorted, and later than what was seen; and a bar that was passed over (its
symbol's feed failed, or an exception abandoned the rest of a cycle) and has a
seen one after it is out of reach of every later poll. Without this a bar could
be read after its successor. *Dated*: no plan is from the future. A trade for which
a bar was lost beyond the reach of any fetch is `tainted`, and of it nothing is
claimed.

**Delivery, accounts, budgets.** *ClaimIsExclusive*: who is about to send has
its message in the log, and nobody else is about to. *QueueSound*: a queue holds
the newest events and what is missing is counted. *OneSetup* needs the identity
of the account made with the setup token; *StreamsBounded* bounds an open stream
by its next recheck and its expiry, whoever signs in on that browser meanwhile,
unless it is late: a suspended coroutine keeps the timers it had, and time only
makes them due. `NoEventsAfterSession` needs no bound on a stream that is late,
because an event is taken from the queue only after every timer that is due was
served.

**Clock, plans, sizes.** These are about arithmetic. `NewestClose` shows that
the code's formula finds the newest of all closes, over half days, holidays and
timeframes that do not divide a session. In `PlansAreGeometric` the levels of a
strategy are multiples of a range or of the distance to its stop; only for
`ORB_BREAKOUT` do they hang on the opening range, and there it is the gate on
the second target that keeps the first one ahead of the entry. `SizesFit` needs
that a whole quotient is the largest count that fits, and, for an option,
that counting down from the risk budget stops at the largest count that the
money allows; and, when nothing is ordered, that the count at which one of the two
stops is zero.

**Buckets.** The roller keeps one open bucket per timeframe and emits it when a
bar with another key arrives. `Segments` says where the accepted window is cut:
the buckets are runs of consecutive bars with one key, the emitted ones are the
aggregates of all runs but the last, and the open one is that of the last run.
That the window is sorted (`InOrder` of the sentinel) is what makes a key that
was left never come back. `BucketsAreComplete` then identifies these runs with
the sets `InBucket`, which know nothing of the roller, and counts them.

**The two backtests.** `CrossoverIsHonest` is about steps. `CrossInv` is types; *Waiting*
(an order that waits is well formed, and a position is held by its guard);
*Cooling* (the counter that the code counts down makes up for the bars since the
last stop); *Flattened* (no position after the flatten bar, and no order left by
it). The guard is that a stop is never further from the entry than the initial
risk, and that the last close has not passed that distance. The ratchet keeps
it; without it nothing bounds the loss of a stop fill.
`RevInv` follows the phases of a session. *Placed* puts the levels of a position
in their places: the initial stop behind the entry, both targets ahead of it, the
stop at the entry once the partial is taken. *PartialFill*
and *LastFill* say of a fill, at the moment it is booked, which halves it closes,
inside which bar and at which limit of loss, so that the property of a closed
trade, which speaks of all its fills at once, follows from the last step.

**Calibration.** `CalInv` says that the pools are in order and rise *but for the
last one* (`Rising`), and that they hold the samples of the buckets taken so far.
The delicate step is the merge. Smoothing, wins + 1 over n + 2, is not an average:
the rate of a merged pool may lie outside the two it is made of. Only the pools
before it must not fall, and they do not, because pooling happens at the
end; a merge that breaks the order with its predecessor is repaired by
the next one. What `CalibrationIsotonic` says of a confidence then needs the
pools' order alone.

**The choice of a variant.** `Slide` folds over the trades of a part in the
order of their exits, keeping sum, peak and worst fall. `SlideIs` shows that this
is minus the least net result of the part between any two trades (or zero), with
the fold unrolled trade by trade. That the parts are disjoint and in order is arithmetic on the shares of
60 and 80 percent, with its rounding. `WinnersAreHonest` adds that a best
eligible variant exists and is the one that `CHOOSE` takes.

**Side by side.** `MCTerminal` explores one part in each behaviour.
`PartsAreThemselves` shows that its behaviours are behaviours of every part's own
specification: what TLC explores in `terminal_parts` is what these theorems
are about.

**Sums.** `MapThenSumSet` and the folds pick their elements in an order nobody
knows. `SumProofs` first shows, by least counterexample, that the recursive
function a fold stands for exists (`FoldExists`), then that for a sum the order
does not matter, and from it what adding, removing or changing one element does
to a sum.

### Assumptions

- Shape of the constants, named in the modules and evaluated by TLC in every
  run: `AlertAssumption`, `PolicyAssumption`, `RequestAssumption`,
  `TimeAssumption`, `BrokerAssumption`, `DurabilityAssumption`,
  `WindowsAreOrdered`, `SymbolsAreNumbers` (finitely many symbols, in some
  order), `StrategiesAreRegistered`, `PlansAreLadders`
  (three targets in order of their gain, as `PlanGeometry` says of every plan the
  strategies make), `BarsAreNumbers`, `SessionsHaveBars`, `CapsAreCounts`,
  `LivesArePositive`, `RolesAreValid`, `ShippedIsComplete` (the shipped file has
  a budget for every area, and the legacy owner is not one of the accounts),
  `QueueHolds`, `SessionInsideDay`, `ShapesAreNumbers`, `BudgetsPositive`,
  `OrdersHavePrices`, `RulesAreValid`, `SetupsAreValid` (percentages and counts
  are not negative), `BarsAfterOpening`, `DataEnds`, `CountsAreNatural`,
  `GridIsFinite` (counts are natural numbers, results integers, and so is the
  number of sessions a position may be carried).
- `PricesAreBars`, `CandlesAreBars`: open and close lie between low and high.
  The models divide no price by another, so nothing need be positive.
- `FlattenIsLate`: only one of the last two bars of a session straddles the
  flatten time. With 15:55 it is the last but one of five-minute bars and the
  last of longer ones. With an earlier time an order that was armed after it
  could be filled on the same day, and the property would be false.
- `ReadingsAreBars`: prices are natural numbers, a close lies inside its bar,
  and a warm average true range is positive. That is what bars of a stock that
  trades are; on a range of zero every distance is zero and nothing is a plan.
- Premises of single theorems: a finite set of alerts and fixed caps; one
  process; orders that fill whole.

### Only model-checked

- `AuthorityEnds` and `TruthIsRecorded`: liveness under fairness is beyond the
  prover.
- The five runs that expect a violation: a counterexample needs no proof.

Every other property of a passing run is a theorem.

## 5. Where to go on

- Half days in the live loop, for the flatten of `paper.py`.
- Two processes of a rolling deploy that write the same snapshot; the theorem
  about acknowledged changes assumes one process at a time.
- The hazards of `PROJECT.json` that have no property.

## 6. Not modelled

- Scoring (`scoring.py`), the indicator state (`state.py`), technical analytics
  and the multi-timeframe scans: floating-point functions of price series
  without state of the protocol. A reading in `Strategies` is what they return.
- The macro calendar, event blackouts, the cooldown and the expectancy gate of
  the veto wall: the first two are tables of dates; the cooldown is read and
  never set; the last compares a stored statistic with a threshold.
- Research feeds, discovery, briefings, AI services, stock analysis: requests to
  remote services and text about their answers.
- Providers, backfill, parquet storage, the event bus: input and output; the
  gateway does not use the bus. What they deliver is arbitrary in `MarketData`.
- The rate limiter, hashing and tokens of `auth.py`; saved screens and the other
  endpoints that read and render.
- Late bars in `LiveLoop`: what a poll can fetch is decided by the market and the
  feed's state. A bar that one window misses and a later one delivers after its
  successor was processed is not modelled.
- An empty allowlist, which admits everything: `admits` is the set of alerts that
  the lists admit once evaluated, and going Live requires a list.
- Rounding of averages and factors in the reports of the studies. The reversal
  also reports the test part of the variants that lost; the choice does not read
  it.
- That the message of a failed send is never sent again: it is so in `Delivery`,
  and no document promises either.
- Half days in `LiveLoop`, where every session is a full one; on a half day the
  flatten of `paper.py` never comes (a hazard without a property).
- The studies that run the engine or a scan over stored bars
  (`backtest.py`, `research*.py`), the web terminal, scripts and deployment.
