------------------------- MODULE AutotradeDurability -------------------------
(***************************************************************************)
(* How the execution manager keeps its state in the terminal store.        *)
(*                                                                         *)
(* A handler changes memory and then writes, one statement at a time: the  *)
(* policy, one immutable row per intent event, and last a snapshot of all  *)
(* intents.  No transaction spans them.  A process may crash before any of *)
(* the writes, any write may fail, which aborts the handler and leaves its *)
(* changes in memory, and a rolling deploy runs two processes on one store.*)
(*                                                                         *)
(* Deadlines do not pass and Simulation intents are left out: only LIVE    *)
(* intents carry placement authority.                                      *)
(***************************************************************************)
EXTENDS Integers, Sequences, SequencesExt, IntentStates

CONSTANTS
  Replica,     \* processes that may run on the store
  Intent,      \* intents, all of one symbol
  MaxFailures, \* bound of the writes that raise
  MaxTrades    \* bound of the trade rows of one intent

ASSUME DurabilityAssumption ==
  /\ MaxFailures \in Nat
  /\ MaxTrades \in Nat
  /\ IsFiniteSet(Intent)

VARIABLES
  up,            \* the process runs
  policy,        \* its policy mode
  book,          \* its intents
  job,           \* the handler it is in
  storedPolicy,  \* runtime_settings: autotrade_policy
  stored,        \* runtime_settings: autotrade_intents
  log,           \* autotrade_intent_events: the trade events of each intent
  failures,      \* how many writes raised
  promised       \* history: what the program has answered, about which intents

durable == <<storedPolicy, stored, log>>
vars == <<up, policy, book, job, durable, failures, promised>>

Record  == [status : Status \cup {Absent}, revoked : BOOLEAN, trades : Seq(TradeEvents)]
Missing == [status |-> Absent, revoked |-> FALSE, trades |-> <<>>]

Promise == {"ENTERED", "HALTED"}
Idle    == [steps |-> <<>>, promise |-> "NONE", about |-> {}]

Policy     == [op |-> "POLICY"]
Snapshot   == [op |-> "SNAPSHOT"]
Event(i, rec) == [op |-> "EVENT", intent |-> i, becomes |-> rec, trade |-> <<>>]
Trade(i, rec, e) == [op |-> "EVENT", intent |-> i, trade |-> <<e>>,
                     becomes |-> [rec EXCEPT !.trades = Append(@, e)]]

-----------------------------------------------------------------------------
(* The writes of the handler in progress.                                    *)

\* A step's change of memory, made just before its write.
Remember(r) ==
  LET step == Head(job[r].steps)
  IN  book' = IF step.op = "EVENT"
                THEN [book EXCEPT ![r][step.intent] = step.becomes] ELSE book

\* Fault: a stored event takes the place of the earlier ones.
FaultyStore(r) ==
  LET step == Head(job[r].steps)
  IN  /\ storedPolicy' = IF step.op = "POLICY" THEN policy[r] ELSE storedPolicy
      /\ stored' = IF step.op = "SNAPSHOT" THEN book[r] ELSE stored
      /\ log' = IF step.op = "EVENT" /\ step.trade # <<>>
                  THEN [log EXCEPT ![step.intent] = step.trade] ELSE log

\* put_setting overwrites, append_autotrade_event inserts a row.
Store(r) ==
  LET step == Head(job[r].steps)
  IN  /\ storedPolicy' = IF step.op = "POLICY" THEN policy[r] ELSE storedPolicy
      /\ stored' = IF step.op = "SNAPSHOT" THEN book[r] ELSE stored
      /\ log' = IF step.op = "EVENT"
                  THEN [log EXCEPT ![step.intent] = @ \o step.trade] ELSE log

Write(r) ==
  /\ job[r].steps # <<>>
  /\ Remember(r)
  /\ Store(r)
  /\ job' = [job EXCEPT ![r].steps = Tail(@)]
  /\ UNCHANGED <<up, policy, failures, promised>>

\* The caller gets its answer.
Answer(r) ==
  /\ job[r] # Idle
  /\ job[r].steps = <<>>
  /\ promised' = [p \in Promise |->
        promised[p] \cup (IF p = job[r].promise THEN job[r].about ELSE {})]
  /\ job' = [job EXCEPT ![r] = Idle]
  /\ UNCHANGED <<up, policy, book, durable, failures>>

\* The write raises, before or after it took effect: the rest of the handler is
\* skipped and nobody is told that it was done.
WriteRaises(r) ==
  /\ failures < MaxFailures
  /\ failures' = failures + 1
  /\ job[r].steps # <<>>
  /\ Remember(r)
  /\ job' = [job EXCEPT ![r] = Idle]
  /\ Store(r) \/ UNCHANGED durable
  /\ UNCHANGED <<up, policy, promised>>

Crash(r) ==
  /\ up[r]
  /\ up' = [up EXCEPT ![r] = FALSE]
  /\ policy' = [policy EXCEPT ![r] = "SIMULATION"]
  /\ book' = [book EXCEPT ![r] = [i \in Intent |-> Missing]]
  /\ job' = [job EXCEPT ![r] = Idle]
  /\ UNCHANGED <<durable, failures, promised>>

\* Fault: only the last trade row is read back.
FaultyTradesOnLoad(i) == IF log[i] # <<>> THEN SubSeq(log[i], Len(log[i]), Len(log[i])) ELSE stored[i].trades

\* An intent of the snapshot takes its trade events from the rows, if it has any.
TradesOnLoad(i) == IF log[i] # <<>> THEN log[i] ELSE stored[i].trades

\* A new AutotradeManager: rows of an intent the snapshot lacks are ignored.
Boot(r) ==
  /\ ~up[r]
  /\ up' = [up EXCEPT ![r] = TRUE]
  /\ policy' = [policy EXCEPT ![r] = storedPolicy]
  /\ book' = [book EXCEPT ![r] = [i \in Intent |->
        IF stored[i].status = Absent THEN Missing
        ELSE [stored[i] EXCEPT !.trades = TradesOnLoad(i)]]]
  /\ UNCHANGED <<job, durable, failures, promised>>

-----------------------------------------------------------------------------
(* The handlers, up to their first write.                                    *)
Begin(r, steps, promise, about) ==
  /\ up[r]
  /\ job[r] = Idle
  /\ job' = [job EXCEPT ![r] = [steps |-> steps, promise |-> promise, about |-> about]]
  /\ UNCHANGED <<up, book, durable, failures, promised>>

\* Fault: _transition takes the snapshot and then appends the event.
FaultySaved(step) == <<[step EXCEPT !.trade = <<>>], Snapshot, step>>

\* _transition: the event, then the snapshot.
Saved(step) == <<step, Snapshot>>

Known(r) == {i \in Intent : book[r][i].status # Absent}
Executable(rec) == rec.status = "READY" \/ (rec.status = "CLAIMED" /\ ~rec.revoked)

Halted(rec) == IF rec.status = "READY" THEN [rec EXCEPT !.status = "BLOCKED"]
                                      ELSE [rec EXCEPT !.revoked = TRUE]

Events(r, order) == [k \in DOMAIN order |-> Event(order[k], Halted(book[r][order[k]]))]

\* The executable intents of a process, in every order its table may hold them.
HaltOrders(r) == SetToSeqs({i \in Intent : Executable(book[r][i])})

\* Fault: the loops over the intents forget to save.
FaultyHalts(r, order) == Events(r, order)

\* The loops of _disable_live_authority and block_symbol: one event for every
\* intent that changes, and a snapshot if any did.
Halts(r, order) == Events(r, order) \o (IF order = <<>> THEN <<>> ELSE <<Snapshot>>)

\* on_alert for a new alert while the mode is LIVE.
Create(r, i) ==
  /\ policy[r] = "LIVE"
  /\ book[r][i] = Missing
  /\ \E st \in {"READY", "BLOCKED"} :
        Begin(r, Saved(Event(i, [Missing EXCEPT !.status = st])), "NONE", {})
  /\ UNCHANGED policy

\* claim, granted.
Claim(r, i) ==
  /\ policy[r] = "LIVE"
  /\ book[r][i].status = "READY"
  /\ Begin(r, Saved(Event(i, [book[r][i] EXCEPT !.status = "CLAIMED"])), "NONE", {})
  /\ UNCHANGED policy

HasEntry(trades) == \E k \in DOMAIN trades : trades[k] = "ENTRY"

\* record_receipt: an exit needs the recorded entry.
Receive(r, i, receipt) ==
  LET rec == book[r][i]
  IN  /\ receipt \in ReceiptAllowed(rec.status)
      /\ receipt = "CLOSED" => HasEntry(rec.trades)
      /\ Len(rec.trades) < MaxTrades /\ Len(log[i]) < MaxTrades
      /\ Begin(r, Saved(Trade(i, [rec EXCEPT !.status = StatusAfter(@, receipt)],
                              TradeEvent(receipt))),
               IF receipt = "EXECUTED" THEN "ENTERED" ELSE "NONE", {i})
      /\ UNCHANGED policy

\* reject: a claim that is already revoked is answered without a write.
Reject(r, i) ==
  LET rec == book[r][i]
  IN  /\ rec.status \in {"READY", "CLAIMED"}
      /\ Begin(r,
           IF rec.status = "READY" THEN Saved(Event(i, [rec EXCEPT !.status = "REJECTED"]))
           ELSE IF rec.revoked THEN <<>> ELSE Saved(Event(i, Halted(rec))),
           "HALTED", {i})
      /\ UNCHANGED policy

\* update_policy: the new policy is in force, then stored, and only then are the
\* intents halted that are not halted yet.
Switch(r, m) ==
  /\ policy' = [policy EXCEPT ![r] = m]
  /\ IF m = "LIVE" THEN Begin(r, <<Policy>>, "NONE", {})
     ELSE \E order \in HaltOrders(r) :
            Begin(r, <<Policy>> \o Halts(r, order), "HALTED", Known(r))

\* block_symbol, called by _record_symbol_failure.
Quarantine(r) ==
  /\ \E order \in HaltOrders(r) : Begin(r, Halts(r, order), "HALTED", Known(r))
  /\ UNCHANGED policy

-----------------------------------------------------------------------------
DurabilityInit ==
  /\ up = [r \in Replica |-> FALSE]
  /\ policy = [r \in Replica |-> "SIMULATION"]
  /\ book = [r \in Replica |-> [i \in Intent |-> Missing]]
  /\ job = [r \in Replica |-> Idle]
  /\ storedPolicy = "SIMULATION"
  /\ stored = [i \in Intent |-> Missing]
  /\ log = [i \in Intent |-> <<>>]
  /\ failures = 0
  /\ promised = [p \in Promise |-> {}]

Handler(r) ==
  \/ \E i \in Intent : Create(r, i) \/ Claim(r, i) \/ Reject(r, i)
  \/ \E i \in Intent, receipt \in Status : Receive(r, i, receipt)
  \/ \E m \in Modes : Switch(r, m)
  \/ Quarantine(r)

DurabilityNext ==
  \E r \in Replica :
    Handler(r) \/ Write(r) \/ Answer(r) \/ WriteRaises(r) \/ Crash(r) \/ Boot(r)

DurabilitySpec == DurabilityInit /\ [][DurabilityNext]_vars

-----------------------------------------------------------------------------
(* Properties.                                                               *)

\* Memory, store and journal stay in their types, and a process that is down
\* is in no handler.
DurabilityTypeOK ==
  /\ up \in [Replica -> BOOLEAN]
  /\ policy \in [Replica -> Modes]
  /\ book \in [Replica -> [Intent -> Record]]
  /\ \A r \in Replica : ~up[r] => job[r] = Idle
  /\ storedPolicy \in Modes
  /\ stored \in [Intent -> Record]
  /\ log \in [Intent -> Seq(TradeEvents)]
  /\ failures \in 0..MaxFailures
  /\ promised \in [Promise -> SUBSET Intent]

Running == {r \in Replica : up[r] /\ job[r] = Idle}

\* What the program has answered outlives it: after any crash the process that
\* runs next still holds an acknowledged fill as a position, and does not hold as
\* executable what it has reported rejected, revoked or blocked.  For one process
\* at a time: with two the last snapshot wins (koyeb.yaml asks for one).
AcknowledgedSurvives ==
  failures = 0 => \A r \in Running :
    /\ \A i \in promised["ENTERED"] : book[r][i].status \in {"EXECUTED", "CLOSED"}
    /\ \A i \in promised["HALTED"] : ~Executable(book[r][i])

\* A position can always be closed: wherever an intent is held as EXECUTED, its
\* entry is among the trade events the exit is checked against.
OpenPositionHasEntry ==
  failures = 0 => \A r \in Running, i \in Intent :
    book[r][i].status = "EXECUTED" => HasEntry(book[r][i].trades)

\* Whatever write fails or process dies, a fill that was acknowledged is in the
\* immutable rows, also after later receipts of the same intent.
AcknowledgedFillIsJournaled == \A i \in promised["ENTERED"] : HasEntry(log[i])

\* "Full normalized receipts and trade events are embedded in immutable event
\* rows" (doc 30): a position in a snapshot or in a process has its entry there.
JournalCoversStatus ==
  failures = 0 => \A i \in Intent :
    /\ stored[i].status \in {"EXECUTED", "CLOSED"} => HasEntry(log[i])
    /\ \A r \in Running : book[r][i].status \in {"EXECUTED", "CLOSED"} => HasEntry(log[i])

\* "Switching to Simulation ... revokes all outstanding placement authority"
\* (doc 27), in whichever process finds the mode switched.
SimulationHoldsNothing ==
  \A r \in Running : policy[r] = "SIMULATION" => \A i \in Intent : ~Executable(book[r][i])
=============================================================================
