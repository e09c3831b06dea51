---------------------- MODULE AutotradeDurabilityProofs ----------------------
(***************************************************************************)
(* Proofs about AutotradeDurability.  JobInv says what the writes a handler *)
(* still owes will do to memory and to the journal; from it follow the type *)
(* invariant and the journal properties for any number of processes, and    *)
(* the survival of what was acknowledged for one process at a time.         *)
(***************************************************************************)
EXTENDS AutotradeDurability, SequenceTheorems, FiniteSetTheorems, TLAPS

Filled == {"EXECUTED", "CLOSED"}

\* An intent that exists and that nobody may execute any more.
Secured(rec) == rec.status # Absent /\ ~Executable(rec)

Steps == {Policy, Snapshot} \cup
         [op : {"EVENT"}, intent : Intent, becomes : Record, trade : Seq(TradeEvents)]

Jobs == [steps : Seq(Steps), promise : Promise \cup {"NONE"}, about : SUBSET Intent]

\* An event never takes a fill or a revocation back, and while no write has
\* failed a fill comes with its entry.
EventSound(r, s) ==
  /\ book[r][s.intent].status \in Filled => s.becomes.status \in Filled
  /\ Secured(book[r][s.intent]) => Secured(s.becomes)
  /\ failures = 0 =>
       /\ s.becomes.status \in Filled => HasEntry(log[s.intent]) \/ HasEntry(s.trade)
       /\ s.becomes.status = "EXECUTED" => HasEntry(s.becomes.trades)

\* The step k of a handler is an event of intent i.
IsEvent(steps, k, i) == steps[k].op = "EVENT" /\ steps[k].intent = i

\* The events are of different intents, and a snapshot ends them.
StepsSound(r, steps) ==
  /\ \A k \in 1..Len(steps) : steps[k].op = "EVENT" =>
       EventSound(r, steps[k]) /\ steps[Len(steps)].op = "SNAPSHOT"
  /\ \A k, l \in 1..Len(steps) :
       steps[k].op = "EVENT" /\ IsEvent(steps, l, steps[k].intent) => k = l
  /\ \A k \in 1..Len(steps) : steps[k].op = "SNAPSHOT" => k = Len(steps)

\* What is about to be answered is already so or will be by one of the events.
PromiseSound(r, steps, promise, about) ==
  \A i \in about :
    /\ promise = "ENTERED" =>
         /\ HasEntry(log[i]) \/ \E k \in 1..Len(steps) : IsEvent(steps, k, i) /\ HasEntry(steps[k].trade)
         /\ book[r][i].status \in Filled
              \/ \E k \in 1..Len(steps) : IsEvent(steps, k, i) /\ steps[k].becomes.status \in Filled
    /\ promise = "HALTED" =>
         \/ Secured(book[r][i])
         \/ \E k \in 1..Len(steps) : IsEvent(steps, k, i) /\ Secured(steps[k].becomes)

JobInv ==
  /\ job \in [Replica -> Jobs]
  /\ \A r \in Replica :
       /\ ~up[r] => job[r] = Idle
       /\ StepsSound(r, job[r].steps)
       /\ PromiseSound(r, job[r].steps, job[r].promise, job[r].about)

\* While no write has failed, a fill has its entry in the journal wherever it is
\* held, and in the record itself where the exit is checked against it.
EntryInv ==
  failures = 0 => \A i \in Intent :
    /\ stored[i].status \in Filled => HasEntry(log[i])
    /\ \A r \in Replica :
         /\ book[r][i].status \in Filled => HasEntry(log[i])
         /\ book[r][i].status = "EXECUTED" => HasEntry(book[r][i].trades)

DurabilityInv == DurabilityTypeOK /\ JobInv /\ EntryInv /\ AcknowledgedFillIsJournaled

\* One process: while no write has failed the snapshot grants no other authority
\* than its memory, or it is about to be written; and what was answered is so in
\* both.
Alike(a, b) == a.status = b.status /\ (a.status # Absent => a.revoked = b.revoked)

SnapshotOwed(r) == \E k \in 1..Len(job[r].steps) : job[r].steps[k].op = "SNAPSHOT"

SurvivalInv ==
  failures = 0 => \A r \in Replica, i \in Intent :
    /\ up[r] => Alike(stored[i], book[r][i]) \/ SnapshotOwed(r)
    /\ i \in promised["ENTERED"] => stored[i].status \in Filled /\ (up[r] => book[r][i].status \in Filled)
    /\ i \in promised["HALTED"] => Secured(stored[i]) /\ (up[r] => Secured(book[r][i]))

-----------------------------------------------------------------------------
(* Records and journals.                                                   *)

\* Changing the status of a record, or revoking it, changes nothing else.
LEMMA RecordFields ==
  ASSUME NEW rec \in Record, NEW x \in Status \cup {Absent}, NEW t \in Seq(TradeEvents)
  PROVE  /\ [rec EXCEPT !.status = x] \in Record
         /\ [rec EXCEPT !.status = x].status = x
         /\ [rec EXCEPT !.status = x].revoked = rec.revoked
         /\ [rec EXCEPT !.status = x].trades = rec.trades
         /\ [rec EXCEPT !.revoked = TRUE] \in Record
         /\ [rec EXCEPT !.revoked = TRUE].status = rec.status
         /\ [rec EXCEPT !.revoked = TRUE].revoked = TRUE
         /\ [rec EXCEPT !.trades = t] \in Record
         /\ [rec EXCEPT !.trades = t].status = rec.status
         /\ [rec EXCEPT !.trades = t].revoked = rec.revoked
         /\ [rec EXCEPT !.trades = t].trades = t
BY DEF Record

\* An intent that was never made is a record without a status.
LEMMA MissingType == Missing \in Record /\ Missing.status = Absent /\ Missing.status \notin Status
BY DEF Missing, Record, Absent, Status, Blockable, Terminal

\* A journal that is continued keeps its entry, and gets one from an event.
LEMMA EntryConcat ==
  ASSUME NEW s \in Seq(TradeEvents), NEW t \in Seq(TradeEvents)
  PROVE  s \o t \in Seq(TradeEvents) /\ (HasEntry(s) \/ HasEntry(t) => HasEntry(s \o t))
<1>1. /\ s \o t \in Seq(TradeEvents) /\ Len(s \o t) = Len(s) + Len(t)
      /\ \A k \in 1..(Len(s) + Len(t)) : (s \o t)[k] = IF k <= Len(s) THEN s[k] ELSE t[k - Len(s)]
  BY ConcatProperties
<1>2. Len(s) \in Nat /\ Len(t) \in Nat /\ DOMAIN s = 1..Len(s) /\ DOMAIN t = 1..Len(t)
      /\ DOMAIN (s \o t) = 1..Len(s \o t)
  BY <1>1, LenProperties
<1> SUFFICES ASSUME NEW u, u = s \o t, HasEntry(s) \/ HasEntry(t) PROVE HasEntry(u)
  BY <1>1
<1>3. CASE HasEntry(s)
  <2>1. PICK k \in 1..Len(s) : s[k] = "ENTRY"
    BY <1>2, <1>3 DEF HasEntry
  <2>2. k \in 1..Len(u) /\ u[k] = "ENTRY"
    BY <1>1, <1>2, <2>1
  <2> QED BY <1>1, <1>2, <2>2 DEF HasEntry
<1>4. CASE HasEntry(t)
  <2>1. PICK k \in 1..Len(t) : t[k] = "ENTRY"
    BY <1>2, <1>4 DEF HasEntry
  <2>2. Len(s) + k \in 1..Len(u) /\ ~(Len(s) + k <= Len(s)) /\ Len(s) + k - Len(s) = k
    BY <1>1, <1>2
  <2>3. u[Len(s) + k] = "ENTRY"
    BY <1>1, <2>1, <2>2
  <2> QED BY <1>1, <1>2, <2>2, <2>3 DEF HasEntry
<1> QED BY <1>3, <1>4

\* Likewise when one event is appended.
LEMMA EntryAppend ==
  ASSUME NEW s \in Seq(TradeEvents), NEW e \in TradeEvents
  PROVE  /\ Append(s, e) \in Seq(TradeEvents)
         /\ HasEntry(s) \/ e = "ENTRY" => HasEntry(Append(s, e))
<1>1. <<e>> \in Seq(TradeEvents) /\ Append(s, e) = s \o <<e>>
  BY AppendIsConcat
<1>2. e = "ENTRY" => HasEntry(<<e>>)
  BY DEF HasEntry
<1> QED BY <1>1, <1>2, EntryConcat

\* What is left after the first write.
LEMMA AfterFirst ==
  ASSUME NEW S \in Seq(Steps), S # <<>>
  PROVE  /\ Head(S) = S[1] /\ Head(S) \in Steps /\ Tail(S) \in Seq(Steps)
         /\ Len(S) \in Nat /\ Len(S) >= 1 /\ Len(Tail(S)) = Len(S) - 1
         /\ \A k \in 1..Len(Tail(S)) : k + 1 \in 1..Len(S) /\ Tail(S)[k] = S[k + 1]
         /\ \A k \in 1..Len(S) : k = 1 \/ (k - 1 \in 1..Len(Tail(S)) /\ Tail(S)[k - 1] = S[k])
<1>1. /\ Head(S) = S[1] /\ Head(S) \in Steps /\ Tail(S) \in Seq(Steps)
      /\ Len(S) \in Nat /\ Len(S) >= 1 /\ Len(Tail(S)) = Len(S) - 1
      /\ \A k \in 1..Len(Tail(S)) : Tail(S)[k] = S[k + 1]
  BY HeadTailProperties, EmptySeq, LenProperties
<1> SUFFICES ASSUME NEW T, T = Tail(S)
             PROVE  /\ \A k \in 1..Len(T) : k + 1 \in 1..Len(S)
                    /\ \A k \in 1..Len(S) : k = 1 \/ (k - 1 \in 1..Len(T) /\ T[k - 1] = S[k])
  BY <1>1
<1>2. ASSUME NEW k \in 1..Len(S), k # 1 PROVE k - 1 \in 1..Len(T) /\ T[k - 1] = S[k]
  <2>1. k - 1 \in 1..Len(T) /\ (k - 1) + 1 = k
    BY <1>1, <1>2
  <2>2. T[k - 1] = S[(k - 1) + 1]
    BY <1>1, <2>1
  <2> QED BY <2>1, <2>2
<1> QED BY <1>1, <1>2

-----------------------------------------------------------------------------
(* What the steps of one process do.                                       *)

\* The journal of every intent goes on where it was, or stays.
JournalGrows == \A i \in Intent : HasEntry(log[i]) => HasEntry(log'[i])

\* The process in a handler is up, and its writes have their types.
LEMMA JobTypes ==
  ASSUME DurabilityInv, NEW r \in Replica
  PROVE  /\ job[r] \in Jobs /\ job[r].steps \in Seq(Steps) /\ job[r].about \subseteq Intent
         /\ job[r].promise \in Promise \cup {"NONE"}
         /\ StepsSound(r, job[r].steps) /\ PromiseSound(r, job[r].steps, job[r].promise, job[r].about)
BY DEF DurabilityInv, JobInv, Jobs

\* The memory after a step's change.
LEMMA MemoryMoves ==
  ASSUME DurabilityInv, NEW r \in Replica, NEW s, s = Head(job[r].steps), job[r].steps # <<>>, Remember(r)
  PROVE  /\ s \in Steps /\ (s.op = "EVENT" => s.intent \in Intent /\ s.becomes \in Record /\ s.trade \in Seq(TradeEvents))
         /\ book' \in [Replica -> [Intent -> Record]]
         /\ \A q \in Replica \ {r} : book'[q] = book[q]
         /\ \A i \in Intent : book'[r][i] = IF s.op = "EVENT" /\ s.intent = i THEN s.becomes ELSE book[r][i]
<1>1. s \in Steps
  BY JobTypes, AfterFirst
<1>2. s.op = "EVENT" => s.intent \in Intent /\ s.becomes \in Record /\ s.trade \in Seq(TradeEvents)
  BY <1>1 DEF Steps, Policy, Snapshot
<1>3. book \in [Replica -> [Intent -> Record]]
  BY DEF DurabilityInv, DurabilityTypeOK
<1>4. CASE s.op = "EVENT"
  <2>1. book' = [book EXCEPT ![r][s.intent] = s.becomes]
    BY <1>4 DEF Remember
  <2> QED BY <1>1, <1>2, <1>3, <1>4, <2>1
<1>5. CASE s.op # "EVENT"
  BY <1>1, <1>2, <1>3, <1>5 DEF Remember
<1> QED BY <1>4, <1>5

\* The store after the write: a snapshot is the whole memory, an event goes to
\* the end of its intent's rows.
LEMMA StoreMoves ==
  ASSUME DurabilityInv, NEW r \in Replica, NEW s, s = Head(job[r].steps), job[r].steps # <<>>, Remember(r),
         Store(r) \/ UNCHANGED durable
  PROVE  /\ storedPolicy' \in Modes /\ stored' \in [Intent -> Record] /\ log' \in [Intent -> Seq(TradeEvents)]
         /\ JournalGrows
         /\ stored' = stored \/ (s.op = "SNAPSHOT" /\ stored' = book[r])
         /\ Store(r) => /\ s.op = "SNAPSHOT" => stored' = book[r]
                        /\ s.op = "EVENT" /\ HasEntry(s.trade) => HasEntry(log'[s.intent])
<1>1. s \in Steps /\ (s.op = "EVENT" => s.intent \in Intent /\ s.becomes \in Record /\ s.trade \in Seq(TradeEvents))
  BY MemoryMoves
<1>2. /\ book \in [Replica -> [Intent -> Record]] /\ policy \in [Replica -> Modes]
      /\ storedPolicy \in Modes /\ stored \in [Intent -> Record] /\ log \in [Intent -> Seq(TradeEvents)]
  BY DEF DurabilityInv, DurabilityTypeOK
<1>3. CASE UNCHANGED durable /\ ~Store(r)
  BY <1>2, <1>3 DEF durable, JournalGrows
<1>4. CASE Store(r)
  <2>1. storedPolicy' \in Modes /\ stored' \in [Intent -> Record]
        /\ stored' = IF s.op = "SNAPSHOT" THEN book[r] ELSE stored
    BY <1>2, <1>4 DEF Store
  <2>2. CASE s.op # "EVENT"
    <3>1. log' = log
      BY <1>4, <2>2 DEF Store
    <3> QED BY <1>2, <1>4, <2>1, <2>2, <3>1 DEF JournalGrows
  <2>3. CASE s.op = "EVENT"
    <3>1. log' = [log EXCEPT ![s.intent] = @ \o s.trade]
      BY <1>4, <2>3 DEF Store
    <3>2. log'[s.intent] = log[s.intent] \o s.trade /\ \A i \in Intent \ {s.intent} : log'[i] = log[i]
      BY <1>1, <1>2, <2>3, <3>1
    <3>3. /\ log[s.intent] \o s.trade \in Seq(TradeEvents)
          /\ HasEntry(log[s.intent]) \/ HasEntry(s.trade) => HasEntry(log[s.intent] \o s.trade)
      BY <1>1, <1>2, <2>3, EntryConcat
    <3>4. log' \in [Intent -> Seq(TradeEvents)]
      BY <1>1, <1>2, <2>3, <3>1, <3>3
    <3>5. JournalGrows
      BY <3>2, <3>3 DEF JournalGrows
    <3> QED BY <2>1, <2>3, <3>2, <3>3, <3>4, <3>5
  <2> QED BY <2>2, <2>3
<1> QED BY <1>3, <1>4

\* What a process owes stays sound while others write to the store.
LEMMA OthersKeep ==
  ASSUME DurabilityInv, NEW q \in Replica, book'[q] = book[q], failures' = 0 => failures = 0, JournalGrows,
         NEW T, NEW b, NEW c, T = job[q].steps, b = job[q].promise, c = job[q].about
  PROVE  StepsSound(q, T)' /\ PromiseSound(q, T, b, c)'
<1>1. T \in Seq(Steps) /\ c \subseteq Intent /\ StepsSound(q, T) /\ PromiseSound(q, T, b, c)
  BY JobTypes
<1>2. ASSUME NEW k \in 1..Len(T), T[k].op = "EVENT" PROVE EventSound(q, T[k])'
  <2>1. EventSound(q, T[k]) /\ T[k].intent \in Intent
    BY <1>1, <1>2 DEF StepsSound, Steps, Policy, Snapshot
  <2> QED BY <2>1 DEF EventSound, JournalGrows
<1>3. StepsSound(q, T)'
  BY <1>1, <1>2 DEF StepsSound, IsEvent
<1>4. PromiseSound(q, T, b, c)'
  BY <1>1 DEF PromiseSound, JournalGrows, IsEvent
<1> QED BY <1>3, <1>4

\* A process without a handler owes nothing.
LEMMA NothingOwed ==
  /\ Idle \in Jobs /\ Idle.steps = <<>>
  /\ \A r \in Replica : StepsSound(r, Idle.steps) /\ PromiseSound(r, Idle.steps, Idle.promise, Idle.about)
<1>1. Idle \in Jobs /\ Idle.steps = <<>> /\ Idle.about = {}
  BY DEF Idle, Jobs
<1>2. \A k \in 1..Len(<<>>) : FALSE
  OBVIOUS
<1> QED BY <1>1, <1>2 DEF StepsSound, PromiseSound

\* A step that gives process r the job j, and leaves the memory of the others
\* alone, keeps what all of them owe sound if j is.
LEMMA JobsKeep ==
  ASSUME DurabilityInv, NEW r \in Replica, NEW j \in Jobs, job' = [job EXCEPT ![r] = j],
         \A q \in Replica \ {r} : book'[q] = book[q] /\ up'[q] = up[q],
         failures' = 0 => failures = 0, JournalGrows,
         ~up'[r] => j = Idle,
         StepsSound(r, j.steps)', PromiseSound(r, j.steps, j.promise, j.about)'
  PROVE  JobInv'
<1>1. job' \in [Replica -> Jobs] /\ job'[r] = j /\ \A q \in Replica \ {r} : job'[q] = job[q]
  BY DEF DurabilityInv, JobInv
<1>2. ASSUME NEW q \in Replica, q # r
      PROVE  /\ ~up'[q] => job'[q] = Idle
             /\ StepsSound(q, job[q].steps)'
             /\ PromiseSound(q, job[q].steps, job[q].promise, job[q].about)'
  <2> SUFFICES ASSUME NEW T, NEW b, NEW c, T = job[q].steps, b = job[q].promise, c = job[q].about
               PROVE  StepsSound(q, T)' /\ PromiseSound(q, T, b, c)'
    BY <1>1, <1>2 DEF DurabilityInv, JobInv
  <2> QED BY <1>2, OthersKeep
<1>3. StepsSound(r, job[r].steps)' /\ PromiseSound(r, job[r].steps, job[r].promise, job[r].about)'
  BY <1>1
<1> QED BY <1>1, <1>2, <1>3 DEF JobInv

\* A write that succeeds makes its event true and keeps the rest of the handler
\* sound.
LEMMA WriteKeeps ==
  ASSUME DurabilityInv, NEW r \in Replica, Write(r)
  PROVE  DurabilityInv'
<1> SUFFICES ASSUME NEW S, S = job[r].steps, NEW p, p = job[r].promise, NEW a, a = job[r].about,
                    NEW s, s = Head(S), NEW T, T = Tail(S)
             PROVE  DurabilityInv'
  OBVIOUS
<1>1. /\ S \in Seq(Steps) /\ S # <<>> /\ a \subseteq Intent /\ p \in Promise \cup {"NONE"}
      /\ StepsSound(r, S) /\ PromiseSound(r, S, p, a) /\ job[r] \in Jobs
  BY JobTypes DEF Write
<1>2. /\ UNCHANGED <<up, policy, failures, promised>> /\ Remember(r) /\ Store(r)
      /\ job' = [job EXCEPT ![r].steps = Tail(@)]
  BY DEF Write
<1>3. /\ s \in Steps /\ (s.op = "EVENT" => s.intent \in Intent /\ s.becomes \in Record /\ s.trade \in Seq(TradeEvents))
      /\ book' \in [Replica -> [Intent -> Record]]
      /\ \A q \in Replica \ {r} : book'[q] = book[q]
      /\ \A i \in Intent : book'[r][i] = IF s.op = "EVENT" /\ s.intent = i THEN s.becomes ELSE book[r][i]
  BY <1>1, <1>2, MemoryMoves
<1>4. /\ storedPolicy' \in Modes /\ stored' \in [Intent -> Record] /\ log' \in [Intent -> Seq(TradeEvents)]
      /\ JournalGrows
      /\ stored' = stored \/ (s.op = "SNAPSHOT" /\ stored' = book[r])
      /\ s.op = "EVENT" /\ HasEntry(s.trade) => HasEntry(log'[s.intent])
  BY <1>1, <1>2, StoreMoves
<1>5. /\ s = S[1] /\ T \in Seq(Steps) /\ Len(S) \in Nat /\ Len(S) >= 1 /\ Len(T) = Len(S) - 1
      /\ \A k \in 1..Len(T) : k + 1 \in 1..Len(S) /\ T[k] = S[k + 1]
      /\ \A k \in 1..Len(S) : k = 1 \/ (k - 1 \in 1..Len(T) /\ T[k - 1] = S[k])
  BY <1>1, AfterFirst
<1>6. s.op = "EVENT" => EventSound(r, s)
  BY <1>1, <1>5 DEF StepsSound
<1>7. Len(T) >= 1 => T[Len(T)] = S[Len(S)]
  <2>1. CASE Len(T) >= 1
    <3>1. Len(T) \in 1..Len(T) /\ Len(T) + 1 = Len(S)
      BY <1>5, <2>1
    <3> QED BY <1>5, <3>1
  <2> QED BY <2>1
<1>8. ASSUME NEW k \in 1..Len(T), T[k].op = "EVENT"
      PROVE  EventSound(r, T[k])' /\ T[Len(T)].op = "SNAPSHOT"
  <2>1. k + 1 \in 1..Len(S) /\ T[k] = S[k + 1] /\ Len(T) >= 1 /\ k + 1 # 1
    BY <1>5
  <2>2. EventSound(r, T[k]) /\ S[Len(S)].op = "SNAPSHOT" /\ T[k] \in Steps
    BY <1>1, <1>5, <1>8, <2>1 DEF StepsSound
  <2>3. T[k].intent \in Intent
    BY <1>8, <2>2 DEF Steps, Policy, Snapshot
  <2>4. ~(s.op = "EVENT" /\ s.intent = T[k].intent)
    BY <1>1, <1>5, <1>8, <2>1 DEF StepsSound, IsEvent
  <2>5. book'[r][T[k].intent] = book[r][T[k].intent]
    BY <1>3, <2>3, <2>4
  <2> QED BY <1>2, <1>4, <1>7, <2>1, <2>2, <2>3, <2>5 DEF EventSound, JournalGrows
<1>9. ASSUME NEW k \in 1..Len(T), NEW l \in 1..Len(T), T[k].op = "EVENT", IsEvent(T, l, T[k].intent)
      PROVE  k = l
  <2>1. k + 1 \in 1..Len(S) /\ T[k] = S[k + 1] /\ l + 1 \in 1..Len(S) /\ T[l] = S[l + 1]
    BY <1>5
  <2>2. k + 1 = l + 1
    BY <1>1, <1>9, <2>1 DEF StepsSound, IsEvent
  <2> QED BY <2>2
<1>10. ASSUME NEW k \in 1..Len(T), T[k].op = "SNAPSHOT" PROVE k = Len(T)
  <2>1. k + 1 \in 1..Len(S) /\ T[k] = S[k + 1]
    BY <1>5
  <2>2. k + 1 = Len(S)
    BY <1>1, <1>10, <2>1 DEF StepsSound
  <2> QED BY <1>5, <2>2
<1>11. StepsSound(r, T)'
  BY <1>8, <1>9, <1>10 DEF StepsSound, IsEvent
<1>12. ASSUME NEW i \in a, NEW k \in 1..Len(S), IsEvent(S, k, i), k # 1
       PROVE  k - 1 \in 1..Len(T) /\ IsEvent(T, k - 1, i) /\ T[k - 1] = S[k]
  BY <1>5, <1>12 DEF IsEvent
<1>13. ASSUME NEW i \in a PROVE i \in Intent /\ (IsEvent(S, 1, i) => s.op = "EVENT" /\ s.intent = i /\ book'[r][i] = s.becomes)
  BY <1>1, <1>3, <1>5 DEF IsEvent
<1>14. ASSUME NEW i \in a, p = "ENTERED"
       PROVE  /\ HasEntry(log'[i]) \/ \E k \in 1..Len(T) : IsEvent(T, k, i) /\ HasEntry(T[k].trade)
              /\ \/ book'[r][i].status \in Filled
                 \/ \E k \in 1..Len(T) : IsEvent(T, k, i) /\ T[k].becomes.status \in Filled
  <2>1. HasEntry(log[i]) \/ \E k \in 1..Len(S) : IsEvent(S, k, i) /\ HasEntry(S[k].trade)
    BY <1>1, <1>14 DEF PromiseSound
  <2>2. HasEntry(log'[i]) \/ \E k \in 1..Len(T) : IsEvent(T, k, i) /\ HasEntry(T[k].trade)
    BY <1>4, <1>5, <1>12, <1>13, <2>1 DEF JournalGrows
  <2>3. book[r][i].status \in Filled \/ \E k \in 1..Len(S) : IsEvent(S, k, i) /\ S[k].becomes.status \in Filled
    BY <1>1, <1>14 DEF PromiseSound
  <2>4. book[r][i].status \in Filled => book'[r][i].status \in Filled
    BY <1>3, <1>6, <1>13 DEF EventSound
  <2>5. CASE book[r][i].status \in Filled
    BY <2>2, <2>4, <2>5
  <2>6. ASSUME NEW k \in 1..Len(S), IsEvent(S, k, i), S[k].becomes.status \in Filled
        PROVE  \/ book'[r][i].status \in Filled
               \/ \E l \in 1..Len(T) : IsEvent(T, l, i) /\ T[l].becomes.status \in Filled
    <3>1. CASE k = 1
      BY <1>5, <1>13, <2>6, <3>1
    <3>2. CASE k # 1
      BY <1>12, <2>6, <3>2
    <3> QED BY <3>1, <3>2
  <2> QED BY <2>2, <2>3, <2>5, <2>6
<1>15. ASSUME NEW i \in a, p = "HALTED"
       PROVE  Secured(book'[r][i]) \/ \E k \in 1..Len(T) : IsEvent(T, k, i) /\ Secured(T[k].becomes)
  <2>1. Secured(book[r][i]) \/ \E k \in 1..Len(S) : IsEvent(S, k, i) /\ Secured(S[k].becomes)
    BY <1>1, <1>15 DEF PromiseSound
  <2>2. Secured(book[r][i]) => Secured(book'[r][i])
    BY <1>3, <1>6, <1>13 DEF EventSound
  <2> QED BY <1>5, <1>12, <1>13, <2>1, <2>2
<1>16. PromiseSound(r, T, p, a)'
  BY <1>14, <1>15 DEF PromiseSound, IsEvent
<1>17. JobInv'
  <2>1. \E j \in Jobs : job' = [job EXCEPT ![r] = j] /\ j.steps = T /\ j.promise = p /\ j.about = a
    <3>1. [job[r] EXCEPT !.steps = T] \in Jobs
      BY <1>1, <1>5 DEF Jobs
    <3>2. /\ [job[r] EXCEPT !.steps = T].steps = T /\ [job[r] EXCEPT !.steps = T].promise = p
          /\ [job[r] EXCEPT !.steps = T].about = a
      BY <1>1 DEF Jobs
    <3>3. job' = [job EXCEPT ![r] = [job[r] EXCEPT !.steps = T]]
      BY <1>2 DEF DurabilityInv, JobInv
    <3> QED BY <3>1, <3>2, <3>3
  <2>2. PICK j \in Jobs : job' = [job EXCEPT ![r] = j] /\ j.steps = T /\ j.promise = p /\ j.about = a
    BY <2>1
  <2>3. up[r]
    BY <1>1, NothingOwed DEF DurabilityInv, JobInv
  <2>4. StepsSound(r, j.steps)' /\ PromiseSound(r, j.steps, j.promise, j.about)'
    BY <1>11, <1>16, <2>2
  <2> QED BY <1>2, <1>3, <1>4, <2>2, <2>3, <2>4, JobsKeep
<1>18. DurabilityTypeOK'
  <2>1. \A q \in Replica : ~up'[q] => job'[q] = Idle
    BY <1>17 DEF JobInv
  <2> QED BY <1>2, <1>3, <1>4, <2>1 DEF DurabilityInv, DurabilityTypeOK
<1>19. EntryInv'
  <2> SUFFICES ASSUME failures = 0, NEW i \in Intent
               PROVE  /\ stored'[i].status \in Filled => HasEntry(log'[i])
                      /\ \A q \in Replica :
                           /\ book'[q][i].status \in Filled => HasEntry(log'[i])
                           /\ book'[q][i].status = "EXECUTED" => HasEntry(book'[q][i].trades)
    BY <1>2 DEF EntryInv
  <2>1. /\ stored[i].status \in Filled => HasEntry(log'[i])
        /\ \A q \in Replica :
             /\ book[q][i].status \in Filled => HasEntry(log'[i])
             /\ book[q][i].status = "EXECUTED" => HasEntry(book[q][i].trades)
    BY <1>4 DEF DurabilityInv, EntryInv, JournalGrows
  <2>2. s.op = "EVENT" /\ s.intent = i =>
          /\ s.becomes.status \in Filled => HasEntry(log'[i])
          /\ s.becomes.status = "EXECUTED" => HasEntry(s.becomes.trades)
    BY <1>4, <1>6 DEF EventSound, JournalGrows
  <2> QED BY <1>3, <1>4, <2>1, <2>2
<1>20. AcknowledgedFillIsJournaled'
  BY <1>2, <1>4 DEF DurabilityInv, DurabilityTypeOK, AcknowledgedFillIsJournaled, JournalGrows, Promise
<1> QED BY <1>17, <1>18, <1>19, <1>20 DEF DurabilityInv

\* A handler that owes sound writes may begin.
LEMMA BeginKeeps ==
  ASSUME DurabilityInv, NEW r \in Replica, NEW S \in Seq(Steps), NEW p \in Promise \cup {"NONE"},
         NEW a \in SUBSET Intent, Begin(r, S, p, a), policy' \in [Replica -> Modes],
         StepsSound(r, S), PromiseSound(r, S, p, a)
  PROVE  DurabilityInv'
<1> DEFINE j == [steps |-> S, promise |-> p, about |-> a]
<1>1. j \in Jobs /\ j.steps = S /\ j.promise = p /\ j.about = a
  BY DEF Jobs
<1>2. UNCHANGED <<up, book, durable, failures, promised>> /\ up[r] /\ job' = [job EXCEPT ![r] = j]
  BY DEF Begin
<1>3. UNCHANGED <<storedPolicy, stored, log>> /\ JournalGrows
  BY <1>2 DEF durable, JournalGrows
<1> HIDE DEF j
<1>4. StepsSound(r, j.steps)' /\ PromiseSound(r, j.steps, j.promise, j.about)'
  <2>1. StepsSound(r, S)' /\ PromiseSound(r, S, p, a)'
    BY <1>2, <1>3 DEF StepsSound, PromiseSound, IsEvent, EventSound
  <2>2. j' = j
    BY DEF j
  <2> QED BY <1>1, <2>1, <2>2
<1>5. JobInv'
  <2> SUFFICES ASSUME NEW o \in Jobs, o = j, job' = [job EXCEPT ![r] = o],
                      StepsSound(r, o.steps)', PromiseSound(r, o.steps, o.promise, o.about)'
               PROVE  JobInv'
    BY <1>1, <1>2, <1>4
  <2> QED BY <1>2, <1>3, JobsKeep
<1>6. DurabilityTypeOK'
  BY <1>2, <1>3, <1>5 DEF DurabilityInv, DurabilityTypeOK, JobInv
<1>7. EntryInv' /\ AcknowledgedFillIsJournaled'
  BY <1>2, <1>3 DEF DurabilityInv, EntryInv, AcknowledgedFillIsJournaled
<1> QED BY <1>5, <1>6, <1>7 DEF DurabilityInv

\* A step that ends the handler of a process and leaves the others' memory.
LEMMA EndKeeps ==
  ASSUME DurabilityInv, NEW r \in Replica, job' = [job EXCEPT ![r] = Idle],
         \A q \in Replica \ {r} : book'[q] = book[q] /\ up'[q] = up[q],
         failures' = 0 => failures = 0, JournalGrows
  PROVE  JobInv'
<1>1. StepsSound(r, Idle.steps)' /\ PromiseSound(r, Idle.steps, Idle.promise, Idle.about)'
  <2>1. Idle.steps = <<>> /\ Idle.about = {} /\ \A k \in 1..Len(<<>>) : FALSE
    BY DEF Idle
  <2> QED BY <2>1 DEF StepsSound, PromiseSound
<1> QED BY <1>1, NothingOwed, JobsKeep

\* An answer promises what the finished handler has made so.
LEMMA AnswerKeeps ==
  ASSUME DurabilityInv, NEW r \in Replica, Answer(r)
  PROVE  DurabilityInv'
<1>1. /\ UNCHANGED <<up, policy, book, durable, failures>> /\ job' = [job EXCEPT ![r] = Idle]
      /\ promised' = [p \in Promise |->
            promised[p] \cup (IF p = job[r].promise THEN job[r].about ELSE {})]
      /\ job[r].steps = <<>>
  BY DEF Answer
<1>2. UNCHANGED <<storedPolicy, stored, log>> /\ JournalGrows
  BY <1>1 DEF durable, JournalGrows
<1>3. JobInv'
  BY <1>1, <1>2, EndKeeps
<1>4. promised' \in [Promise -> SUBSET Intent]
  BY <1>1, JobTypes DEF DurabilityInv, DurabilityTypeOK
<1>5. DurabilityTypeOK'
  BY <1>1, <1>2, <1>3, <1>4 DEF DurabilityInv, DurabilityTypeOK, JobInv
<1>6. EntryInv'
  BY <1>1, <1>2 DEF DurabilityInv, EntryInv
<1>7. ASSUME NEW i \in promised'["ENTERED"] PROVE HasEntry(log[i])
  <2>1. CASE i \in promised["ENTERED"]
    BY <2>1 DEF DurabilityInv, AcknowledgedFillIsJournaled
  <2>2. CASE i \notin promised["ENTERED"]
    <3>1. job[r].promise = "ENTERED" /\ i \in job[r].about
      BY <1>1, <1>7, <2>2 DEF Promise
    <3>2. PromiseSound(r, <<>>, "ENTERED", job[r].about) /\ \A k \in 1..Len(<<>>) : FALSE
      BY <1>1, <3>1, JobTypes
    <3> QED BY <3>1, <3>2 DEF PromiseSound
  <2> QED BY <2>1, <2>2
<1>8. AcknowledgedFillIsJournaled'
  BY <1>2, <1>7 DEF AcknowledgedFillIsJournaled
<1> QED BY <1>3, <1>5, <1>6, <1>8 DEF DurabilityInv

\* A write that raises may have reached the store or not; nobody is told.
LEMMA WriteRaisesKeeps ==
  ASSUME DurabilityInv, NEW r \in Replica, WriteRaises(r)
  PROVE  DurabilityInv'
<1>1. /\ UNCHANGED <<up, policy, promised>> /\ job' = [job EXCEPT ![r] = Idle]
      /\ failures < MaxFailures /\ failures' = failures + 1 /\ job[r].steps # <<>>
      /\ Remember(r) /\ (Store(r) \/ UNCHANGED durable)
  BY DEF WriteRaises
<1>2. failures \in 0..MaxFailures /\ MaxFailures \in Nat
  BY DurabilityAssumption DEF DurabilityInv, DurabilityTypeOK
<1>3. failures' \in 0..MaxFailures /\ failures' # 0
  BY <1>1, <1>2
<1>4. /\ book' \in [Replica -> [Intent -> Record]]
      /\ \A q \in Replica \ {r} : book'[q] = book[q]
  BY <1>1, MemoryMoves
<1>5. /\ storedPolicy' \in Modes /\ stored' \in [Intent -> Record] /\ log' \in [Intent -> Seq(TradeEvents)]
      /\ JournalGrows
  BY <1>1, StoreMoves
<1>6. JobInv'
  BY <1>1, <1>3, <1>4, <1>5, EndKeeps
<1>7. DurabilityTypeOK'
  BY <1>1, <1>3, <1>4, <1>5, <1>6 DEF DurabilityInv, DurabilityTypeOK, JobInv
<1>8. EntryInv'
  BY <1>3 DEF EntryInv
<1>9. AcknowledgedFillIsJournaled'
  BY <1>1, <1>5 DEF DurabilityInv, DurabilityTypeOK, AcknowledgedFillIsJournaled, JournalGrows, Promise
<1> QED BY <1>6, <1>7, <1>8, <1>9 DEF DurabilityInv

\* A crash forgets the memory and the handler.
LEMMA CrashKeeps ==
  ASSUME DurabilityInv, NEW r \in Replica, Crash(r)
  PROVE  DurabilityInv'
<1>1. /\ UNCHANGED <<durable, failures, promised>> /\ job' = [job EXCEPT ![r] = Idle]
      /\ up' = [up EXCEPT ![r] = FALSE] /\ policy' = [policy EXCEPT ![r] = "SIMULATION"]
      /\ book' = [book EXCEPT ![r] = [i \in Intent |-> Missing]]
  BY DEF Crash
<1>2. UNCHANGED <<storedPolicy, stored, log>> /\ JournalGrows
  BY <1>1 DEF durable, JournalGrows
<1>3. /\ book' \in [Replica -> [Intent -> Record]] /\ up' \in [Replica -> BOOLEAN]
      /\ policy' \in [Replica -> Modes]
      /\ book'[r] = [i \in Intent |-> Missing]
      /\ \A q \in Replica \ {r} : book'[q] = book[q] /\ up'[q] = up[q]
  BY <1>1, MissingType DEF DurabilityInv, DurabilityTypeOK, Modes
<1>4. JobInv'
  BY <1>1, <1>2, <1>3, EndKeeps
<1>5. DurabilityTypeOK'
  BY <1>1, <1>2, <1>3, <1>4 DEF DurabilityInv, DurabilityTypeOK, JobInv
<1>6. EntryInv'
  <2>1. \A i \in Intent : book'[r][i].status \notin Filled /\ book'[r][i].status # "EXECUTED"
    BY <1>3 DEF Missing, Absent, Filled
  <2> QED BY <1>1, <1>2, <1>3, <2>1 DEF DurabilityInv, EntryInv
<1>7. AcknowledgedFillIsJournaled'
  BY <1>1, <1>2 DEF DurabilityInv, AcknowledgedFillIsJournaled
<1> QED BY <1>4, <1>5, <1>6, <1>7 DEF DurabilityInv

\* An intent as a starting process reads it.
Loaded(i) ==
  IF stored[i].status = Absent THEN Missing ELSE [stored[i] EXCEPT !.trades = TradesOnLoad(i)]

\* Loading changes the trade events of an intent only, to its rows if it has any.
LEMMA LoadedFields ==
  ASSUME DurabilityTypeOK, NEW i \in Intent
  PROVE  /\ Loaded(i) \in Record
         /\ stored[i].status = Absent => Loaded(i) = Missing
         /\ stored[i].status # Absent => /\ Loaded(i).status = stored[i].status
                                         /\ Loaded(i).revoked = stored[i].revoked
                                         /\ Loaded(i).trades = TradesOnLoad(i)
<1>1. stored[i] \in Record /\ log[i] \in Seq(TradeEvents) /\ stored[i].trades \in Seq(TradeEvents)
  BY DEF DurabilityTypeOK, Record
<1>2. TradesOnLoad(i) \in Seq(TradeEvents)
  BY <1>1 DEF TradesOnLoad
<1>3. CASE stored[i].status = Absent
  BY <1>3, MissingType DEF Loaded
<1>4. CASE stored[i].status # Absent
  <2>1. Loaded(i) = [stored[i] EXCEPT !.trades = TradesOnLoad(i)]
    BY <1>4 DEF Loaded
  <2>2. ASSUME NEW rec \in Record, NEW t \in Seq(TradeEvents), NEW u, u = [rec EXCEPT !.trades = t]
        PROVE  u \in Record /\ u.status = rec.status /\ u.revoked = rec.revoked /\ u.trades = t
    BY <2>2 DEF Record
  <2> QED BY <1>1, <1>2, <1>4, <2>1, <2>2
<1> QED BY <1>3, <1>4

\* A starting process holds what the snapshot and the rows say.
LEMMA BootKeeps ==
  ASSUME DurabilityInv, NEW r \in Replica, Boot(r)
  PROVE  DurabilityInv'
<1>1. /\ UNCHANGED <<job, durable, failures, promised>> /\ ~up[r]
      /\ up' = [up EXCEPT ![r] = TRUE] /\ policy' = [policy EXCEPT ![r] = storedPolicy]
      /\ book' = [book EXCEPT ![r] = [i \in Intent |-> Loaded(i)]]
  BY DEF Boot, Loaded
<1>2. UNCHANGED <<storedPolicy, stored, log>> /\ JournalGrows
  BY <1>1 DEF durable, JournalGrows
<1>3. \A i \in Intent : Loaded(i) \in Record
  BY LoadedFields DEF DurabilityInv
<1>4. /\ book' \in [Replica -> [Intent -> Record]] /\ up' \in [Replica -> BOOLEAN]
      /\ policy' \in [Replica -> Modes]
      /\ \A i \in Intent : book'[r][i] = Loaded(i)
      /\ \A q \in Replica \ {r} : book'[q] = book[q] /\ up'[q] = up[q]
  BY <1>1, <1>3 DEF DurabilityInv, DurabilityTypeOK
<1>5. job[r] = Idle /\ job' = [job EXCEPT ![r] = Idle]
  BY <1>1 DEF DurabilityInv, JobInv
<1>6. JobInv'
  BY <1>1, <1>2, <1>4, <1>5, EndKeeps
<1>7. DurabilityTypeOK'
  BY <1>1, <1>2, <1>4, <1>6 DEF DurabilityInv, DurabilityTypeOK, JobInv
<1>8. EntryInv'
  <2> SUFFICES ASSUME failures = 0, NEW i \in Intent
               PROVE  /\ Loaded(i).status \in Filled => HasEntry(log[i])
                      /\ Loaded(i).status = "EXECUTED" => HasEntry(Loaded(i).trades)
    BY <1>1, <1>2, <1>4 DEF DurabilityInv, EntryInv
  <2>1. Loaded(i).status \in Filled => stored[i].status = Loaded(i).status /\ Loaded(i).trades = TradesOnLoad(i)
    BY LoadedFields, MissingType DEF DurabilityInv, Filled, Absent
  <2>2. Loaded(i).status \in Filled => HasEntry(log[i])
    BY <2>1 DEF DurabilityInv, EntryInv
  <2>3. HasEntry(log[i]) => log[i] # <<>>
    BY DEF HasEntry
  <2> QED BY <2>1, <2>2, <2>3 DEF TradesOnLoad, Filled
<1>9. AcknowledgedFillIsJournaled'
  BY <1>1, <1>2 DEF DurabilityInv, AcknowledgedFillIsJournaled
<1> QED BY <1>6, <1>7, <1>8, <1>9 DEF DurabilityInv

-----------------------------------------------------------------------------
(* The handlers.                                                           *)

\* An event is a step with its fields.
LEMMA EventFields ==
  ASSUME NEW i \in Intent, NEW rec \in Record
  PROVE  /\ Event(i, rec) \in Steps /\ Event(i, rec).op = "EVENT" /\ Event(i, rec).intent = i
         /\ Event(i, rec).becomes = rec /\ Event(i, rec).trade = <<>>
<1>1. <<>> \in Seq(TradeEvents)
  OBVIOUS
<1> QED BY <1>1 DEF Event, Steps

\* An event that appends to a record's trade events.
LEMMA TradeFields ==
  ASSUME NEW i \in Intent, NEW rec \in Record, NEW e \in TradeEvents
  PROVE  /\ Trade(i, rec, e) \in Steps /\ Trade(i, rec, e).op = "EVENT" /\ Trade(i, rec, e).intent = i
         /\ Trade(i, rec, e).trade = <<e>>
         /\ Trade(i, rec, e).becomes.status = rec.status
         /\ Trade(i, rec, e).becomes.trades = Append(rec.trades, e)
         /\ Trade(i, rec, e).becomes.revoked = rec.revoked
<1>1. <<e>> \in Seq(TradeEvents) /\ rec.trades \in Seq(TradeEvents)
  BY DEF Record
<1>2. Append(rec.trades, e) \in Seq(TradeEvents)
  BY <1>1, EntryAppend
<1> DEFINE w == [rec EXCEPT !.trades = Append(@, e)]
<1>3. /\ w \in Record /\ w.status = rec.status /\ w.revoked = rec.revoked
      /\ w.trades = Append(rec.trades, e)
  BY <1>2 DEF Record
<1>4. Trade(i, rec, e) = [op |-> "EVENT", intent |-> i, trade |-> <<e>>, becomes |-> w]
  BY DEF Trade
<1> HIDE DEF w
<1>5. [op |-> "EVENT", intent |-> i, trade |-> <<e>>, becomes |-> w] \in Steps
  BY <1>1, <1>3 DEF Steps
<1> QED BY <1>3, <1>4, <1>5

\* One sound event and its snapshot are a sound handler.
LEMMA SavedSound ==
  ASSUME NEW r \in Replica, NEW st \in Steps, st.op = "EVENT", EventSound(r, st)
  PROVE  /\ Saved(st) \in Seq(Steps) /\ StepsSound(r, Saved(st))
         /\ 1 \in 1..Len(Saved(st)) /\ Saved(st)[1] = st
<1>1. Snapshot \in Steps /\ Snapshot.op = "SNAPSHOT"
  BY DEF Snapshot, Steps
<1>2. /\ Saved(st) \in Seq(Steps) /\ Len(Saved(st)) = 2
      /\ Saved(st)[1] = st /\ Saved(st)[2] = Snapshot
  BY <1>1 DEF Saved
<1> QED BY <1>1, <1>2 DEF StepsSound, IsEvent

\* A handler that promises nothing keeps its promise.
LEMMA NoPromise ==
  ASSUME NEW r, NEW S, NEW a
  PROVE  PromiseSound(r, S, "NONE", a)
BY DEF PromiseSound

\* A new intent has neither been filled nor revoked before.
LEMMA CreateKeeps ==
  ASSUME DurabilityInv, NEW r \in Replica, NEW i \in Intent, Create(r, i)
  PROVE  DurabilityInv'
<1>1. PICK st \in {"READY", "BLOCKED"} : Begin(r, Saved(Event(i, [Missing EXCEPT !.status = st])), "NONE", {})
  BY DEF Create
<1> DEFINE rec == [Missing EXCEPT !.status = st]
           e == Event(i, rec)
<1>2. rec \in Record /\ rec.status = st
  <2>1. st \in Status /\ Missing \in Record
    BY MissingType DEF Status, Blockable, Terminal
  <2> QED BY <2>1 DEF Record
<1>3. book[r][i] = Missing /\ policy' = policy
  BY DEF Create
<1> HIDE DEF rec
<1>4. e \in Steps /\ e.op = "EVENT" /\ e.intent = i /\ e.becomes = rec
  BY <1>2, EventFields
<1> HIDE DEF e
<1>5. EventSound(r, e)
  BY <1>2, <1>3, <1>4, MissingType DEF EventSound, Secured, Filled, Absent
<1>6. Saved(e) \in Seq(Steps) /\ StepsSound(r, Saved(e))
  BY <1>4, <1>5, SavedSound
<1>7. Begin(r, Saved(e), "NONE", {})
  BY <1>1 DEF e, rec
<1>8. policy' \in [Replica -> Modes] /\ {} \in SUBSET Intent /\ PromiseSound(r, Saved(e), "NONE", {})
  BY <1>3, NoPromise DEF DurabilityInv, DurabilityTypeOK
<1> QED BY <1>6, <1>7, <1>8, BeginKeeps

\* A claim is made of a READY intent only.
LEMMA ClaimKeeps ==
  ASSUME DurabilityInv, NEW r \in Replica, NEW i \in Intent, Claim(r, i)
  PROVE  DurabilityInv'
<1> DEFINE rec == [book[r][i] EXCEPT !.status = "CLAIMED"]
           e == Event(i, rec)
<1>1. /\ book[r][i].status = "READY" /\ policy' = policy /\ Begin(r, Saved(e), "NONE", {})
      /\ book[r][i] \in Record
  BY DEF Claim, DurabilityInv, DurabilityTypeOK
<1>2. rec \in Record /\ rec.status = "CLAIMED"
  BY <1>1 DEF Record, Status
<1> HIDE DEF rec
<1>3. e \in Steps /\ e.op = "EVENT" /\ e.intent = i /\ e.becomes = rec
  BY <1>2, EventFields
<1> HIDE DEF e
<1>4. EventSound(r, e)
  BY <1>1, <1>2, <1>3 DEF EventSound, Secured, Executable, Filled
<1>5. Saved(e) \in Seq(Steps) /\ StepsSound(r, Saved(e))
  BY <1>3, <1>4, SavedSound
<1>6. policy' \in [Replica -> Modes] /\ {} \in SUBSET Intent /\ PromiseSound(r, Saved(e), "NONE", {})
  BY <1>1, NoPromise DEF DurabilityInv, DurabilityTypeOK
<1>7. Begin(r, Saved(e), "NONE", {})
  BY <1>1
<1> QED BY <1>5, <1>6, <1>7, BeginKeeps

\* A receipt never takes a fill back, and a fill comes with its entry.
LEMMA ReceiveKeeps ==
  ASSUME DurabilityInv, NEW r \in Replica, NEW i \in Intent, NEW receipt \in Status, Receive(r, i, receipt)
  PROVE  DurabilityInv'
<1> SUFFICES ASSUME NEW old, old = book[r][i], NEW x, x = StatusAfter(old.status, receipt),
                    NEW t, t = TradeEvent(receipt), NEW p, p = IF receipt = "EXECUTED" THEN "ENTERED" ELSE "NONE",
                    NEW rec, rec = [old EXCEPT !.status = x], NEW e, e = Trade(i, rec, t)
             PROVE  DurabilityInv'
  OBVIOUS
<1>1. old \in Record /\ old.trades \in Seq(TradeEvents)
  BY DEF DurabilityInv, DurabilityTypeOK, Record
<1>2. /\ receipt \in ReceiptAllowed(old.status) /\ policy' = policy
  BY DEF Receive
<1>3. /\ \/ receipt \in {"EXECUTED", "REJECTED", "FAILED", "CANCELLED"} /\ old.status = "CLAIMED" /\ x = receipt
         \/ receipt = "EXECUTED" /\ old.status = "CANCELLED" /\ x = receipt
         \/ receipt = "CLOSED" /\ old.status = "EXECUTED" /\ x = "CLOSED"
         \/ receipt = "FAILED" /\ old.status = "EXECUTED" /\ x = "EXECUTED"
      /\ t \in TradeEvents /\ (receipt = "EXECUTED" => t = "ENTRY")
  BY <1>2 DEF ReceiptAllowed, StatusAfter, TradeEvent, TradeEvents
<1>4. x \in Status /\ rec \in Record /\ rec.status = x /\ rec.trades = old.trades
  BY <1>1, <1>3 DEF Status, Blockable, Terminal, Record
<1>5. /\ e \in Steps /\ e.op = "EVENT" /\ e.intent = i /\ e.trade = <<t>>
      /\ e.becomes.status = x /\ e.becomes.trades = Append(old.trades, t)
  <2>1. i \in Intent /\ rec \in Record /\ t \in TradeEvents
    BY <1>3, <1>4
  <2>2. /\ e \in Steps /\ e.op = "EVENT" /\ e.intent = i /\ e.trade = <<t>>
        /\ e.becomes.status = rec.status /\ e.becomes.trades = Append(rec.trades, t)
    <3>1. e = Trade(i, rec, t)
      OBVIOUS
    <3> QED BY ONLY <2>1, <3>1, TradeFields
  <2> QED BY <1>4, <2>2
<1>6. Begin(r, Saved(e), p, {i})
  BY DEF Receive
<1>7. t = "ENTRY" => HasEntry(<<t>>)
  BY DEF HasEntry
<1>8. HasEntry(old.trades) \/ t = "ENTRY" => HasEntry(Append(old.trades, t))
  BY <1>1, <1>3, EntryAppend
<1>9. failures = 0 /\ old.status = "EXECUTED" => HasEntry(log[i]) /\ HasEntry(old.trades)
  BY DEF DurabilityInv, EntryInv, Filled
<1>10. Secured(e.becomes)
  BY <1>3, <1>5 DEF Secured, Executable, Absent
<1>11. EventSound(r, e)
  BY <1>3, <1>5, <1>7, <1>8, <1>9, <1>10 DEF EventSound, Filled
<1>12. /\ Saved(e) \in Seq(Steps) /\ StepsSound(r, Saved(e)) /\ 1 \in 1..Len(Saved(e)) /\ Saved(e)[1] = e
  BY <1>5, <1>11, SavedSound
<1>13. PromiseSound(r, Saved(e), p, {i})
  <2>1. CASE receipt = "EXECUTED"
    <3>1. IsEvent(Saved(e), 1, i) /\ HasEntry(Saved(e)[1].trade) /\ Saved(e)[1].becomes.status \in Filled
      BY <1>3, <1>5, <1>7, <1>12, <2>1 DEF IsEvent, Filled
    <3> QED BY <1>12, <2>1, <3>1 DEF PromiseSound
  <2>2. CASE receipt # "EXECUTED"
    BY <2>2, NoPromise
  <2> QED BY <2>1, <2>2
<1>14. p \in Promise \cup {"NONE"} /\ policy' \in [Replica -> Modes] /\ {i} \in SUBSET Intent
  BY <1>2 DEF Promise, DurabilityInv, DurabilityTypeOK
<1> QED BY <1>6, <1>12, <1>13, <1>14, BeginKeeps

\* An order of the executable intents holds each of them once.
LEMMA HaltOrder ==
  ASSUME NEW r \in Replica, NEW E, E = {i \in Intent : Executable(book[r][i])}, NEW order \in HaltOrders(r)
  PROVE  /\ order \in Seq(E)
         /\ \A k, l \in 1..Len(order) : order[k] = order[l] => k = l
         /\ \A i \in E : \E k \in 1..Len(order) : order[k] = i
<1> DEFINE n == Cardinality(E)
           D == 1..n
<1>1. IsFiniteSet(E) /\ n \in Nat
  BY DurabilityAssumption, FS_Subset, FS_CardinalityType
<1>2. IsFiniteSet(D) /\ Cardinality(D) = n
  BY <1>1, FS_Interval
<1>3. order \in [D -> E] /\ \A k, l \in D : k # l => order[k] # order[l]
  BY DEF HaltOrders, SetToSeqs
<1>4. order \in Injection(D, E)
  BY <1>3 DEF Injection, IsInjective
<1>5. order \in Surjection(D, E)
  BY <1>1, <1>2, <1>4, FS_Injection
<1>6. \A i \in E : \E k \in D : order[k] = i
  BY <1>5 DEF Surjection
<1>7. order \in Seq(E) /\ Len(order) = n
  BY <1>1, <1>3
<1> QED BY <1>3, <1>6, <1>7

\* What halting an executable intent makes of it.
LEMMA HaltedFields ==
  ASSUME NEW rec \in Record, Executable(rec)
  PROVE  Halted(rec) \in Record /\ Secured(Halted(rec)) /\ Halted(rec).status \notin Filled /\ rec.status \notin Filled
<1>1. rec.status \in {"READY", "CLAIMED"}
  BY DEF Executable
<1>2. CASE rec.status = "READY"
  <2> SUFFICES ASSUME NEW h, h = [rec EXCEPT !.status = "BLOCKED"]
               PROVE  h \in Record /\ Secured(h) /\ h.status \notin Filled
    BY <1>1, <1>2 DEF Halted, Filled
  <2>1. h \in Record /\ h.status = "BLOCKED"
    BY DEF Record, Status, Terminal
  <2> QED BY <2>1 DEF Secured, Executable, Filled, Absent
<1>3. CASE rec.status = "CLAIMED"
  <2> SUFFICES ASSUME NEW h, h = [rec EXCEPT !.revoked = TRUE]
               PROVE  h \in Record /\ Secured(h) /\ h.status \notin Filled
    BY <1>1, <1>3 DEF Halted, Filled
  <2>1. h \in Record /\ h.status = "CLAIMED" /\ h.revoked = TRUE
    BY <1>3 DEF Record
  <2> QED BY <2>1 DEF Secured, Executable, Filled, Absent
<1> QED BY <1>1, <1>2, <1>3

\* The event that halts an executable intent is sound.
LEMMA HaltSound ==
  ASSUME DurabilityInv, NEW r \in Replica, NEW i \in Intent, Executable(book[r][i]),
         NEW e, e = Event(i, Halted(book[r][i]))
  PROVE  /\ e \in Steps /\ e.op = "EVENT" /\ e.intent = i /\ EventSound(r, e) /\ Secured(e.becomes)
<1>1. book[r][i] \in Record
  BY DEF DurabilityInv, DurabilityTypeOK
<1> SUFFICES ASSUME NEW h, h = Halted(book[r][i])
             PROVE  /\ e \in Steps /\ e.op = "EVENT" /\ e.intent = i /\ EventSound(r, e) /\ Secured(e.becomes)
  OBVIOUS
<1>2. h \in Record /\ Secured(h) /\ h.status \notin Filled /\ book[r][i].status \notin Filled
  BY <1>1, HaltedFields
<1>3. e \in Steps /\ e.op = "EVENT" /\ e.intent = i /\ e.becomes = h
  <2>1. e = Event(i, h)
    OBVIOUS
  <2> QED BY ONLY <1>2, <2>1, i \in Intent, EventFields
<1> QED BY <1>2, <1>3 DEF EventSound, Filled

\* Halting everything that is executable is a sound handler, and afterwards
\* nothing that exists is.
LEMMA HaltsSound ==
  ASSUME DurabilityInv, NEW r \in Replica, NEW order \in HaltOrders(r), NEW H, H = Halts(r, order)
  PROVE  H \in Seq(Steps) /\ StepsSound(r, H) /\ PromiseSound(r, H, "HALTED", Known(r))
<1> SUFFICES ASSUME NEW E, E = {i \in Intent : Executable(book[r][i])}, NEW n, n = Len(order),
                    NEW V, V = Events(r, order)
             PROVE  H \in Seq(Steps) /\ StepsSound(r, H) /\ PromiseSound(r, H, "HALTED", Known(r))
  OBVIOUS
<1>1. /\ order \in Seq(E) /\ n \in Nat /\ DOMAIN order = 1..n
      /\ \A k, l \in 1..n : order[k] = order[l] => k = l
      /\ \A i \in E : \E k \in 1..n : order[k] = i
      /\ \A k \in 1..n : order[k] \in E
  BY HaltOrder, LenProperties, ElementOfSeq
<1>2. \A k \in 1..n : order[k] \in Intent /\ Executable(book[r][order[k]])
  BY <1>1
<1>3. V = [k \in 1..n |-> Event(order[k], Halted(book[r][order[k]]))]
  BY <1>1 DEF Events
<1>4. ASSUME NEW k \in 1..n
      PROVE  /\ V[k] \in Steps /\ V[k].op = "EVENT" /\ V[k].intent = order[k]
             /\ EventSound(r, V[k]) /\ Secured(V[k].becomes)
  BY <1>2, <1>3, HaltSound
<1>5. V \in Seq(Steps) /\ Len(V) = n
  <2>1. V \in [1..n -> Steps]
    BY <1>3, <1>4
  <2> QED BY <1>1, <2>1
<1>6. Snapshot \in Steps /\ Snapshot.op = "SNAPSHOT" /\ <<Snapshot>> \in Seq(Steps) /\ Len(<<Snapshot>>) = 1
  BY DEF Snapshot, Steps
<1>7. /\ H \in Seq(Steps) /\ \A k \in 1..n : H[k] = V[k]
      /\ \/ n = 0 /\ Len(H) = 0
         \/ n > 0 /\ Len(H) = n + 1 /\ H[n + 1].op = "SNAPSHOT"
  <2>1. CASE order = <<>>
    <3>1. n = 0 /\ Len(<<>>) = 0 /\ <<>> \in Seq(Steps)
      BY <2>1
    <3>2. H = V \o <<>>
      BY <2>1 DEF Halts
    <3>3. H = V
      BY <1>5, <3>2, ConcatEmptySeq
    <3> QED BY <1>5, <3>1, <3>3
  <2>2. CASE order # <<>>
    <3>1. n > 0
      BY <1>1, <2>2, EmptySeq
    <3>2. H = V \o <<Snapshot>>
      BY <2>2 DEF Halts
    <3>3. /\ H \in Seq(Steps) /\ Len(H) = n + 1
          /\ \A k \in 1..n + 1 : H[k] = IF k <= n THEN V[k] ELSE <<Snapshot>>[k - n]
      BY <1>5, <1>6, <3>2, ConcatProperties
    <3>4. \A k \in 1..n : k \in 1..n + 1 /\ k <= n
      BY <1>1
    <3>5. n + 1 \in 1..n + 1 /\ ~(n + 1 <= n) /\ n + 1 - n = 1
      BY <1>1
    <3>6. H[n + 1] = Snapshot
      BY <3>3, <3>5
    <3> QED BY <1>6, <3>1, <3>3, <3>4, <3>6
  <2> QED BY <2>1, <2>2
<1>8. \A k \in 1..Len(H) : \/ k \in 1..n
                           \/ k = Len(H) /\ H[k].op = "SNAPSHOT"
  BY <1>1, <1>7
<1>9. \A k \in 1..n : /\ k \in 1..Len(H) /\ H[Len(H)].op = "SNAPSHOT"
                      /\ H[k].op = "EVENT" /\ H[k].intent = order[k]
                      /\ EventSound(r, H[k]) /\ Secured(H[k].becomes)
  BY <1>1, <1>4, <1>7
<1>10. StepsSound(r, H)
  <2>1. ASSUME NEW k \in 1..Len(H), H[k].op = "EVENT" PROVE k \in 1..n
    BY <1>8, <2>1
  <2>2. ASSUME NEW k \in 1..Len(H), H[k].op = "SNAPSHOT" PROVE k = Len(H)
    BY <1>8, <1>9, <2>2
  <2> QED BY <1>1, <1>9, <2>1, <2>2 DEF StepsSound, IsEvent
<1>11. PromiseSound(r, H, "HALTED", Known(r))
  <2> SUFFICES ASSUME NEW i \in Intent, book[r][i].status # Absent, Executable(book[r][i])
               PROVE  \E k \in 1..Len(H) : IsEvent(H, k, i) /\ Secured(H[k].becomes)
    BY DEF PromiseSound, Known, Secured
  <2>1. PICK k \in 1..n : order[k] = i
    BY <1>1
  <2> QED BY <1>9, <2>1 DEF IsEvent
<1> QED BY <1>7, <1>10, <1>11

\* Storing the policy first makes no difference to the rest of a handler.
LEMMA PolicyFirst ==
  ASSUME NEW r \in Replica, NEW S \in Seq(Steps), StepsSound(r, S), NEW p, NEW a, PromiseSound(r, S, p, a)
  PROVE  /\ <<Policy>> \o S \in Seq(Steps) /\ StepsSound(r, <<Policy>> \o S)
         /\ PromiseSound(r, <<Policy>> \o S, p, a)
<1> SUFFICES ASSUME NEW T, T = <<Policy>> \o S
             PROVE  T \in Seq(Steps) /\ StepsSound(r, T) /\ PromiseSound(r, T, p, a)
  OBVIOUS
<1>1. Policy \in Steps /\ Policy.op = "POLICY" /\ <<Policy>> \in Seq(Steps) /\ Len(<<Policy>>) = 1
  BY DEF Policy, Steps
<1>2. /\ T \in Seq(Steps) /\ Len(T) = 1 + Len(S) /\ Len(S) \in Nat
      /\ \A k \in 1..1 + Len(S) : T[k] = IF k <= 1 THEN <<Policy>>[k] ELSE S[k - 1]
  BY <1>1, ConcatProperties, LenProperties
<1>3. T[1] = Policy
  <2>1. 1 \in 1..1 + Len(S) /\ 1 <= 1
    BY <1>2
  <2> QED BY <1>2, <2>1
<1>4. ASSUME NEW k \in 1..Len(S) PROVE k + 1 \in 1..Len(T) /\ T[k + 1] = S[k]
  <2>1. k + 1 \in 1..1 + Len(S) /\ ~(k + 1 <= 1) /\ k + 1 - 1 = k
    BY <1>2
  <2> QED BY <1>2, <2>1
<1>5. ASSUME NEW k \in 1..Len(T) PROVE k = 1 \/ (k - 1 \in 1..Len(S) /\ T[k] = S[k - 1])
  <2>1. k = 1 \/ (k - 1 \in 1..Len(S) /\ k \in 1..1 + Len(S) /\ ~(k <= 1))
    BY <1>2
  <2> QED BY <1>2, <2>1
<1>6. Len(S) >= 1 => T[Len(T)] = S[Len(S)]
  <2>1. CASE Len(S) >= 1
    <3>1. Len(S) \in 1..Len(S) /\ Len(T) = Len(S) + 1
      BY <1>2, <2>1
    <3> QED BY <1>4, <3>1
  <2> QED BY <2>1
<1>7. ASSUME NEW k \in 1..Len(T), T[k].op \in {"EVENT", "SNAPSHOT"}
      PROVE  k - 1 \in 1..Len(S) /\ T[k] = S[k - 1] /\ T[Len(T)] = S[Len(S)] /\ k \in Int
  <2>1. k # 1
    BY <1>1, <1>3, <1>7
  <2>2. k - 1 \in 1..Len(S) /\ T[k] = S[k - 1]
    BY <1>5, <2>1
  <2>3. Len(S) >= 1 /\ k \in Int
    BY <1>2, <2>2
  <2> QED BY <1>6, <2>2, <2>3
<1>8. ASSUME NEW k \in 1..Len(T), T[k].op = "EVENT"
      PROVE  EventSound(r, T[k]) /\ T[Len(T)].op = "SNAPSHOT"
  BY <1>7, <1>8 DEF StepsSound
<1>9. ASSUME NEW k \in 1..Len(T), NEW l \in 1..Len(T), T[k].op = "EVENT", IsEvent(T, l, T[k].intent)
      PROVE  k = l
  <2>1. /\ k - 1 \in 1..Len(S) /\ T[k] = S[k - 1] /\ k \in Int
        /\ l - 1 \in 1..Len(S) /\ T[l] = S[l - 1] /\ l \in Int
    BY <1>7, <1>9 DEF IsEvent
  <2>2. k - 1 = l - 1
    BY <1>9, <2>1 DEF StepsSound, IsEvent
  <2> QED BY <2>1, <2>2
<1>10. ASSUME NEW k \in 1..Len(T), T[k].op = "SNAPSHOT" PROVE k = Len(T)
  <2>1. k - 1 \in 1..Len(S) /\ T[k] = S[k - 1] /\ k \in Int
    BY <1>7, <1>10
  <2>2. k - 1 = Len(S)
    BY <1>10, <2>1 DEF StepsSound
  <2> QED BY <1>2, <2>1, <2>2
<1>11. ASSUME NEW i, NEW k \in 1..Len(S), IsEvent(S, k, i)
       PROVE  k + 1 \in 1..Len(T) /\ IsEvent(T, k + 1, i) /\ T[k + 1] = S[k]
  BY <1>4, <1>11 DEF IsEvent
<1>12. PromiseSound(r, T, p, a)
  BY <1>11 DEF PromiseSound
<1> QED BY <1>2, <1>8, <1>9, <1>10, <1>12 DEF StepsSound

\* A rejection revokes before it is answered, or finds the claim revoked.
LEMMA RejectKeeps ==
  ASSUME DurabilityInv, NEW r \in Replica, NEW i \in Intent, Reject(r, i)
  PROVE  DurabilityInv'
<1> SUFFICES ASSUME NEW old, old = book[r][i] PROVE DurabilityInv'
  OBVIOUS
<1>1. old \in Record /\ policy' \in [Replica -> Modes] /\ {i} \in SUBSET Intent /\ "HALTED" \in Promise
  BY DEF Reject, DurabilityInv, DurabilityTypeOK, Promise
<1>2. CASE old.status = "CLAIMED" /\ old.revoked
  <2>1. Begin(r, <<>>, "HALTED", {i})
    BY <1>2 DEF Reject
  <2>2. Secured(old)
    BY <1>2 DEF Secured, Executable, Absent
  <2>3. <<>> \in Seq(Steps) /\ \A k \in 1..Len(<<>>) : FALSE
    OBVIOUS
  <2>4. StepsSound(r, <<>>) /\ PromiseSound(r, <<>>, "HALTED", {i})
    BY <2>2, <2>3 DEF StepsSound, PromiseSound
  <2> QED BY <1>1, <2>1, <2>3, <2>4, BeginKeeps
<1>3. ASSUME NEW e \in Steps, e.op = "EVENT", e.intent = i, EventSound(r, e), Secured(e.becomes),
             Begin(r, Saved(e), "HALTED", {i})
      PROVE  DurabilityInv'
  <2>1. Saved(e) \in Seq(Steps) /\ StepsSound(r, Saved(e)) /\ 1 \in 1..Len(Saved(e)) /\ Saved(e)[1] = e
    BY <1>3, SavedSound
  <2>2. PromiseSound(r, Saved(e), "HALTED", {i})
    BY <1>3, <2>1 DEF PromiseSound, IsEvent
  <2> QED BY <1>1, <1>3, <2>1, <2>2, BeginKeeps
<1>4. CASE old.status = "READY"
  <2> SUFFICES ASSUME NEW rec, rec = [old EXCEPT !.status = "REJECTED"], NEW e, e = Event(i, rec)
               PROVE  DurabilityInv'
    OBVIOUS
  <2>1. rec \in Record /\ rec.status = "REJECTED"
    BY <1>1 DEF Record, Status, Terminal
  <2>2. e \in Steps /\ e.op = "EVENT" /\ e.intent = i /\ e.becomes = rec
    <3>1. e = Event(i, rec)
      OBVIOUS
    <3> QED BY ONLY <2>1, <3>1, i \in Intent, EventFields
  <2>3. Secured(rec)
    BY <2>1 DEF Secured, Executable, Absent
  <2>4. EventSound(r, e)
    BY <1>4, <2>1, <2>2, <2>3 DEF EventSound, Filled
  <2>5. Begin(r, Saved(e), "HALTED", {i})
    BY <1>4 DEF Reject
  <2> QED BY <1>3, <2>2, <2>3, <2>4, <2>5
<1>5. CASE old.status = "CLAIMED" /\ ~old.revoked
  <2> SUFFICES ASSUME NEW e, e = Event(i, Halted(old)) PROVE DurabilityInv'
    OBVIOUS
  <2>1. Executable(book[r][i])
    BY <1>5 DEF Executable
  <2>2. e \in Steps /\ e.op = "EVENT" /\ e.intent = i /\ EventSound(r, e) /\ Secured(e.becomes)
    BY <2>1, HaltSound
  <2>3. Begin(r, Saved(e), "HALTED", {i})
    BY <1>5 DEF Reject
  <2> QED BY <1>3, <2>2, <2>3
<1> QED BY <1>2, <1>4, <1>5 DEF Reject

\* A switch and a quarantine halt whatever is executable when they begin.
LEMMA HaltAllKeeps ==
  ASSUME DurabilityInv, NEW r \in Replica, Quarantine(r) \/ \E m \in Modes : Switch(r, m)
  PROVE  DurabilityInv'
<1>1. policy' \in [Replica -> Modes] /\ Known(r) \in SUBSET Intent /\ "HALTED" \in Promise
  BY DEF Quarantine, Switch, Known, Promise, DurabilityInv, DurabilityTypeOK
<1>2. CASE \E order \in HaltOrders(r) : Begin(r, Halts(r, order), "HALTED", Known(r))
  BY <1>1, <1>2, HaltsSound, BeginKeeps
<1>3. CASE \E order \in HaltOrders(r) : Begin(r, <<Policy>> \o Halts(r, order), "HALTED", Known(r))
  BY <1>1, <1>3, HaltsSound, PolicyFirst, BeginKeeps
<1>4. CASE Begin(r, <<Policy>>, "NONE", {})
  <2>1. <<>> \in Seq(Steps) /\ \A k \in 1..Len(<<>>) : FALSE
    OBVIOUS
  <2>2. StepsSound(r, <<>>) /\ PromiseSound(r, <<>>, "NONE", {})
    BY <2>1 DEF StepsSound, PromiseSound
  <2>3. <<Policy>> \o <<>> = <<Policy>>
    OBVIOUS
  <2>4. <<Policy>> \in Seq(Steps) /\ StepsSound(r, <<Policy>>) /\ PromiseSound(r, <<Policy>>, "NONE", {})
    BY <2>1, <2>2, <2>3, PolicyFirst
  <2>5. ASSUME NEW S \in Seq(Steps), StepsSound(r, S), PromiseSound(r, S, "NONE", {}), Begin(r, S, "NONE", {})
        PROVE  DurabilityInv'
    <3>1. "NONE" \in Promise \cup {"NONE"} /\ {} \in SUBSET Intent
      OBVIOUS
    <3> QED BY <1>1, <2>5, <3>1, BeginKeeps
  <2> QED BY <1>4, <2>4, <2>5
<1> QED BY <1>2, <1>3, <1>4 DEF Quarantine, Switch

-----------------------------------------------------------------------------
(* The theorems for any number of processes.                               *)

\* Before anything ran there is nothing to survive.
LEMMA DurabilityStart == DurabilityInit => DurabilityInv
<1> SUFFICES ASSUME DurabilityInit PROVE DurabilityInv
  OBVIOUS
<1>1. DurabilityTypeOK
  BY MissingType, DurabilityAssumption DEF DurabilityInit, DurabilityTypeOK, Modes
<1>2. JobInv
  <2>1. \A r \in Replica : job[r] = Idle
    BY DEF DurabilityInit
  <2>2. job \in [Replica -> Jobs]
    BY NothingOwed DEF DurabilityInit
  <2> QED BY <2>1, <2>2, NothingOwed DEF JobInv
<1>3. EntryInv
  BY DEF DurabilityInit, EntryInv, Missing, Absent, Filled
<1>4. AcknowledgedFillIsJournaled
  BY DEF DurabilityInit, AcknowledgedFillIsJournaled, Promise
<1> QED BY <1>1, <1>2, <1>3, <1>4 DEF DurabilityInv

\* Nothing moves when no variable does.
LEMMA DurabilityStutters == DurabilityInv /\ UNCHANGED vars => DurabilityInv'
<1> SUFFICES ASSUME DurabilityInv, UNCHANGED vars PROVE DurabilityInv'
  OBVIOUS
<1>1. UNCHANGED <<up, policy, book, job, storedPolicy, stored, log, failures, promised>>
  BY DEF vars, durable
<1>2. DurabilityTypeOK' /\ EntryInv' /\ AcknowledgedFillIsJournaled'
  BY <1>1 DEF DurabilityInv, DurabilityTypeOK, EntryInv, AcknowledgedFillIsJournaled
<1>3. JobInv'
  BY <1>1 DEF DurabilityInv, JobInv, StepsSound, PromiseSound, EventSound, IsEvent
<1> QED BY <1>2, <1>3 DEF DurabilityInv

\* A handler that begins, whichever it is.
LEMMA HandlerKeeps ==
  ASSUME DurabilityInv, NEW r \in Replica, Handler(r)
  PROVE  DurabilityInv'
BY CreateKeeps, ClaimKeeps, RejectKeeps, ReceiveKeeps, HaltAllKeeps DEF Handler

\* The writes that are owed, the journal and the memories fit together through
\* every interleaving of handlers, writes, failures, crashes and starts.
THEOREM DurabilityInvariant == DurabilitySpec => []DurabilityInv
<1>1. DurabilityInv /\ [DurabilityNext]_vars => DurabilityInv'
  <2> SUFFICES ASSUME DurabilityInv, [DurabilityNext]_vars PROVE DurabilityInv'
    OBVIOUS
  <2>1. CASE DurabilityNext
    <3> PICK r \in Replica : Handler(r) \/ Write(r) \/ Answer(r) \/ WriteRaises(r) \/ Crash(r) \/ Boot(r)
      BY <2>1 DEF DurabilityNext
    <3> QED BY HandlerKeeps, WriteKeeps, AnswerKeeps, WriteRaisesKeeps, CrashKeeps, BootKeeps
  <2>2. CASE UNCHANGED vars
    BY <2>2, DurabilityStutters
  <2> QED BY <2>1, <2>2
<1> QED BY <1>1, DurabilityStart, PTL DEF DurabilitySpec

\* Memory, store and journal keep their types.
THEOREM DurabilityTypeCorrect == DurabilitySpec => []DurabilityTypeOK
<1>1. DurabilityInv => DurabilityTypeOK
  BY DEF DurabilityInv
<1> QED BY <1>1, DurabilityInvariant, PTL

\* Whatever write fails and whichever process dies, an acknowledged fill is in
\* the immutable rows.
THEOREM AcknowledgedFillStays == DurabilitySpec => []AcknowledgedFillIsJournaled
<1>1. DurabilityInv => AcknowledgedFillIsJournaled
  BY DEF DurabilityInv
<1> QED BY <1>1, DurabilityInvariant, PTL

\* While no write has failed, no process and no snapshot holds a position whose
\* entry is missing from the rows, however many processes write.
THEOREM JournalCovers == DurabilitySpec => []JournalCoversStatus
<1>1. DurabilityInv => JournalCoversStatus
  BY DEF DurabilityInv, EntryInv, JournalCoversStatus, Filled, Running
<1> QED BY <1>1, DurabilityInvariant, PTL

\* A position can always be closed, also after restarts.
THEOREM PositionsHaveEntries == DurabilitySpec => []OpenPositionHasEntry
<1>1. DurabilityInv => OpenPositionHasEntry
  BY DEF DurabilityInv, EntryInv, OpenPositionHasEntry, Running
<1> QED BY <1>1, DurabilityInvariant, PTL

-----------------------------------------------------------------------------
(* One process at a time.                                                  *)

\* Records that are alike are filled and secured alike.
LEMMA AlikeMeans ==
  ASSUME NEW a, NEW b, Alike(a, b)
  PROVE  (a.status \in Filled <=> b.status \in Filled) /\ (Secured(a) <=> Secured(b))
BY DEF Alike, Filled, Secured, Executable, Absent

\* A handler that begins changes neither memory nor store, and starts from a
\* snapshot like its memory.
LEMMA HandlerSurvives ==
  ASSUME DurabilityInv, SurvivalInv, \A q, r \in Replica : q = r, NEW r \in Replica, Handler(r)
  PROVE  SurvivalInv'
<1>1. \E S, p, a : Begin(r, S, p, a)
  BY DEF Handler, Create, Claim, Reject, Receive, Switch, Quarantine
<1>2. UNCHANGED <<up, book, stored, failures, promised>> /\ job[r] = Idle /\ up[r]
  BY <1>1 DEF Begin, durable
<1>3. ~SnapshotOwed(r)
  <2>1. job[r].steps = <<>> /\ \A k \in 1..Len(<<>>) : FALSE
    BY <1>2 DEF Idle
  <2> QED BY <2>1 DEF SnapshotOwed
<1> QED BY <1>2, <1>3 DEF SurvivalInv

\* A write leaves the snapshot like the memory, or still owes it.
LEMMA WriteSurvives ==
  ASSUME DurabilityInv, SurvivalInv, \A q, r \in Replica : q = r, NEW r \in Replica, Write(r)
  PROVE  SurvivalInv'
<1> SUFFICES ASSUME NEW S, S = job[r].steps, NEW s, s = Head(S), NEW T, T = Tail(S), failures = 0, NEW i \in Intent
             PROVE  /\ up[r] => Alike(stored'[i], book'[r][i]) \/ SnapshotOwed(r)'
                    /\ i \in promised["ENTERED"] => stored'[i].status \in Filled /\ (up[r] => book'[r][i].status \in Filled)
                    /\ i \in promised["HALTED"] => Secured(stored'[i]) /\ (up[r] => Secured(book'[r][i]))
  <2>1. UNCHANGED <<up, failures, promised>>
    BY DEF Write
  <2> QED BY <2>1 DEF SurvivalInv
<1>1. /\ S \in Seq(Steps) /\ S # <<>> /\ StepsSound(r, S) /\ Remember(r) /\ Store(r)
      /\ job' = [job EXCEPT ![r].steps = Tail(@)] /\ job[r] \in Jobs
  BY JobTypes DEF Write
<1>2. /\ s.op = "EVENT" => s.intent \in Intent
      /\ \A j \in Intent : book'[r][j] = IF s.op = "EVENT" /\ s.intent = j THEN s.becomes ELSE book[r][j]
  BY <1>1, MemoryMoves
<1>3. /\ stored' = stored \/ (s.op = "SNAPSHOT" /\ stored' = book[r])
      /\ s.op = "SNAPSHOT" => stored' = book[r]
  BY <1>1, StoreMoves
<1>4. /\ s = S[1] /\ Len(S) \in Nat /\ Len(S) >= 1
      /\ \A k \in 1..Len(S) : k = 1 \/ (k - 1 \in 1..Len(T) /\ T[k - 1] = S[k])
  BY <1>1, AfterFirst
<1>5. job'[r].steps = T
  BY <1>1 DEF DurabilityInv, JobInv, Jobs
<1>6. up[r]
  BY <1>1, NothingOwed DEF DurabilityInv, JobInv
<1>7. /\ Alike(stored[i], book[r][i]) \/ SnapshotOwed(r)
      /\ i \in promised["ENTERED"] => stored[i].status \in Filled /\ book[r][i].status \in Filled
      /\ i \in promised["HALTED"] => Secured(stored[i]) /\ Secured(book[r][i])
  BY <1>6 DEF SurvivalInv
<1>8. /\ s.op = "EVENT" => EventSound(r, s) /\ S[Len(S)].op = "SNAPSHOT"
  <2>1. 1 \in 1..Len(S)
    BY <1>4
  <2> QED BY <1>1, <1>4, <2>1 DEF StepsSound
<1>9. /\ i \in promised["ENTERED"] => stored'[i].status \in Filled /\ book'[r][i].status \in Filled
      /\ i \in promised["HALTED"] => Secured(stored'[i]) /\ Secured(book'[r][i])
  BY <1>2, <1>3, <1>7, <1>8 DEF EventSound
<1>10. ASSUME NEW k \in 1..Len(S), S[k].op = "SNAPSHOT", k # 1 PROVE SnapshotOwed(r)'
  <2>1. k - 1 \in 1..Len(T) /\ T[k - 1].op = "SNAPSHOT"
    BY <1>4, <1>10
  <2>2. \E n \in 1..Len(T) : T[n].op = "SNAPSHOT"
    BY <2>1
  <2> QED BY <2>2, <1>5 DEF SnapshotOwed
<1>11. CASE s.op = "EVENT"
  <2>1. Len(S) \in 1..Len(S) /\ S[Len(S)].op = "SNAPSHOT" /\ Len(S) # 1
    BY <1>4, <1>8, <1>11
  <2> QED BY <1>9, <1>10, <2>1
<1>12. CASE s.op = "SNAPSHOT"
  <2>1. book'[r][i] = book[r][i] /\ stored'[i] = book[r][i]
    BY <1>2, <1>3, <1>12
  <2> QED BY <1>9, <2>1 DEF Alike
<1>13. CASE s.op \notin {"EVENT", "SNAPSHOT"}
  <2>1. book'[r][i] = book[r][i] /\ stored'[i] = stored[i]
    BY <1>2, <1>3, <1>13
  <2>2. ASSUME NEW k \in 1..Len(S), S[k].op = "SNAPSHOT" PROVE k # 1
    BY <1>4, <1>13, <2>2
  <2>3. Alike(stored[i], book[r][i]) \/ SnapshotOwed(r)'
    BY <1>7, <1>10, <2>2 DEF SnapshotOwed
  <2> QED BY <1>9, <2>1, <2>3
<1> QED BY <1>11, <1>12, <1>13

\* When the answer is given no snapshot is owed, so the store has it as well.
LEMMA AnswerSurvives ==
  ASSUME DurabilityInv, SurvivalInv, \A q, r \in Replica : q = r, NEW r \in Replica, Answer(r)
  PROVE  SurvivalInv'
<1> SUFFICES ASSUME failures = 0, NEW i \in Intent
             PROVE  /\ Alike(stored[i], book[r][i])
                    /\ i \in promised'["ENTERED"] => stored[i].status \in Filled /\ book[r][i].status \in Filled
                    /\ i \in promised'["HALTED"] => Secured(stored[i]) /\ Secured(book[r][i])
  <2>1. UNCHANGED <<up, book, stored, failures>>
    BY DEF Answer, durable
  <2> QED BY <2>1 DEF SurvivalInv
<1>1. /\ job[r] # Idle /\ job[r].steps = <<>>
      /\ promised' = [p \in Promise |-> promised[p] \cup (IF p = job[r].promise THEN job[r].about ELSE {})]
  BY DEF Answer
<1>2. up[r] /\ \A k \in 1..Len(<<>>) : FALSE
  BY <1>1 DEF DurabilityInv, JobInv
<1>3. Alike(stored[i], book[r][i])
  BY <1>1, <1>2 DEF SurvivalInv, SnapshotOwed
<1>4. /\ i \in promised["ENTERED"] => book[r][i].status \in Filled
      /\ i \in promised["HALTED"] => Secured(book[r][i])
  BY <1>2 DEF SurvivalInv
<1>5. PromiseSound(r, <<>>, job[r].promise, job[r].about)
  BY <1>1, JobTypes
<1>6. ASSUME i \in promised'["ENTERED"] PROVE book[r][i].status \in Filled
  <2>1. i \in promised["ENTERED"] \/ (job[r].promise = "ENTERED" /\ i \in job[r].about)
    BY <1>1, <1>6 DEF Promise
  <2> QED BY <1>2, <1>4, <1>5, <2>1 DEF PromiseSound
<1>7. ASSUME i \in promised'["HALTED"] PROVE Secured(book[r][i])
  <2>1. i \in promised["HALTED"] \/ (job[r].promise = "HALTED" /\ i \in job[r].about)
    BY <1>1, <1>7 DEF Promise
  <2> QED BY <1>2, <1>4, <1>5, <2>1 DEF PromiseSound
<1> QED BY <1>3, <1>6, <1>7, AlikeMeans

\* A process that starts holds the authority of the snapshot and no other.
LEMMA BootSurvives ==
  ASSUME DurabilityInv, SurvivalInv, \A q, r \in Replica : q = r, NEW r \in Replica, Boot(r)
  PROVE  SurvivalInv'
<1> SUFFICES ASSUME failures = 0, NEW i \in Intent
             PROVE  /\ Alike(stored[i], book'[r][i])
                    /\ i \in promised["ENTERED"] => stored[i].status \in Filled /\ book'[r][i].status \in Filled
                    /\ i \in promised["HALTED"] => Secured(stored[i]) /\ Secured(book'[r][i])
  <2>1. UNCHANGED <<stored, failures, promised>>
    BY DEF Boot, durable
  <2> QED BY <2>1 DEF SurvivalInv
<1>1. book'[r][i] = Loaded(i)
  BY DEF Boot, Loaded, DurabilityInv, DurabilityTypeOK
<1>2. Alike(stored[i], Loaded(i))
  BY LoadedFields, MissingType DEF Alike, DurabilityInv
<1>3. /\ i \in promised["ENTERED"] => stored[i].status \in Filled
      /\ i \in promised["HALTED"] => Secured(stored[i])
  BY DEF SurvivalInv
<1> QED BY <1>1, <1>2, <1>3, AlikeMeans

\* For one process at a time, and while no write has failed, whatever was
\* answered about a fill or a revocation is so in the process that runs next.
THEOREM AcknowledgedAlwaysSurvives ==
  ASSUME \A q, r \in Replica : q = r
  PROVE  DurabilitySpec => []AcknowledgedSurvives
<1>1. DurabilityInit => SurvivalInv
  BY DEF DurabilityInit, SurvivalInv, Promise
<1>2. DurabilityInv /\ SurvivalInv /\ [DurabilityNext]_vars => SurvivalInv'
  <2> SUFFICES ASSUME DurabilityInv, SurvivalInv, [DurabilityNext]_vars PROVE SurvivalInv'
    OBVIOUS
  <2>1. ASSUME NEW r \in Replica, Crash(r) PROVE SurvivalInv'
    <3>1. UNCHANGED <<stored, failures, promised>> /\ ~up'[r]
      BY <2>1 DEF Crash, durable, DurabilityInv, DurabilityTypeOK
    <3> QED BY <3>1 DEF SurvivalInv
  <2>2. ASSUME NEW r \in Replica, WriteRaises(r) PROVE SurvivalInv'
    <3>1. failures' = failures + 1 /\ failures \in Nat
      BY <2>2, DurabilityAssumption DEF WriteRaises, DurabilityInv, DurabilityTypeOK
    <3>2. failures' # 0
      BY <3>1
    <3> QED BY <3>2 DEF SurvivalInv
  <2>3. CASE DurabilityNext
    <3> PICK r \in Replica : Handler(r) \/ Write(r) \/ Answer(r) \/ WriteRaises(r) \/ Crash(r) \/ Boot(r)
      BY <2>3 DEF DurabilityNext
    <3> QED BY <2>1, <2>2, HandlerSurvives, WriteSurvives, AnswerSurvives, BootSurvives
  <2>4. CASE UNCHANGED vars
    BY <2>4 DEF vars, durable, SurvivalInv, SnapshotOwed
  <2> QED BY <2>3, <2>4
<1>3. DurabilityInv /\ SurvivalInv => AcknowledgedSurvives
  <2> SUFFICES ASSUME DurabilityInv, SurvivalInv, failures = 0, NEW r \in Running
               PROVE  /\ \A i \in promised["ENTERED"] : book[r][i].status \in Filled
                      /\ \A i \in promised["HALTED"] : Secured(book[r][i])
    BY DEF AcknowledgedSurvives, Filled, Secured
  <2>1. promised["ENTERED"] \subseteq Intent /\ promised["HALTED"] \subseteq Intent
    BY DEF DurabilityInv, DurabilityTypeOK, Promise
  <2>2. r \in Replica /\ up[r]
    BY DEF Running
  <2> QED BY <2>1, <2>2 DEF SurvivalInv
<1> QED BY <1>1, <1>2, <1>3, DurabilityInvariant, PTL DEF DurabilitySpec
=============================================================================
