--------------------------- MODULE TerminalProofs ---------------------------
(***************************************************************************)
(* Proofs about the parts of the terminal around the live loop: the        *)
(* delivery of messages, accounts and their streams, budgets, the clock,   *)
(* the levels of a plan and its size.                                      *)
(***************************************************************************)
EXTENDS Accounts, Desk, Delivery, MarketData, Strategies, Composer, SumProofs, SequenceTheorems

-----------------------------------------------------------------------------
(* Delivery: the queue of a subscriber.                                    *)

Stream == [published : Nat, queue : Seq(Nat), seen : Nat, dropped : Nat]

\* A queue holds the newest of the first p events, in their order.
Newest(q, p) == Len(q) <= QueueSize /\ \A i \in 1..Len(q) : q[i] = p - Len(q) + i

\* What is missing before the queue is counted as seen or dropped.
QueueSound(s) ==
  /\ s \in Stream /\ Newest(s.queue, s.published)
  /\ s.seen + s.dropped + Len(s.queue) = s.published

\* The tail of the newest events are the newest events.
LEMMA TailNewest ==
  ASSUME NEW q \in Seq(Nat), q # <<>>, NEW p \in Nat, Newest(q, p)
  PROVE  /\ Newest(Tail(q), p) /\ Tail(q) \in Seq(Nat) /\ Len(Tail(q)) = Len(q) - 1
         /\ Head(q) = p - Len(q) + 1 /\ Head(q) \in Nat /\ Len(q) \in Nat \ {0}
<1>1. Tail(q) \in Seq(Nat) /\ Len(Tail(q)) = Len(q) - 1 /\ Head(q) = q[1] /\ Head(q) \in Nat
      /\ Len(q) \in Nat \ {0}
  BY HeadTailProperties, EmptySeq
<1>2. \A i \in 1..Len(Tail(q)) : Tail(q)[i] = q[i + 1]
  BY HeadTailProperties
<1> SUFFICES ASSUME NEW r \in Seq(Nat), r = Tail(q) PROVE Newest(r, p) /\ Head(q) = p - Len(q) + 1
  BY <1>1
<1>3. Len(r) \in Nat /\ Len(r) = Len(q) - 1 /\ \A i \in 1..Len(r) : r[i] = q[i + 1]
  BY <1>1, <1>2
<1>4. QueueSize \in Nat
  BY QueueHolds
<1> QED BY <1>1, <1>3, <1>4 DEF Newest

\* With room for it, the next event appended to the newest gives the newest.
LEMMA AppendNewest ==
  ASSUME NEW q \in Seq(Nat), NEW p \in Nat, Newest(q, p), Len(q) < QueueSize
  PROVE  /\ Newest(Append(q, p + 1), p + 1) /\ Append(q, p + 1) \in Seq(Nat)
         /\ Len(Append(q, p + 1)) = Len(q) + 1
<1> SUFFICES ASSUME NEW z, z = Append(q, p + 1)
             PROVE  Newest(z, p + 1) /\ z \in Seq(Nat) /\ Len(z) = Len(q) + 1
  OBVIOUS
<1>1. z \in Seq(Nat) /\ Len(z) = Len(q) + 1 /\ z[Len(q) + 1] = p + 1 /\ \A i \in 1..Len(q) : z[i] = q[i]
  BY AppendProperties
<1>2. Len(q) \in Nat /\ QueueSize \in Nat /\ Len(q) < QueueSize /\ p \in Nat
  BY QueueHolds
<1>3. \A i \in 1..Len(q) : q[i] = p - Len(q) + i
  BY DEF Newest
<1>4. ASSUME NEW i \in 1..Len(z) PROVE z[i] = p + 1 - Len(z) + i
  <2>0. i \in 1..Len(z)
    OBVIOUS
  <2>1. CASE i = Len(q) + 1
    BY ONLY <1>1, <1>2, <2>1
  <2>2. CASE i # Len(q) + 1
    <3>1. i \in 1..Len(q)
      BY ONLY <1>1, <1>2, <2>0, <2>2
    <3>2. z[i] = p - Len(q) + i
      BY ONLY <1>1, <1>3, <3>1
    <3> QED BY ONLY <1>1, <1>2, <3>1, <3>2
  <2> QED BY ONLY <2>1, <2>2
<1> QED BY <1>1, <1>2, <1>4 DEF Newest

\* publish_ws keeps a queue sound, whether or not it has to drop an event.
LEMMA PushKeeps ==
  ASSUME NEW s, QueueSound(s)
  PROVE  QueueSound(Pushed(s))
<1>0. s \in Stream
  BY DEF QueueSound
<1> SUFFICES ASSUME NEW q, q = s.queue, NEW p, p = s.published, NEW d, d = s.dropped, NEW a, a = s.seen,
                    NEW t, t = Pushed(s)
             PROVE  QueueSound(t)
  OBVIOUS
<1>1. /\ q \in Seq(Nat) /\ Len(q) \in Nat /\ p \in Nat /\ d \in Nat /\ a \in Nat /\ QueueSize \in Nat \ {0}
      /\ a + d + Len(q) = p /\ Len(q) <= QueueSize /\ Newest(q, p)
  BY QueueHolds DEF QueueSound, Stream, Newest
<1>2. CASE Len(q) = QueueSize
  <2>1. q # <<>>
    BY <1>1, <1>2
  <2>2. /\ Newest(Tail(q), p) /\ Tail(q) \in Seq(Nat) /\ Len(Tail(q)) = Len(q) - 1
    BY <1>1, <2>1, TailNewest
  <2>3. /\ Newest(Append(Tail(q), p + 1), p + 1) /\ Append(Tail(q), p + 1) \in Seq(Nat)
        /\ Len(Append(Tail(q), p + 1)) = Len(q)
    <3>1. Len(Tail(q)) < QueueSize
      BY <1>1, <1>2, <2>2
    <3>2. Len(Tail(q)) + 1 = Len(q)
      BY <1>1, <2>2
    <3> HIDE DEF Newest
    <3> QED BY ONLY <1>1, <2>2, <3>1, <3>2, AppendNewest
  <2>4. t = [s EXCEPT !.published = p + 1, !.queue = Append(Tail(@), p + 1), !.dropped = @ + 1]
    BY <1>2 DEF Pushed
  <2>5. t = [s EXCEPT !.published = p + 1, !.queue = Append(Tail(q), p + 1), !.dropped = d + 1]
    BY <1>0, <1>1, <2>4 DEF Stream
  <2>6. ASSUME NEW z \in Seq(Nat), NEW n \in Nat, NEW e \in Nat,
               t = [s EXCEPT !.published = n, !.queue = z, !.dropped = e]
        PROVE  t \in Stream /\ t.published = n /\ t.queue = z /\ t.dropped = e /\ t.seen = a
    BY <1>0, <2>6 DEF Stream
  <2>7. /\ t \in Stream /\ t.published = p + 1 /\ t.queue = Append(Tail(q), p + 1)
        /\ t.dropped = d + 1 /\ t.seen = a
    <3>1. p + 1 \in Nat /\ d + 1 \in Nat
      BY <1>1
    <3> QED BY ONLY <2>3, <2>5, <2>6, <3>1
  <2> QED BY ONLY <1>1, <2>3, <2>7 DEF QueueSound
<1>3. CASE Len(q) # QueueSize
  <2>1. t = [s EXCEPT !.published = p + 1, !.queue = Append(@, p + 1)]
    BY <1>3 DEF Pushed
  <2>2. t = [s EXCEPT !.published = p + 1, !.queue = Append(q, p + 1)]
    BY <1>0, <1>1, <2>1 DEF Stream
  <2>3. /\ Newest(Append(q, p + 1), p + 1) /\ Append(q, p + 1) \in Seq(Nat)
        /\ Len(Append(q, p + 1)) = Len(q) + 1
    BY ONLY <1>1, <1>3, AppendNewest
  <2>4. ASSUME NEW z \in Seq(Nat), NEW n \in Nat, t = [s EXCEPT !.published = n, !.queue = z]
        PROVE  t \in Stream /\ t.published = n /\ t.queue = z /\ t.dropped = d /\ t.seen = a
    BY <1>0, <2>4 DEF Stream
  <2>5. /\ t \in Stream /\ t.published = p + 1 /\ t.queue = Append(q, p + 1)
        /\ t.dropped = d /\ t.seen = a
    <3>1. p + 1 \in Nat
      BY <1>1
    <3> QED BY ONLY <2>2, <2>3, <2>4, <3>1
  <2> QED BY ONLY <1>1, <2>3, <2>5 DEF QueueSound
<1> QED BY <1>2, <1>3

\* Handing out the oldest event keeps a queue sound.
LEMMA TakeKeeps ==
  ASSUME NEW s, QueueSound(s), s.queue # <<>>
  PROVE  QueueSound([s EXCEPT !.seen = Head(s.queue), !.queue = Tail(@), !.dropped = 0])
<1>0. s \in Stream
  BY DEF QueueSound
<1> SUFFICES ASSUME NEW q, q = s.queue, NEW p, p = s.published, NEW h, h = Head(q), NEW r, r = Tail(q),
                    NEW t, t = [s EXCEPT !.seen = Head(s.queue), !.queue = Tail(@), !.dropped = 0]
             PROVE  QueueSound(t)
  OBVIOUS
<1>1. q \in Seq(Nat) /\ p \in Nat /\ q # <<>> /\ Newest(q, p)
  BY DEF QueueSound, Stream
<1>2. /\ Newest(r, p) /\ r \in Seq(Nat) /\ Len(r) = Len(q) - 1
      /\ h = p - Len(q) + 1 /\ h \in Nat /\ Len(q) \in Nat \ {0}
  BY <1>1, TailNewest
<1>3. t = [s EXCEPT !.seen = h, !.queue = r, !.dropped = 0]
  BY <1>0 DEF Stream
<1>4. t \in Stream /\ t.queue = r /\ t.published = p /\ t.seen = h /\ t.dropped = 0
  <2>1. s.published = p
    OBVIOUS
  <2> QED BY ONLY <1>0, <1>2, <1>3, <2>1 DEF Stream
<1>5. \A n \in Nat : (p - n + 1) + 0 + (n - 1) = p
  BY ONLY <1>1
<1>6. t.seen + t.dropped + Len(t.queue) = t.published
  BY ONLY <1>2, <1>4, <1>5
<1>7. Newest(t.queue, t.published)
  BY ONLY <1>2, <1>4
<1> QED BY ONLY <1>4, <1>6, <1>7 DEF QueueSound

-----------------------------------------------------------------------------
(* Delivery: the log of the shared store.                                  *)

Stage == {Free} \cup [step : {"claim", "send", "publish"}, message : Message]

Sending(g, m) == stage[g].step = "send" /\ stage[g].message = m

\* Whoever sends a message has claimed it and nobody else has, and nothing has
\* been sent yet; a message nobody claimed has not been sent.
ClaimIsExclusive(m) ==
  /\ m \notin deliveries => sent[m] = 0
  /\ sent[m] <= 1
  /\ \A g \in Gateway : Sending(g, m) => m \in deliveries /\ sent[m] = 0
  /\ \A g, h \in Gateway : Sending(g, m) /\ Sending(h, m) => g = h

DeliveryInv ==
  /\ rows \subseteq News /\ deliveries \subseteq Message /\ unsure \subseteq Message
  /\ stage \in [Gateway -> Stage]
  /\ sent \in [Message -> Nat]
  /\ stream \in [Gateway -> Stream]
  /\ \A g \in Gateway : QueueSound(stream[g])
  /\ \A m \in Message \ unsure : ClaimIsExclusive(m)

\* A new subscriber has missed nothing.
LEMMA NewStream == QueueSound(NoStream)
<1>1. NoStream \in Stream
  BY DEF NoStream, Stream
<1>2. Len(<<>>) = 0 /\ <<>> \in Seq(Nat)
  OBVIOUS
<1>3. Newest(<<>>, 0)
  BY <1>2, QueueHolds DEF Newest
<1> QED BY <1>1, <1>2, <1>3 DEF NoStream, QueueSound

\* In the beginning nothing is claimed, sent or published.
LEMMA DeliveryStart == DeliveryInit => DeliveryInv
<1> SUFFICES ASSUME DeliveryInit PROVE DeliveryInv
  OBVIOUS
<1>1. stage \in [Gateway -> Stage] /\ sent \in [Message -> Nat]
  BY DEF DeliveryInit, Stage
<1>2. ASSUME NEW g \in Gateway PROVE stream[g] \in Stream /\ QueueSound(stream[g])
  <2>1. stream[g] = NoStream
    BY DEF DeliveryInit
  <2> QED BY <2>1, NewStream DEF QueueSound
<1>3. stream \in [Gateway -> Stream]
  BY <1>2 DEF DeliveryInit
<1>4. \A m \in Message : ClaimIsExclusive(m)
  BY DEF DeliveryInit, ClaimIsExclusive, Sending, Free
<1> QED BY <1>1, <1>2, <1>3, <1>4 DEF DeliveryInit, DeliveryInv

\* A step that leaves the log, the counts and everybody's sending alone, or
\* only ends somebody's, keeps every claim exclusive.
LEMMA ClaimFrame ==
  ASSUME NEW m, ClaimIsExclusive(m), deliveries' = deliveries, sent' = sent,
         \A g \in Gateway : Sending(g, m)' => Sending(g, m)
  PROVE  ClaimIsExclusive(m)'
BY DEF ClaimIsExclusive

\* Preparing a message claims nothing.
LEMMA PrepareKeeps ==
  ASSUME DeliveryInv, NEW g \in Gateway, NEW m \in Message, Prepare(g, m)
  PROVE  DeliveryInv'
<1>1. stage' \in [Gateway -> Stage]
  BY DEF DeliveryInv, Prepare, Stage
<1>2. \A n \in Message, h \in Gateway : Sending(h, n)' => Sending(h, n)
  BY DEF DeliveryInv, Prepare, Sending
<1>3. \A n \in Message \ unsure' : ClaimIsExclusive(n)'
  BY <1>2, ClaimFrame DEF DeliveryInv, Prepare
<1> QED BY <1>1, <1>3 DEF DeliveryInv, Prepare

\* What a process in the middle of a message is doing.
LEMMA StageFields ==
  ASSUME DeliveryInv, NEW g \in Gateway, stage[g].step \in {"claim", "send", "publish"}
  PROVE  stage[g] \in [step : {"claim", "send", "publish"}, message : Message]
BY DEF DeliveryInv, Stage, Free

\* A process that goes on with its message changes its own stage only.
LEMMA StageMoves ==
  ASSUME DeliveryInv, NEW g \in Gateway, stage[g].step \in {"claim", "send", "publish"},
         NEW x \in {"claim", "send", "publish"}, stage' = [stage EXCEPT ![g].step = x]
  PROVE  /\ stage' \in [Gateway -> Stage]
         /\ stage'[g].step = x /\ stage'[g].message = stage[g].message
         /\ \A h \in Gateway \ {g} : stage'[h] = stage[h]
<1>1. stage[g] \in [step : {"claim", "send", "publish"}, message : Message]
  BY StageFields
<1>2. stage'[g] = [stage[g] EXCEPT !.step = x] /\ \A h \in Gateway \ {g} : stage'[h] = stage[h]
  BY DEF DeliveryInv
<1>3. stage'[g] \in [step : {"claim", "send", "publish"}, message : Message]
      /\ stage'[g].step = x /\ stage'[g].message = stage[g].message
  BY <1>1, <1>2
<1> QED BY <1>2, <1>3 DEF DeliveryInv, Stage

\* Only the first claim wins, and it finds nothing sent.
LEMMA ClaimSendKeeps ==
  ASSUME DeliveryInv, NEW g \in Gateway, ClaimSend(g)
  PROVE  DeliveryInv'
<1> SUFFICES ASSUME NEW m, m = stage[g].message PROVE DeliveryInv'
  OBVIOUS
<1>1. stage[g].step = "claim" /\ m \in Message
  BY StageFields DEF ClaimSend
<1>2. PICK x \in {"send", "publish"} : stage' = [stage EXCEPT ![g].step = x]
  BY DEF ClaimSend
<1>3. /\ stage' \in [Gateway -> Stage]
      /\ stage'[g].step = x /\ stage'[g].message = m
      /\ \A h \in Gateway \ {g} : stage'[h] = stage[h]
  BY <1>1, <1>2, StageMoves
<1>4. deliveries' \subseteq Message /\ unsure' \subseteq Message /\ unsure \subseteq unsure'
  BY <1>1 DEF ClaimSend, DeliveryInv
<1>5. rows' = rows /\ sent' = sent /\ stream' = stream
  BY DEF ClaimSend
<1>6. ASSUME NEW n \in Message \ unsure', n # m PROVE ClaimIsExclusive(n)'
  <2>1. \A h \in Gateway : Sending(h, n)' => Sending(h, n)
    BY <1>3, <1>6 DEF Sending
  <2>2. (n \in deliveries' <=> n \in deliveries) /\ ClaimIsExclusive(n)
    BY <1>4, <1>6 DEF ClaimSend, DeliveryInv
  <2> QED BY <1>5, <2>1, <2>2 DEF ClaimIsExclusive
<1>7. ASSUME m \notin unsure' PROVE ClaimIsExclusive(m)'
  <2>1. deliveries' = deliveries \cup {m} /\ stage' = [stage EXCEPT ![g].step = IF Wins(m) THEN "send" ELSE "publish"]
    BY <1>7 DEF ClaimSend
  <2>2. ClaimIsExclusive(m)
    BY <1>1, <1>4, <1>7 DEF DeliveryInv
  <2>3. CASE m \in deliveries
    <3>1. stage'[g].step = "publish"
      BY <1>1, <2>1, <2>3, StageMoves DEF Wins
    <3>2. \A h \in Gateway : Sending(h, m)' => Sending(h, m)
      BY <1>3, <3>1 DEF Sending
    <3> QED BY <1>5, <2>1, <2>2, <2>3, <3>2 DEF ClaimIsExclusive
  <2>4. CASE m \notin deliveries
    <3>1. sent[m] = 0 /\ \A h \in Gateway : ~Sending(h, m)
      BY <2>2, <2>4 DEF ClaimIsExclusive
    <3>2. \A h \in Gateway : Sending(h, m)' => h = g
      BY <1>3, <3>1 DEF Sending
    <3> QED BY <1>5, <2>1, <3>1, <3>2 DEF ClaimIsExclusive
  <2> QED BY <2>3, <2>4
<1>8. \A n \in Message \ unsure' : ClaimIsExclusive(n)'
  BY <1>6, <1>7
<1> QED BY <1>3, <1>4, <1>5, <1>8 DEF DeliveryInv

\* Sending uses up the claim, whatever Telegram answers.
LEMMA SendKeeps ==
  ASSUME DeliveryInv, NEW g \in Gateway, Send(g)
  PROVE  DeliveryInv'
<1> SUFFICES ASSUME NEW m, m = stage[g].message PROVE DeliveryInv'
  OBVIOUS
<1>1. stage[g].step = "send" /\ m \in Message
  BY StageFields DEF Send
<1>2. /\ stage' \in [Gateway -> Stage] /\ stage'[g].step # "send"
      /\ \A h \in Gateway \ {g} : stage'[h] = stage[h]
  <2>1. CASE stage' = [stage EXCEPT ![g].step = "publish"]
    BY <1>1, <2>1, StageMoves
  <2>2. CASE stage' = [stage EXCEPT ![g] = Free]
    BY <2>2 DEF DeliveryInv, Stage, Free
  <2> QED BY <2>1, <2>2 DEF Send
<1>3. sent' \in [Message -> Nat] /\ sent'[m] \in {sent[m], sent[m] + 1} /\ \A n \in Message \ {m} : sent'[n] = sent[n]
  BY <1>1 DEF Send, DeliveryInv
<1>4. rows' = rows /\ deliveries' = deliveries /\ unsure' = unsure /\ stream' = stream
  BY DEF Send
<1>5. \A n \in Message, h \in Gateway : Sending(h, n)' => h # g /\ Sending(h, n)
  BY <1>2 DEF Sending
<1>6. ASSUME NEW n \in Message \ unsure', n # m PROVE ClaimIsExclusive(n)'
  BY <1>3, <1>4, <1>5, <1>6 DEF ClaimIsExclusive, DeliveryInv
<1>7. ASSUME m \notin unsure' PROVE ClaimIsExclusive(m)'
  <2>1. ClaimIsExclusive(m) /\ Sending(g, m)
    BY <1>1, <1>4, <1>7 DEF DeliveryInv, Sending
  <2>2. m \in deliveries /\ sent[m] = 0 /\ \A h \in Gateway : Sending(h, m) => h = g
    BY <2>1 DEF ClaimIsExclusive
  <2>3. sent'[m] <= 1 /\ \A h \in Gateway : ~Sending(h, m)'
    BY <1>1, <1>3, <1>5, <2>2
  <2> QED BY <1>4, <2>2, <2>3 DEF ClaimIsExclusive
<1>8. \A n \in Message \ unsure' : ClaimIsExclusive(n)'
  BY <1>6, <1>7
<1> QED BY <1>2, <1>3, <1>4, <1>8 DEF DeliveryInv

\* The end of a handler pushes onto its own subscriber's queue.
LEMMA PublishKeeps ==
  ASSUME DeliveryInv, NEW g \in Gateway, Publish(g)
  PROVE  DeliveryInv'
<1>1. /\ stage' \in [Gateway -> Stage] /\ stage'[g] = Free
      /\ \A h \in Gateway \ {g} : stage'[h] = stage[h]
  BY DEF Publish, DeliveryInv, Stage
<1>2. rows' = rows /\ deliveries' = deliveries /\ unsure' = unsure /\ sent' = sent
  BY DEF Publish
<1>3. \A n \in Message, h \in Gateway : Sending(h, n)' => Sending(h, n)
  BY <1>1 DEF Sending, Free
<1>4. \A n \in Message \ unsure' : ClaimIsExclusive(n)'
  BY <1>2, <1>3, ClaimFrame DEF DeliveryInv
<1>5. QueueSound(stream[g]) /\ QueueSound(Pushed(stream[g])) /\ QueueSound(Pushed(Pushed(stream[g])))
  BY PushKeeps DEF DeliveryInv
<1>6. \E t : stream' = [stream EXCEPT ![g] = t] /\ QueueSound(t)
  BY <1>5 DEF Publish, DeliveryInv
<1>7. stream' \in [Gateway -> Stream] /\ \A h \in Gateway : QueueSound(stream'[h])
  BY <1>6 DEF DeliveryInv, QueueSound
<1> QED BY <1>1, <1>2, <1>4, <1>7 DEF DeliveryInv

\* A research alert only pushes.
LEMMA ShadowKeeps ==
  ASSUME DeliveryInv, NEW g \in Gateway, Shadow(g)
  PROVE  DeliveryInv'
<1>1. QueueSound(stream[g]) /\ QueueSound(Pushed(stream[g])) /\ QueueSound(Pushed(Pushed(stream[g])))
  BY PushKeeps DEF DeliveryInv
<1>2. \E t : stream' = [stream EXCEPT ![g] = t] /\ QueueSound(t)
  BY <1>1 DEF Shadow, DeliveryInv
<1>3. stream' \in [Gateway -> Stream] /\ \A h \in Gateway : QueueSound(stream'[h])
  BY <1>2 DEF DeliveryInv, QueueSound
<1>4. \A n \in Message, h \in Gateway : Sending(h, n)' => Sending(h, n)
  BY DEF Shadow, Sending
<1>5. \A n \in Message \ unsure' : ClaimIsExclusive(n)'
  BY <1>4, ClaimFrame DEF DeliveryInv, Shadow
<1> QED BY <1>3, <1>5 DEF DeliveryInv, Shadow

\* A subscriber takes its oldest event.
LEMMA TakeEventKeeps ==
  ASSUME DeliveryInv, NEW g \in Gateway, TakeEvent(g)
  PROVE  DeliveryInv'
<1> DEFINE s == stream[g]
           t == [s EXCEPT !.seen = Head(s.queue), !.queue = Tail(@), !.dropped = 0]
<1>1. QueueSound(t)
  BY TakeKeeps DEF DeliveryInv, TakeEvent
<1>2. stream' = [stream EXCEPT ![g] = t]
  BY DEF TakeEvent, DeliveryInv
<1> HIDE DEF t
<1>3. stream' \in [Gateway -> Stream] /\ \A h \in Gateway : QueueSound(stream'[h])
  BY <1>1, <1>2 DEF DeliveryInv, QueueSound
<1>4. \A n \in Message, h \in Gateway : Sending(h, n)' => Sending(h, n)
  BY DEF TakeEvent, Sending
<1>5. \A n \in Message \ unsure' : ClaimIsExclusive(n)'
  BY <1>4, ClaimFrame DEF DeliveryInv, TakeEvent
<1> QED BY <1>3, <1>5 DEF DeliveryInv, TakeEvent

\* A process that is killed drops its claims for good and starts with a new
\* subscriber.
LEMMA ReplacedKeeps ==
  ASSUME DeliveryInv, NEW g \in Gateway, Replaced(g)
  PROVE  DeliveryInv'
<1>1. /\ stage' \in [Gateway -> Stage] /\ stage'[g] = Free
      /\ \A h \in Gateway \ {g} : stage'[h] = stage[h]
  BY DEF Replaced, DeliveryInv, Stage
<1>2. rows' = rows /\ deliveries' = deliveries /\ unsure' = unsure /\ sent' = sent
  BY DEF Replaced
<1>3. \A n \in Message, h \in Gateway : Sending(h, n)' => Sending(h, n)
  BY <1>1 DEF Sending, Free
<1>4. \A n \in Message \ unsure' : ClaimIsExclusive(n)'
  BY <1>2, <1>3, ClaimFrame DEF DeliveryInv
<1>5. QueueSound(NoStream)
  BY NewStream
<1>6. stream' \in [Gateway -> Stream] /\ \A h \in Gateway : QueueSound(stream'[h])
  BY <1>5 DEF DeliveryInv, QueueSound, Replaced
<1> QED BY <1>1, <1>2, <1>4, <1>6 DEF DeliveryInv

\* Every step of every process keeps the claims exclusive and the queues sound.
THEOREM DeliveryInvariant == DeliverySpec => []DeliveryInv
<1>1. DeliveryInv /\ [DeliveryNext]_deliveryVars => DeliveryInv'
  <2> SUFFICES ASSUME DeliveryInv, [DeliveryNext]_deliveryVars PROVE DeliveryInv'
    OBVIOUS
  <2>1. CASE DeliveryNext
    <3> PICK g \in Gateway : \/ \E m \in Message : sent[m] < MaxSends /\ Prepare(g, m)
                             \/ ClaimSend(g) \/ Send(g) \/ Publish(g) \/ Shadow(g) \/ TakeEvent(g) \/ Replaced(g)
      BY <2>1 DEF DeliveryNext
    <3> QED BY PrepareKeeps, ClaimSendKeeps, SendKeeps, PublishKeeps, ShadowKeeps, TakeEventKeeps, ReplacedKeeps
  <2>2. CASE UNCHANGED deliveryVars
    BY <2>2 DEF deliveryVars, DeliveryInv, ClaimIsExclusive, Sending
  <2> QED BY <2>1, <2>2
<1> QED BY <1>1, DeliveryStart, PTL DEF DeliverySpec

\* Rows, claims and queues keep to their sets and their bound.
THEOREM DeliveryTypeCorrect == DeliverySpec => []DeliveryTypeOK
<1>1. DeliveryInv => DeliveryTypeOK
  BY DEF DeliveryInv, DeliveryTypeOK, QueueSound, Newest
<1> QED BY <1>1, DeliveryInvariant, PTL

\* However many processes meet a message, and whenever they are killed, it
\* reaches Telegram at most once if the store answered.
THEOREM DeliveredAtMostOnce == DeliverySpec => []DeliveredOnce
<1>1. DeliveryInv => DeliveredOnce
  BY DEF DeliveryInv, DeliveredOnce, ClaimIsExclusive
<1> QED BY <1>1, DeliveryInvariant, PTL

\* A slow subscriber's queue is always the newest events in order, and its gap
\* is what was dropped, for queues of any size.
THEOREM NewestAreKept == DeliverySpec => []NewestIsKept
<1>1. DeliveryInv => NewestIsKept
  <2> SUFFICES ASSUME DeliveryInv, NEW g \in Gateway, NEW s, s = stream[g]
               PROVE  /\ s.queue = [i \in 1..Len(s.queue) |-> s.published - Len(s.queue) + i]
                      /\ s.seen + s.dropped + Len(s.queue) = s.published
    BY DEF NewestIsKept
  <2>1. QueueSound(s)
    BY DEF DeliveryInv
  <2>2. s.queue \in Seq(Nat) /\ \A i \in 1..Len(s.queue) : s.queue[i] = s.published - Len(s.queue) + i
    BY <2>1 DEF QueueSound, Newest, Stream
  <2>3. s.queue = [i \in 1..Len(s.queue) |-> s.queue[i]]
    BY <2>2
  <2> QED BY <2>1, <2>2, <2>3 DEF QueueSound
<1> QED BY <1>1, DeliveryInvariant, PTL

-----------------------------------------------------------------------------
(* Accounts.                                                               *)

Account == [role : Role, origin : {"setup", "invite", "admin"}]
Session == [user : Email, expires : Int, ended : Int]
Cookies == [account : SessionId \cup {None}, owner : Int]
Request == [email : Email, browser : Browser, first : BOOLEAN]
Socket  == [open : BOOLEAN, cookies : Cookies, user : Email \cup {Owner, ""}, expires : Int, recheck : Int,
            sending : BOOLEAN, late : BOOLEAN]

AccountTyped ==
  /\ instant \in 0..LastInstant
  /\ DOMAIN users \subseteq Email /\ users \in [DOMAIN users -> Account]
  /\ DOMAIN sessions \subseteq SessionId /\ sessions \in [DOMAIN sessions -> Session]
  /\ \A s \in DOMAIN sessions : sessions[s].user \in DOMAIN users
  /\ jar \in [Browser -> Cookies]
  /\ \A b \in Browser : jar[b].account \in DOMAIN sessions \cup {None}
  /\ registering \in [Replica -> Request \cup {Idle}]
  /\ socket \in [Browser -> Socket]

\* An account let in by the setup token is the only one of its kind.
OneSetup == \A e, f \in DOMAIN users : users[e].origin = "setup" /\ users[f].origin = "setup" => e = f

\* The stream of an account knows when its session expires, and the recheck of a
\* revoked session is no further than one period.  Both timers are ahead of it,
\* or due now, unless its client has held it back past one of them.
Bounded(b) ==
  LET c == socket[b].cookies.account IN
  /\ c \in DOMAIN sessions /\ socket[b].user # ""
  /\ sessions[c].user = socket[b].user
  /\ socket[b].expires = sessions[c].expires
  /\ socket[b].recheck <= instant + Recheck
  /\ sessions[c].ended >= 0 => socket[b].recheck <= sessions[c].ended + Recheck
  /\ ~socket[b].late => instant <= socket[b].expires /\ instant <= socket[b].recheck

StreamsBounded == \A b \in Browser : socket[b].open /\ socket[b].user # Owner => Bounded(b)

AccountInv == AccountTyped /\ OneSetup /\ StreamsBounded

\* What a step may do to the sessions there are: revoke them, at this instant.
Outlasts(s) ==
  /\ s \in DOMAIN sessions'
  /\ sessions'[s].user = sessions[s].user /\ sessions'[s].expires = sessions[s].expires
  /\ sessions'[s].ended \in {sessions[s].ended, instant}

\* Inserting a new address, the first one if it comes from the setup token,
\* leaves at most one account of the setup token.
LEMMA InsertKeeps ==
  ASSUME AccountTyped, OneSetup, NEW e \in Email, e \notin DOMAIN users, NEW role \in Role,
         NEW origin \in {"setup", "invite", "admin"}, origin = "setup" => DOMAIN users = {},
         users' = Inserted(e, role, origin)
  PROVE  /\ DOMAIN users' = DOMAIN users \cup {e} /\ DOMAIN users' \subseteq Email
         /\ users' \in [DOMAIN users' -> Account] /\ OneSetup'
<1>1. DOMAIN users' = DOMAIN users \cup {e} /\ DOMAIN users' \subseteq Email
  BY DEF Inserted, AccountTyped
<1>2. /\ users'[e] = [role |-> role, origin |-> origin]
      /\ \A u \in DOMAIN users : users'[u] = users[u]
  BY DEF Inserted
<1>3. users' = [u \in DOMAIN users' |-> users'[u]]
  BY <1>1 DEF Inserted
<1>4. \A u \in DOMAIN users' : users'[u] \in Account
  BY <1>1, <1>2 DEF AccountTyped, Account
<1>5. OneSetup'
  BY <1>1, <1>2 DEF OneSetup
<1> QED BY <1>1, <1>3, <1>4, <1>5

\* Signing in adds a session and leaves every other as it is.
LEMMA SignInFacts ==
  ASSUME AccountTyped, NEW b \in Browser, NEW user \in Email, SignIn(b, user)
  PROVE  /\ DOMAIN sessions' \subseteq SessionId /\ sessions' \in [DOMAIN sessions' -> Session]
         /\ \A s \in DOMAIN sessions : Outlasts(s)
         /\ \A s \in DOMAIN sessions' : sessions'[s].user = user \/ s \in DOMAIN sessions
         /\ jar' \in [Browser -> Cookies]
         /\ \A c \in Browser : jar'[c].account \in DOMAIN sessions' \cup {None}
<1>1. PICK s \in Fresh :
        /\ sessions' = [r \in DOMAIN sessions \cup {s} |->
                          IF r = s THEN [user |-> user, expires |-> instant + SessionLife, ended |-> -1]
                          ELSE sessions[r]]
        /\ jar' = [jar EXCEPT ![b] = [account |-> s, owner |-> -1]]
  BY DEF SignIn
<1>2. s \in SessionId /\ s \notin DOMAIN sessions
  BY DEF Fresh
<1>3. DOMAIN sessions' = DOMAIN sessions \cup {s} /\ DOMAIN sessions' \subseteq SessionId
  BY <1>1, <1>2 DEF AccountTyped
<1>4. /\ sessions'[s] = [user |-> user, expires |-> instant + SessionLife, ended |-> -1]
      /\ \A r \in DOMAIN sessions : sessions'[r] = sessions[r]
  BY <1>1, <1>2
<1>5. instant + SessionLife \in Int
  BY LivesArePositive, RolesAreValid DEF AccountTyped
<1>6. \A r \in DOMAIN sessions' : sessions'[r] \in Session
  BY <1>3, <1>4, <1>5 DEF AccountTyped, Session
<1>7. sessions' = [r \in DOMAIN sessions' |-> sessions'[r]]
  BY <1>1, <1>3
<1>8. jar' \in [Browser -> Cookies] /\ jar'[b].account = s /\ \A c \in Browser \ {b} : jar'[c] = jar[c]
  BY <1>1, <1>2 DEF AccountTyped, Cookies
<1>9. \A c \in Browser : jar'[c].account \in DOMAIN sessions' \cup {None}
  BY <1>3, <1>8 DEF AccountTyped
<1> QED BY <1>2, <1>3, <1>4, <1>6, <1>7, <1>8, <1>9 DEF Outlasts

\* Revoking a session ends it now and leaves its user and its expiry.
LEMMA RevokeFacts ==
  ASSUME AccountTyped, NEW k, sessions' = Revoked(k)
  PROVE  /\ DOMAIN sessions' = DOMAIN sessions /\ sessions' \in [DOMAIN sessions' -> Session]
         /\ \A s \in DOMAIN sessions : Outlasts(s)
<1>1. CASE k \notin DOMAIN sessions
  BY <1>1 DEF Revoked, Outlasts, AccountTyped
<1>2. CASE k \in DOMAIN sessions
  <2>1. sessions' = [sessions EXCEPT ![k].ended = instant]
    BY <1>2 DEF Revoked
  <2>2. instant \in Int
    BY RolesAreValid DEF AccountTyped
  <2>3. /\ DOMAIN sessions' = DOMAIN sessions
        /\ sessions'[k] = [sessions[k] EXCEPT !.ended = instant]
        /\ \A s \in DOMAIN sessions \ {k} : sessions'[s] = sessions[s]
    BY <1>2, <2>1 DEF AccountTyped
  <2>4. sessions[k] \in Session
    BY <1>2 DEF AccountTyped
  <2>5. /\ sessions'[k] \in Session /\ sessions'[k].user = sessions[k].user
        /\ sessions'[k].expires = sessions[k].expires /\ sessions'[k].ended = instant
    BY <2>2, <2>3, <2>4 DEF Session
  <2>6. sessions' = [s \in DOMAIN sessions' |-> sessions'[s]]
    BY <1>2, <2>1
  <2>7. \A s \in DOMAIN sessions : sessions'[s] \in Session
    BY <2>3, <2>5 DEF AccountTyped
  <2> QED BY <2>3, <2>5, <2>6, <2>7 DEF Outlasts
<1> QED BY <1>1, <1>2

\* A stream stays bounded while its session is kept.
LEMMA StreamsFrame ==
  ASSUME AccountTyped, StreamsBounded, instant' = instant, socket' = socket, \A s \in DOMAIN sessions : Outlasts(s)
  PROVE  StreamsBounded'
<1> SUFFICES ASSUME NEW b \in Browser, socket[b].open, socket[b].user # Owner, Bounded(b) PROVE Bounded(b)'
  BY DEF StreamsBounded
<1>1. PICK c : c = socket[b].cookies.account
  OBVIOUS
<1>2. Outlasts(c) /\ c \in DOMAIN sessions
  BY <1>1 DEF Bounded
<1> QED BY <1>1, <1>2 DEF Bounded, Outlasts

\* When nothing happens to the sessions, they are kept.
LEMMA SessionsStay ==
  ASSUME sessions' = sessions
  PROVE  \A s \in DOMAIN sessions : Outlasts(s)
BY DEF Outlasts

\* Registration inserts and signs in, or finds that it may not.
LEMMA FinishRegisterKeeps ==
  ASSUME AccountInv, NEW r \in Replica, FinishRegister(r)
  PROVE  AccountInv'
<1> SUFFICES ASSUME NEW q, q = registering[r] PROVE AccountInv'
  OBVIOUS
<1>1. q \in Request /\ q.email \in Email /\ q.browser \in Browser
  BY DEF AccountInv, AccountTyped, FinishRegister, Request
<1>2. instant' = instant /\ socket' = socket /\ registering' \in [Replica -> Request \cup {Idle}]
  BY DEF FinishRegister, AccountInv, AccountTyped
<1>3. CASE UNCHANGED <<users, sessions, jar>>
  <2>1. AccountTyped' /\ OneSetup'
    BY <1>2, <1>3 DEF AccountInv, AccountTyped, OneSetup
  <2>2. StreamsBounded'
    BY <1>2, <1>3, SessionsStay, StreamsFrame DEF AccountInv
  <2> QED BY <2>1, <2>2 DEF AccountInv
<1>4. CASE /\ MayInsert(q.email, q.first)
           /\ users' = IF q.first THEN Inserted(q.email, "ADMIN", "setup")
                       ELSE Inserted(q.email, "TRADER", "invite")
           /\ SignIn(q.browser, q.email)
  <2>1. PICK role \in Role, origin \in {"setup", "invite", "admin"} :
          users' = Inserted(q.email, role, origin) /\ (origin = "setup" => q.first)
    <3>1. CASE q.first
      BY <1>4, <3>1 DEF Role
    <3>2. CASE ~q.first
      BY <1>4, <3>2 DEF Role
    <3> QED BY <3>1, <3>2
  <2>2. /\ DOMAIN users' = DOMAIN users \cup {q.email} /\ DOMAIN users' \subseteq Email
        /\ users' \in [DOMAIN users' -> Account] /\ OneSetup'
    BY <1>1, <1>4, <2>1, InsertKeeps DEF AccountInv, MayInsert
  <2>3. /\ DOMAIN sessions' \subseteq SessionId /\ sessions' \in [DOMAIN sessions' -> Session]
        /\ \A s \in DOMAIN sessions : Outlasts(s)
        /\ \A s \in DOMAIN sessions' : sessions'[s].user = q.email \/ s \in DOMAIN sessions
        /\ jar' \in [Browser -> Cookies]
        /\ \A c \in Browser : jar'[c].account \in DOMAIN sessions' \cup {None}
    BY <1>1, <1>4, SignInFacts DEF AccountInv
  <2>4. \A s \in DOMAIN sessions' : sessions'[s].user \in DOMAIN users'
    BY <2>2, <2>3 DEF AccountInv, AccountTyped, Outlasts
  <2>5. AccountTyped'
    BY <1>2, <2>2, <2>3, <2>4 DEF AccountInv, AccountTyped
  <2>6. StreamsBounded'
    BY <1>2, <2>3, StreamsFrame DEF AccountInv
  <2> QED BY <2>2, <2>5, <2>6 DEF AccountInv
<1> QED BY <1>3, <1>4 DEF FinishRegister

\* A process that dies in the middle has inserted the account or not.
LEMMA KilledKeeps ==
  ASSUME AccountInv, NEW r \in Replica, Killed(r)
  PROVE  AccountInv'
<1> SUFFICES ASSUME NEW q, q = registering[r] PROVE AccountInv'
  OBVIOUS
<1>1. q \in Request /\ q.email \in Email
  BY DEF AccountInv, AccountTyped, Killed, Request
<1>2. /\ UNCHANGED <<instant, sessions, jar, socket>>
      /\ registering' \in [Replica -> Request \cup {Idle}]
  BY DEF Killed, AccountInv, AccountTyped
<1>3. StreamsBounded'
  BY <1>2, SessionsStay, StreamsFrame DEF AccountInv
<1>4. CASE users' = users
  <2>1. AccountTyped' /\ OneSetup'
    BY <1>2, <1>4 DEF AccountInv, AccountTyped, OneSetup
  <2> QED BY <1>3, <2>1 DEF AccountInv
<1>5. CASE /\ MayInsert(q.email, q.first)
           /\ users' = IF q.first THEN Inserted(q.email, "ADMIN", "setup")
                       ELSE Inserted(q.email, "TRADER", "invite")
  <2>1. PICK role \in Role, origin \in {"setup", "invite", "admin"} :
          users' = Inserted(q.email, role, origin) /\ (origin = "setup" => q.first)
    <3>1. CASE q.first
      BY <1>5, <3>1 DEF Role
    <3>2. CASE ~q.first
      BY <1>5, <3>2 DEF Role
    <3> QED BY <3>1, <3>2
  <2>2. /\ DOMAIN users' = DOMAIN users \cup {q.email} /\ DOMAIN users' \subseteq Email
        /\ users' \in [DOMAIN users' -> Account] /\ OneSetup'
    BY <1>1, <1>5, <2>1, InsertKeeps DEF AccountInv, MayInsert
  <2>3. AccountTyped'
    BY <1>2, <2>2 DEF AccountInv, AccountTyped
  <2> QED BY <1>3, <2>2, <2>3 DEF AccountInv
<1> QED BY <1>4, <1>5 DEF Killed

\* An administrator never makes an account of the setup token.
LEMMA AddAccountKeeps ==
  ASSUME AccountInv, NEW b \in Browser, NEW e \in Email, NEW role \in GrantedRole, AddAccount(b, e, role)
  PROVE  AccountInv'
<1>1. /\ DOMAIN users' = DOMAIN users \cup {e} /\ DOMAIN users' \subseteq Email
      /\ users' \in [DOMAIN users' -> Account] /\ OneSetup'
  <2>1. role \in Role /\ e \notin DOMAIN users /\ users' = Inserted(e, role, "admin")
    BY RolesAreValid DEF AddAccount, MayInsert
  <2> QED BY <2>1, InsertKeeps DEF AccountInv
<1>2. UNCHANGED <<instant, sessions, jar, registering, socket>>
  BY DEF AddAccount
<1>3. AccountTyped'
  BY <1>1, <1>2 DEF AccountInv, AccountTyped
<1>4. StreamsBounded'
  BY <1>2, SessionsStay, StreamsFrame DEF AccountInv
<1> QED BY <1>1, <1>3, <1>4 DEF AccountInv

\* A login adds a session.
LEMMA LogInKeeps ==
  ASSUME AccountInv, NEW b \in Browser, NEW e \in Email, LogIn(b, e)
  PROVE  AccountInv'
<1>1. /\ DOMAIN sessions' \subseteq SessionId /\ sessions' \in [DOMAIN sessions' -> Session]
      /\ \A s \in DOMAIN sessions : Outlasts(s)
      /\ \A s \in DOMAIN sessions' : sessions'[s].user = e \/ s \in DOMAIN sessions
      /\ jar' \in [Browser -> Cookies]
      /\ \A c \in Browser : jar'[c].account \in DOMAIN sessions' \cup {None}
  BY SignInFacts DEF AccountInv, LogIn
<1>2. UNCHANGED <<instant, users, registering, socket>> /\ e \in DOMAIN users
  BY DEF LogIn
<1>3. \A s \in DOMAIN sessions' : sessions'[s].user \in DOMAIN users'
  BY <1>1, <1>2 DEF AccountInv, AccountTyped, Outlasts
<1>4. AccountTyped' /\ OneSetup'
  BY <1>1, <1>2, <1>3 DEF AccountInv, AccountTyped, OneSetup
<1>5. StreamsBounded'
  BY <1>1, <1>2, StreamsFrame DEF AccountInv
<1> QED BY <1>4, <1>5 DEF AccountInv

\* A step that revokes a session and gives the browser a cookie without one.
LEMMA RevokeKeeps ==
  ASSUME AccountInv, NEW b \in Browser, NEW owner \in Int, NEW k, sessions' = Revoked(k),
         jar' = [jar EXCEPT ![b] = [account |-> None, owner |-> owner]],
         UNCHANGED <<instant, users, registering, socket>>
  PROVE  AccountInv'
<1>1. /\ DOMAIN sessions' = DOMAIN sessions /\ sessions' \in [DOMAIN sessions' -> Session]
      /\ \A s \in DOMAIN sessions : Outlasts(s)
  BY RevokeFacts DEF AccountInv
<1>2. jar' \in [Browser -> Cookies] /\ \A c \in Browser : jar'[c].account \in DOMAIN sessions' \cup {None}
  BY <1>1 DEF AccountInv, AccountTyped, Cookies
<1>3. \A s \in DOMAIN sessions' : sessions'[s].user \in DOMAIN users'
  BY <1>1 DEF AccountInv, AccountTyped, Outlasts
<1>4. AccountTyped' /\ OneSetup'
  BY <1>1, <1>2, <1>3 DEF AccountInv, AccountTyped, OneSetup
<1>5. StreamsBounded'
  BY <1>1, StreamsFrame DEF AccountInv
<1> QED BY <1>4, <1>5 DEF AccountInv

\* The sessions of a browser end when it signs in as the owner or signs out.
LEMMA OwnerLogInKeeps ==
  ASSUME AccountInv, NEW b \in Browser, OwnerLogIn(b) \/ LogOut(b)
  PROVE  AccountInv'
<1>1. instant \in Int /\ -1 \in Int
  BY RolesAreValid DEF AccountInv, AccountTyped
<1>2. CASE OwnerLogIn(b)
  BY <1>1, <1>2, RevokeKeeps DEF OwnerLogIn
<1>3. CASE LogOut(b)
  BY <1>1, <1>3, RevokeKeeps DEF LogOut, NoCookie
<1> QED BY <1>2, <1>3

\* A stream that is opened for an account has a valid session behind it.
LEMMA ConnectKeeps ==
  ASSUME AccountInv, NEW b \in Browser, Connect(b)
  PROVE  AccountInv'
<1> SUFFICES ASSUME NEW c, c = jar[b].account, NEW u, u = PrincipalOf(jar[b]), NEW x, x = ExpiryOf(jar[b]),
                    NEW o, o = [open |-> TRUE, cookies |-> jar[b], user |-> u, expires |-> x,
                                recheck |-> instant + Recheck, sending |-> FALSE, late |-> FALSE]
             PROVE  AccountInv'
  OBVIOUS
<1>1. UNCHANGED <<instant, users, sessions, jar, registering>> /\ u # "" /\ socket' = [socket EXCEPT ![b] = o]
  BY DEF Connect
<1>2. instant \in Int /\ SessionLife \in Int /\ Recheck \in Nat \ {0} /\ jar[b] \in Cookies
  BY LivesArePositive, RolesAreValid DEF AccountInv, AccountTyped
<1>3. u \in Email \cup {Owner} /\ x \in Int
  <2>1. CASE Valid(c)
    <3>1. u = sessions[c].user /\ x = sessions[c].expires /\ sessions[c] \in Session
      BY <2>1 DEF PrincipalOf, ExpiryOf, Valid, AccountInv, AccountTyped
    <3> QED BY <3>1 DEF Session
  <2>2. CASE ~Valid(c)
    <3>1. u = Owner /\ x = jar[b].owner + SessionLife
      BY <1>1, <2>2 DEF PrincipalOf, ExpiryOf
    <3>2. jar[b].owner \in Int
      BY <1>2 DEF Cookies
    <3> QED BY <1>2, <3>1, <3>2
  <2> QED BY <2>1, <2>2
<1>4. o \in Socket /\ o.cookies = jar[b] /\ o.user = u /\ o.expires = x /\ o.recheck = instant + Recheck
  <2>1. ASSUME NEW y \in Int
        PROVE  [open |-> TRUE, cookies |-> jar[b], user |-> u, expires |-> x, recheck |-> y,
                sending |-> FALSE, late |-> FALSE] \in Socket
    BY <1>2, <1>3 DEF Socket
  <2>2. instant + Recheck \in Int
    BY <1>2
  <2> QED BY <2>1, <2>2
<1>5. /\ socket' \in [Browser -> Socket] /\ socket'[b] = o
      /\ \A a \in Browser \ {b} : socket'[a] = socket[a]
  BY <1>1, <1>4 DEF AccountInv, AccountTyped
<1>6. AccountTyped' /\ OneSetup'
  BY <1>1, <1>5 DEF AccountInv, AccountTyped, OneSetup
<1>7. ASSUME u # Owner PROVE Bounded(b)'
  <2>1. Valid(c) /\ u = sessions[c].user /\ x = sessions[c].expires
    BY <1>1, <1>7 DEF PrincipalOf, ExpiryOf
  <2>2. c \in DOMAIN sessions /\ sessions[c].ended < 0 /\ sessions[c].expires > instant
    BY <2>1 DEF Valid
  <2>3. sessions[c] \in Session
    BY <2>2 DEF AccountInv, AccountTyped
  <2>4. sessions[c].expires \in Int /\ sessions[c].ended \in Int
    BY <2>3 DEF Session
  <2>5. instant <= x /\ instant <= instant + Recheck /\ ~(sessions[c].ended >= 0)
    BY <1>2, <2>1, <2>2, <2>4
  <2>6. /\ socket'[b].cookies.account = c /\ socket'[b].user = u /\ socket'[b].expires = x
        /\ socket'[b].recheck = instant + Recheck
    BY <1>4, <1>5
  <2>7. instant + Recheck <= instant + Recheck
    BY <1>2
  <2> QED BY <1>1, <2>1, <2>2, <2>5, <2>6, <2>7 DEF Bounded
<1>8. \A a \in Browser \ {b} : socket'[a].open /\ socket'[a].user # Owner => Bounded(a)'
  BY <1>1, <1>5 DEF AccountInv, StreamsBounded, Bounded
<1>9. StreamsBounded'
  BY <1>5, <1>7, <1>8 DEF StreamsBounded
<1> QED BY <1>6, <1>9 DEF AccountInv

\* The rest positions of a cookie jar and of a websocket.
LEMMA RestPositions == NoCookie \in Cookies /\ NoSocket \in Socket /\ ~NoSocket.open
BY DEF NoSocket, NoCookie, Cookies, Socket

\* Closing one browser's stream leaves the others as they are.
LEMMA CloseKeeps ==
  ASSUME AccountInv, NEW b \in Browser, socket' = [socket EXCEPT ![b] = NoSocket],
         UNCHANGED <<instant, users, sessions, jar, registering>>
  PROVE  AccountInv'
<1>2. /\ socket' \in [Browser -> Socket] /\ ~socket'[b].open
      /\ \A a \in Browser \ {b} : socket'[a] = socket[a]
  BY RestPositions DEF AccountInv, AccountTyped
<1>3. AccountTyped' /\ OneSetup'
  BY <1>2 DEF AccountInv, AccountTyped, OneSetup
<1>4. StreamsBounded'
  BY <1>2 DEF AccountInv, StreamsBounded, Bounded
<1> QED BY <1>3, <1>4 DEF AccountInv

\* A recheck that finds the same user found the session valid.
LEMMA ServeTimersKeeps ==
  ASSUME AccountInv, NEW b \in Browser, ServeTimers(b)
  PROVE  AccountInv'
<1>1. UNCHANGED <<instant, users, sessions, jar, registering>>
  BY DEF ServeTimers
<1>2. CASE socket' = [socket EXCEPT ![b] = NoSocket]
  BY <1>1, <1>2, CloseKeeps
<1>3. CASE /\ socket[b].expires > instant /\ PrincipalOf(socket[b].cookies) = socket[b].user
           /\ socket' = [socket EXCEPT ![b].recheck = instant + Recheck, ![b].late = FALSE]
  <2>1. instant \in Int /\ Recheck \in Nat \ {0} /\ instant + Recheck \in Int
    BY LivesArePositive, RolesAreValid DEF AccountInv, AccountTyped
  <2>2. socket[b] \in Socket
    BY DEF AccountInv, AccountTyped
  <2>3. /\ socket'[b] = [socket[b] EXCEPT !.recheck = instant + Recheck, !.late = FALSE]
        /\ \A a \in Browser \ {b} : socket'[a] = socket[a]
    BY <1>3 DEF AccountInv, AccountTyped
  <2>4. ASSUME NEW y \in Int, socket'[b] = [socket[b] EXCEPT !.recheck = y, !.late = FALSE]
        PROVE  /\ socket'[b] \in Socket /\ socket'[b].open = socket[b].open /\ socket'[b].recheck = y
               /\ socket'[b].user = socket[b].user /\ socket'[b].expires = socket[b].expires
               /\ socket'[b].cookies = socket[b].cookies
    BY <2>2, <2>4 DEF Socket
  <2>5. /\ socket'[b] \in Socket /\ socket'[b].open = socket[b].open
        /\ socket'[b].recheck = instant + Recheck
        /\ socket'[b].user = socket[b].user /\ socket'[b].expires = socket[b].expires
        /\ socket'[b].cookies = socket[b].cookies
    BY <2>1, <2>3, <2>4
  <2>6. socket' \in [Browser -> Socket]
    BY <1>3, <2>3, <2>5 DEF AccountInv, AccountTyped
  <2>7. AccountTyped' /\ OneSetup'
    BY <1>1, <2>6 DEF AccountInv, AccountTyped, OneSetup
  <2>8. ASSUME socket[b].open, socket[b].user # Owner PROVE Bounded(b)'
    <3> SUFFICES ASSUME NEW c, c = socket[b].cookies.account PROVE Bounded(b)'
      OBVIOUS
    <3>1. Bounded(b)
      BY <2>8 DEF AccountInv, StreamsBounded
    <3>2. Valid(c)
      BY <1>3, <2>8, <3>1 DEF PrincipalOf, Bounded
    <3>3. c \in DOMAIN sessions /\ sessions[c].ended < 0 /\ sessions[c] \in Session
      BY <3>2 DEF Valid, AccountInv, AccountTyped
    <3>4. sessions[c].ended \in Int
      BY <3>3 DEF Session
    <3>5. ~(sessions[c].ended >= 0) /\ instant <= instant + Recheck /\ instant + Recheck <= instant + Recheck
      BY <2>1, <3>3, <3>4
    <3>6. socket[b].expires \in Int /\ instant <= socket[b].expires
      <4>1. socket[b].expires \in Int
        BY ONLY <2>2 DEF Socket
      <4>2. socket[b].expires > instant
        BY <1>3
      <4> QED BY ONLY <2>1, <4>1, <4>2
    <3> QED BY <1>1, <2>5, <3>1, <3>3, <3>5, <3>6 DEF Bounded
  <2>9. \A a \in Browser \ {b} : socket'[a].open /\ socket'[a].user # Owner => Bounded(a)'
    BY <1>1, <2>3 DEF AccountInv, StreamsBounded, Bounded
  <2> QED BY <2>5, <2>7, <2>8, <2>9 DEF AccountInv, StreamsBounded
<1> QED BY <1>2, <1>3 DEF ServeTimers

\* A stream that starts or ends to send keeps its timers.
LEMMA SendingKeeps ==
  ASSUME AccountInv, NEW b \in Browser, SendEvent(b) \/ Sent(b)
  PROVE  AccountInv'
<1>1. PICK y \in BOOLEAN : socket' = [socket EXCEPT ![b].sending = y]
  BY DEF SendEvent, Sent
<1>2. UNCHANGED <<instant, users, sessions, jar, registering>>
  BY DEF SendEvent, Sent
<1>3. socket[b] \in Socket /\ socket \in [Browser -> Socket]
  BY DEF AccountInv, AccountTyped
<1>4. /\ socket'[b] = [socket[b] EXCEPT !.sending = y]
      /\ \A a \in Browser \ {b} : socket'[a] = socket[a]
      /\ socket' = [a \in Browser |-> socket'[a]]
  BY <1>1, <1>3
<1>5. /\ socket'[b] \in Socket /\ socket'[b].open = socket[b].open /\ socket'[b].cookies = socket[b].cookies
      /\ socket'[b].user = socket[b].user /\ socket'[b].expires = socket[b].expires
      /\ socket'[b].recheck = socket[b].recheck /\ socket'[b].late = socket[b].late
  BY <1>3, <1>4 DEF Socket
<1>6. AccountTyped' /\ OneSetup'
  BY <1>2, <1>3, <1>4, <1>5 DEF AccountInv, AccountTyped, OneSetup
<1>7. \A a \in Browser : Bounded(a) => Bounded(a)'
  BY <1>2, <1>4, <1>5 DEF Bounded
<1>8. StreamsBounded'
  BY <1>4, <1>5, <1>7 DEF AccountInv, StreamsBounded
<1> QED BY <1>6, <1>8 DEF AccountInv

\* Time passes a timer that is due only while the client holds the stream back,
\* which makes the stream late.
LEMMA PassTimeKeeps ==
  ASSUME AccountInv, PassTime
  PROVE  AccountInv'
<1>1. /\ instant' = instant + 1 /\ UNCHANGED <<users, sessions, jar, registering>>
      /\ instant < LastInstant
      /\ \A b \in Browser : socket[b].open /\ ~socket[b].sending => ~Due(b)
  BY DEF PassTime
<1>2. instant \in Int /\ instant' \in 0..LastInstant /\ Recheck \in Nat \ {0}
  BY <1>1, LivesArePositive, RolesAreValid DEF AccountInv, AccountTyped
<1>3. ASSUME NEW b \in Browser
      PROVE  /\ socket'[b] \in Socket /\ socket'[b].open = socket[b].open /\ socket'[b].cookies = socket[b].cookies
             /\ socket'[b].user = socket[b].user /\ socket'[b].expires = socket[b].expires
             /\ socket'[b].recheck = socket[b].recheck /\ socket'[b].sending = socket[b].sending
             /\ ~socket'[b].late => ~socket[b].late /\ ~(socket[b].open /\ socket[b].sending /\ Due(b))
  <2>1. socket[b] \in Socket
    BY DEF AccountInv, AccountTyped
  <2>2. PICK y \in BOOLEAN : y <=> socket[b].late \/ (socket[b].open /\ socket[b].sending /\ Due(b))
    OBVIOUS
  <2>3. socket'[b] = [socket[b] EXCEPT !.late = y]
    <3>1. socket'[b] = [socket[b] EXCEPT !.late = socket[b].late \/ (socket[b].open /\ socket[b].sending /\ Due(b))]
      BY <2>1 DEF PassTime, Socket
    <3>2. (socket[b].late \/ (socket[b].open /\ socket[b].sending /\ Due(b))) \in BOOLEAN
      OBVIOUS
    <3>3. (socket[b].late \/ (socket[b].open /\ socket[b].sending /\ Due(b))) = y
      BY Zenon, <2>2, <3>2
    <3> QED BY <3>1, <3>3
  <2> QED BY ONLY <2>1, <2>2, <2>3, y \in BOOLEAN DEF Socket
<1>4. socket' \in [Browser -> Socket]
  BY <1>3 DEF PassTime
<1>5. AccountTyped' /\ OneSetup'
  BY <1>1, <1>2, <1>4 DEF AccountInv, AccountTyped, OneSetup
<1>6. ASSUME NEW b \in Browser, socket[b].open, socket[b].user # Owner PROVE Bounded(b)'
  <2>1. Bounded(b) /\ socket[b] \in Socket
    BY <1>6 DEF AccountInv, AccountTyped, StreamsBounded
  <2>2. socket[b].expires \in Int /\ socket[b].recheck \in Int
    BY <2>1 DEF Socket
  <2>3. socket[b].recheck <= instant' + Recheck
    <3>1. socket[b].recheck <= instant + Recheck
      BY <2>1 DEF Bounded
    <3> QED BY ONLY <1>1, <1>2, <2>2, <3>1
  <2>4. ASSUME ~socket'[b].late PROVE instant' <= socket[b].expires /\ instant' <= socket[b].recheck
    <3>1. ~Due(b)
      BY <1>1, <1>3, <1>6, <2>4
    <3> QED BY <1>1, <1>2, <2>2, <3>1 DEF Due
  <2> QED BY <1>1, <1>3, <2>1, <2>3, <2>4 DEF Bounded
<1>7. StreamsBounded'
  BY <1>3, <1>6 DEF StreamsBounded
<1> QED BY <1>5, <1>7 DEF AccountInv

\* Counting the users changes nothing that is stored.
LEMMA BeginRegisterKeeps ==
  ASSUME AccountInv, NEW r \in Replica, NEW b \in Browser, NEW e \in Email, BeginRegister(r, b, e)
  PROVE  AccountInv'
<1>1. [email |-> e, browser |-> b, first |-> DOMAIN users = {}] \in Request
  BY DEF Request
<1>2. registering' \in [Replica -> Request \cup {Idle}]
  BY <1>1 DEF BeginRegister, AccountInv, AccountTyped
<1>3. AccountTyped' /\ OneSetup'
  BY <1>2 DEF BeginRegister, AccountInv, AccountTyped, OneSetup
<1>4. StreamsBounded'
  BY SessionsStay, StreamsFrame DEF BeginRegister, AccountInv
<1> QED BY <1>3, <1>4 DEF AccountInv

\* Every step of the account endpoints and the streams keeps the accounts'
\* invariant.
THEOREM AccountInvariant == AccountSpec => []AccountInv
<1>1. AccountInit => AccountInv
  <2> SUFFICES ASSUME AccountInit PROVE AccountInv
    OBVIOUS
  <2>1. NoCookie \in Cookies /\ NoSocket \in Socket /\ ~NoSocket.open
    BY RestPositions
  <2>2. DOMAIN users = {} /\ DOMAIN sessions = {} /\ users = [e \in {} |-> {}] /\ sessions = [s \in {} |-> {}]
    BY DEF AccountInit
  <2>3. users \in [DOMAIN users -> Account] /\ sessions \in [DOMAIN sessions -> Session]
    BY <2>2
  <2>4. AccountTyped
    BY <2>1, <2>2, <2>3, RolesAreValid DEF AccountInit, AccountTyped, NoCookie
  <2> QED BY <2>1, <2>2, <2>4 DEF AccountInit, AccountInv, OneSetup, StreamsBounded
<1>2. AccountInv /\ [AccountNext]_accountVars => AccountInv'
  <2> SUFFICES ASSUME AccountInv, [AccountNext]_accountVars PROVE AccountInv'
    OBVIOUS
  <2>1. CASE AccountNext
    <3>1. CASE PassTime
      BY <3>1, PassTimeKeeps
    <3>2. CASE \E r \in Replica : FinishRegister(r) \/ Killed(r)
                                 \/ \E b \in Browser, e \in Email : BeginRegister(r, b, e)
      BY <3>2, FinishRegisterKeeps, KilledKeeps, BeginRegisterKeeps
    <3>3. CASE \E b \in Browser : \/ OwnerLogIn(b) \/ LogOut(b) \/ Connect(b)
                                 \/ ServeTimers(b) \/ SendEvent(b) \/ Sent(b) \/ Disconnect(b)
      <4>1. ASSUME NEW b \in Browser, Disconnect(b) PROVE AccountInv'
        BY <4>1, CloseKeeps DEF Disconnect
      <4> QED BY <3>3, <4>1, OwnerLogInKeeps, ConnectKeeps, ServeTimersKeeps, SendingKeeps
    <3>4. CASE \E b \in Browser, e \in Email : LogIn(b, e) \/ \E role \in GrantedRole : AddAccount(b, e, role)
      BY <3>4, LogInKeeps, AddAccountKeeps
    <3> QED BY <2>1, <3>1, <3>2, <3>3, <3>4 DEF AccountNext
  <2>2. CASE UNCHANGED accountVars
    <3>1. AccountTyped' /\ OneSetup'
      BY <2>2 DEF accountVars, AccountInv, AccountTyped, OneSetup
    <3>2. StreamsBounded'
      BY <2>2, SessionsStay, StreamsFrame DEF accountVars, AccountInv
    <3> QED BY <3>1, <3>2 DEF AccountInv
  <2> QED BY <2>1, <2>2
<1> QED BY <1>1, <1>2, PTL DEF AccountSpec

\* Accounts have valid roles, sessions have users, cookies name sessions.
THEOREM AccountTypeCorrect == AccountSpec => []AccountTypeOK
<1>1. AccountInv => AccountTypeOK
  BY DEF AccountInv, AccountTyped, AccountTypeOK, Account
<1> QED BY <1>1, AccountInvariant, PTL

\* However many processes count an empty table at once, the setup token makes
\* one administrator.
THEOREM BootstrapIsSingle == AccountSpec => []OneBootstrap
<1>1. AccountInv => OneBootstrap
  <2> SUFFICES ASSUME AccountInv, NEW S, S = {e \in DOMAIN users : users[e].origin = "setup"}
               PROVE  Cardinality(S) <= 1
    BY DEF OneBootstrap
  <2>1. CASE S = {}
    BY <2>1, FS_EmptySet
  <2>2. CASE S # {}
    <3>1. PICK e : e \in S
      BY <2>2
    <3>2. S = {e}
      BY <3>1 DEF AccountInv, OneSetup
    <3> QED BY <3>2, FS_Singleton
  <2> QED BY <2>1, <2>2
<1> QED BY <1>1, AccountInvariant, PTL

\* However often sessions are revoked and timers served, the stream of a client
\* that reads outlives its session's revocation by one recheck at most.
THEOREM StreamsEnd == AccountSpec => []StreamEndsWithSession
<1>1. AccountInv => StreamEndsWithSession
  <2> SUFFICES ASSUME AccountInv, NEW b \in Browser, socket[b].open, socket[b].user # Owner, ~socket[b].late,
                      NEW c, c = socket[b].cookies.account
               PROVE  /\ sessions[c].user = socket[b].user
                      /\ instant <= sessions[c].expires
                      /\ sessions[c].ended >= 0 => instant <= sessions[c].ended + Recheck
    BY DEF StreamEndsWithSession
  <2>1. Bounded(b)
    BY DEF AccountInv, StreamsBounded
  <2>2. sessions[c] \in Session /\ socket[b] \in Socket
    BY <2>1 DEF AccountInv, AccountTyped, Bounded
  <2>3. sessions[c].ended \in Int /\ socket[b].recheck \in Int
    BY <2>2 DEF Session, Socket
  <2>4. instant \in Int /\ Recheck \in Int
    BY LivesArePositive, RolesAreValid DEF AccountInv, AccountTyped
  <2>5. /\ sessions[c].user = socket[b].user /\ instant <= sessions[c].expires
        /\ instant <= socket[b].recheck
        /\ sessions[c].ended >= 0 => socket[b].recheck <= sessions[c].ended + Recheck
    BY <2>1 DEF Bounded
  <2> QED BY ONLY <2>3, <2>4, <2>5
<1> QED BY <1>1, AccountInvariant, PTL

\* A step after which a stream sends, and did not before, hands it an event.
LEMMA SendingBegins ==
  ASSUME AccountInv, [AccountNext]_accountVars, NEW b \in Browser, socket'[b].sending, ~socket[b].sending
  PROVE  SendEvent(b) /\ sessions' = sessions
<1>1. socket \in [Browser -> Socket] /\ socket[b] \in Socket
  BY DEF AccountInv, AccountTyped
<1>2. socket' # socket
  OBVIOUS
<1>3. ASSUME NEW a \in Browser, socket' = [socket EXCEPT ![a] = NoSocket] PROVE FALSE
  BY <1>1, <1>3 DEF NoSocket
<1>4. ASSUME NEW a \in Browser, ServeTimers(a) PROVE FALSE
  <2>1. socket' = [socket EXCEPT ![a].recheck = instant + Recheck, ![a].late = FALSE]
    BY <1>3, <1>4 DEF ServeTimers
  <2> QED BY <1>1, <2>1 DEF Socket
<1>5. ASSUME NEW a \in Browser, Connect(a) PROVE FALSE
  BY <1>1, <1>5 DEF Connect
<1>6. ASSUME PassTime PROVE FALSE
  BY <1>1, <1>6 DEF PassTime, Socket
<1>7. ASSUME NEW a \in Browser, Sent(a) PROVE FALSE
  BY <1>1, <1>7 DEF Sent, Socket
<1>8. ASSUME NEW a \in Browser, SendEvent(a) PROVE SendEvent(b) /\ sessions' = sessions
  <2>1. a = b
    BY <1>1, <1>8 DEF SendEvent
  <2> QED BY <1>8, <2>1 DEF SendEvent
<1>9. \A a \in Browser : ~Disconnect(a)
  BY <1>3 DEF Disconnect
<1>10. ASSUME NEW r \in Replica
       PROVE  ~FinishRegister(r) /\ ~Killed(r) /\ \A a \in Browser, e \in Email : ~BeginRegister(r, a, e)
  BY <1>2 DEF FinishRegister, Killed, BeginRegister
<1>11. ASSUME NEW a \in Browser
       PROVE  /\ ~OwnerLogIn(a) /\ ~LogOut(a)
              /\ \A e \in Email : ~LogIn(a, e) /\ \A role \in GrantedRole : ~AddAccount(a, e, role)
  BY <1>2 DEF OwnerLogIn, LogOut, LogIn, AddAccount
<1>12. AccountNext
  BY <1>2 DEF accountVars
<1>13. \E a \in Browser : SendEvent(a)
  BY <1>4, <1>5, <1>6, <1>7, <1>9, <1>10, <1>11, <1>12 DEF AccountNext
<1> QED BY <1>8, <1>13

\* However long clients hold their streams back, none is handed an event after
\* its session has expired, or a recheck after it was revoked.
THEOREM NoEventsAfterSession == AccountSpec => NoEventAfterSession
<1>1. ASSUME AccountInv, [AccountNext]_accountVars, NEW b \in Browser, socket'[b].sending, ~socket[b].sending,
             socket[b].user # Owner, NEW c, c = socket[b].cookies.account
      PROVE  /\ instant < sessions[c].expires
             /\ sessions[c].ended >= 0 => instant < sessions[c].ended + Recheck
  <2>1. socket[b].open /\ ~Due(b)
    BY <1>1, SendingBegins DEF SendEvent, MayHand
  <2>2. Bounded(b)
    BY <1>1, <2>1 DEF AccountInv, StreamsBounded
  <2>3. sessions[c] \in Session /\ socket[b] \in Socket
    BY <1>1, <2>2 DEF AccountInv, AccountTyped, Bounded
  <2>4. /\ sessions[c].ended \in Int /\ sessions[c].expires \in Int
        /\ socket[b].recheck \in Int /\ socket[b].expires \in Int
    BY <2>3 DEF Session, Socket
  <2>5. instant \in Int /\ Recheck \in Int
    BY <1>1, LivesArePositive, RolesAreValid DEF AccountInv, AccountTyped
  <2>6. instant < socket[b].expires /\ instant < socket[b].recheck
    BY <2>1, <2>4, <2>5 DEF Due
  <2>7. /\ socket[b].expires = sessions[c].expires
        /\ sessions[c].ended >= 0 => socket[b].recheck <= sessions[c].ended + Recheck
    BY <1>1, <2>2 DEF Bounded
  <2> QED BY ONLY <2>4, <2>5, <2>6, <2>7
<1>2. AccountInv /\ [AccountNext]_accountVars =>
        [\A b \in Browser :
           socket'[b].sending /\ ~socket[b].sending /\ socket[b].user # Owner =>
             LET s == sessions[socket[b].cookies.account] IN
             /\ instant < s.expires
             /\ s.ended >= 0 => instant < s.ended + Recheck]_accountVars
  BY <1>1
<1> QED BY <1>2, AccountInvariant, PTL DEF AccountSpec, NoEventAfterSession

-----------------------------------------------------------------------------
(* Budgets.                                                                *)

\* Whatever is saved, shipped, restarted and booted in whichever order, a
\* booted engine sizes with the saved budgets unless a PUT was answered with an
\* error since.
THEOREM BudgetsAreInForce == DeskSpec => []BudgetsInForce
<1>1. DeskInit => BudgetsInForce
  BY DEF DeskInit, BudgetsInForce
<1>2. BudgetsInForce /\ [DeskNext]_deskVars => BudgetsInForce'
  <2> SUFFICES ASSUME BudgetsInForce, [DeskNext]_deskVars PROVE BudgetsInForce'
    OBVIOUS
  <2>1. CASE Startup
    BY <2>1 DEF Startup, BootBudgets, BudgetsInForce
  <2>2. CASE Relaunch
    BY <2>2 DEF Relaunch, BudgetsInForce
  <2>3. ASSUME NEW new, PutBudgets(new) PROVE BudgetsInForce'
    BY <2>3 DEF PutBudgets, BudgetsInForce
  <2>4. CASE UNCHANGED <<booted, budgets, saved, torn>>
    BY <2>4 DEF BudgetsInForce
  <2>5. ASSUME NEW u, NEW new, PutLimits(u, new) PROVE UNCHANGED <<booted, budgets, saved, torn>>
    BY <2>5 DEF PutLimits
  <2>6. ASSUME NEW u, GetBudgets(u) \/ Enrol(u) PROVE UNCHANGED <<booted, budgets, saved, torn>>
    BY <2>6 DEF GetBudgets, Enrol
  <2>7. ASSUME NEW u, NEW up, PutPreferences(u, up) PROVE UNCHANGED <<booted, budgets, saved, torn>>
    BY <2>7 DEF PutPreferences
  <2>8. ASSUME NEW w, NEW l, CreateList(w, l) \/ \E s \in Ticker : AddMember(w, l, s) \/ RemoveMember(w, l, s)
        PROVE  UNCHANGED <<booted, budgets, saved, torn>>
    BY <2>8 DEF CreateList, AddMember, RemoveMember
  <2> QED BY <2>1, <2>2, <2>3, <2>4, <2>5, <2>6, <2>7, <2>8 DEF DeskNext, deskVars
<1> QED BY <1>1, <1>2, PTL DEF DeskSpec

\* Partial functions, and what becomes of them when they are put together.
LEMMA PartialIs ==
  ASSUME NEW S, NEW T, NEW f
  PROVE  f \in Partial(S, T) <=> DOMAIN f \subseteq S /\ f \in [DOMAIN f -> T]
BY DEF Partial

\* So is what a partial function updates.
LEMMA PartialMerge ==
  ASSUME NEW S, NEW T, NEW f \in Partial(S, T), NEW g \in Partial(S, T)
  PROVE  Updated(g, f) \in Partial(S, T)
<1>1. DOMAIN f \subseteq S /\ f \in [DOMAIN f -> T] /\ DOMAIN g \subseteq S /\ g \in [DOMAIN g -> T]
  BY PartialIs
<1>2. PICK h : h = Updated(g, f)
  OBVIOUS
<1>3. h = [x \in DOMAIN g \cup DOMAIN f |-> IF x \in DOMAIN f THEN f[x] ELSE g[x]]
  BY <1>2 DEF Updated
<1>4. DOMAIN h \subseteq S /\ h \in [DOMAIN h -> T]
  BY <1>1, <1>3
<1> QED BY <1>2, <1>4, PartialIs

\* What the desk holds.
DeskTyped ==
  /\ booted \in BOOLEAN /\ torn \in BOOLEAN /\ people \subseteq Person
  /\ budgets \in Partial(Area, Amount) /\ saved \in Partial(Area, Amount)
  /\ limits \in [Person -> Partial(Area, Amount)] /\ prefs \in [Person -> Partial(Pref, {0, 1})]
  /\ lists \in [Anyone -> Partial(ListName \cup {"research"}, SUBSET Ticker)]

\* The empty function is one,
LEMMA NothingIsPartial ==
  ASSUME NEW S, NEW T
  PROVE  Nothing \in Partial(S, T)
<1>1. DOMAIN Nothing = {} /\ Nothing \in [DOMAIN Nothing -> T]
  BY DEF Nothing
<1> QED BY <1>1, PartialIs

\* and so is a constant on any part.
LEMMA ConstantIsPartial ==
  ASSUME NEW S, NEW T, NEW D \in SUBSET S, NEW t \in T
  PROVE  [d \in D |-> t] \in Partial(S, T)
<1>1. PICK f : f = [d \in D |-> t]
  OBVIOUS
<1>2. DOMAIN f = D /\ f \in [D -> T]
  BY <1>1
<1> QED BY <1>1, <1>2, PartialIs

\* The desk starts with the shipped budgets.
LEMMA DeskTypedInit == DeskInit => DeskTyped
<1> SUFFICES ASSUME DeskInit PROVE DeskTyped
  OBVIOUS
<1>1. Shipped \in Partial(Area, Amount)
  BY ShippedIsComplete, PartialIs
<1> QED BY <1>1, NothingIsPartial DEF DeskInit, DeskTyped

\* No edit, start or restart leaves the types.
LEMMA DeskTypedStep == DeskTyped /\ [DeskNext]_deskVars => DeskTyped'
<1> SUFFICES ASSUME DeskTyped, [DeskNext]_deskVars PROVE DeskTyped'
  OBVIOUS
<1> DEFINE Lists == Partial(ListName \cup {"research"}, SUBSET Ticker)
<1>0. PICK research : research = [l \in {"research"} |-> {}] /\ research \in Lists
  BY ConstantIsPartial
<1>1. CASE Startup
  BY <1>1 DEF Startup, BootBudgets, DeskTyped
<1>2. CASE Relaunch
  <2>1. Shipped \in Partial(Area, Amount)
    BY ShippedIsComplete, PartialIs
  <2>2. budgets' \in Partial(Area, Amount) /\ torn' \in BOOLEAN /\ booted' \in BOOLEAN
    BY <1>2, <2>1 DEF Relaunch, DeskTyped
  <2>3. lists' \in [Anyone -> Lists]
    BY <1>0, <1>2 DEF Relaunch, DeskTyped
  <2>4. UNCHANGED <<saved, people, limits, prefs>>
    BY <1>2 DEF Relaunch
  <2> QED BY <2>2, <2>3, <2>4 DEF DeskTyped
<1>3. ASSUME NEW new \in Partial(Area, Amount), PutBudgets(new) PROVE DeskTyped'
  BY <1>3 DEF PutBudgets, DeskTyped
<1>4. ASSUME NEW new \in Partial(Area, Amount), NEW u \in Person, PutLimits(u, new) PROVE DeskTyped'
  <2>1. PICK f \in Partial(Area, Amount) : f = Updated(limits[u], new)
    BY PartialMerge DEF DeskTyped
  <2>2. limits' = [limits EXCEPT ![u] = f]
    BY <1>4, <2>1 DEF PutLimits
  <2>3. limits' \in [Person -> Partial(Area, Amount)]
    BY <2>2 DEF DeskTyped
  <2> QED BY <1>4, <2>3 DEF PutLimits, DeskTyped
<1>5. ASSUME NEW u \in Person, GetBudgets(u) PROVE DeskTyped'
  <2>1. limits' \in [Person -> Partial(Area, Amount)]
    BY <1>5 DEF GetBudgets, DeskTyped
  <2> QED BY <1>5, <2>1 DEF GetBudgets, DeskTyped
<1>6. ASSUME NEW u \in Person, Enrol(u) PROVE DeskTyped'
  <2>1. PICK f \in Partial(Pref, {0, 1}) : f = [k \in Pref |-> 0]
    BY ConstantIsPartial
  <2>2. limits' = [limits EXCEPT ![u] = budgets] /\ limits' \in [Person -> Partial(Area, Amount)]
    BY <1>6 DEF Enrol, DeskTyped
  <2>3. prefs' \in [Person -> Partial(Pref, {0, 1})]
    BY <1>6, <2>1 DEF Enrol, DeskTyped
  <2>4. lists' \in [Anyone -> Lists]
    BY <1>0, <1>6 DEF Enrol, DeskTyped, Anyone
  <2> QED BY <1>6, <2>2, <2>3, <2>4 DEF Enrol, DeskTyped
<1>7. ASSUME NEW u \in Person, NEW update \in Partial(Pref, {0, 1}), PutPreferences(u, update) PROVE DeskTyped'
  <2>1. PICK z \in Partial(Pref, {0, 1}) : z = [k \in Pref |-> 0]
    BY ConstantIsPartial
  <2>2. PICK f \in Partial(Pref, {0, 1}) : f = Updated(Updated(z, prefs[u]), update)
    <3>1. PICK e \in Partial(Pref, {0, 1}) : e = Updated(z, prefs[u])
      BY PartialMerge DEF DeskTyped
    <3> QED BY <3>1, PartialMerge
  <2>3. prefs' = [prefs EXCEPT ![u] = f]
    BY <1>7, <2>1, <2>2 DEF PutPreferences
  <2>4. prefs' \in [Person -> Partial(Pref, {0, 1})]
    BY <2>3 DEF DeskTyped
  <2> QED BY <1>7, <2>4 DEF PutPreferences, DeskTyped
<1>8. ASSUME NEW w \in Anyone, NEW l \in ListName, CreateList(w, l) PROVE DeskTyped'
  <2>1. PICK k \in Lists : k = [i \in {l} |-> {}]
    BY ConstantIsPartial
  <2>2. PICK f \in Lists : f = Updated(k, lists[w])
    BY <2>1, PartialMerge DEF DeskTyped
  <2>3. lists' = [lists EXCEPT ![w] = f]
    BY <1>8, <2>1, <2>2 DEF CreateList
  <2>4. lists' \in [Anyone -> Lists]
    BY <2>3 DEF DeskTyped
  <2> QED BY <1>8, <2>4 DEF CreateList, DeskTyped
<1>9. ASSUME NEW w \in Anyone, NEW l \in ListName, NEW s \in Ticker, AddMember(w, l, s) \/ RemoveMember(w, l, s)
      PROVE  DeskTyped'
  <2>1. l \in DOMAIN lists[w] /\ \E m \in SUBSET Ticker : lists' = [lists EXCEPT ![w] = [lists[w] EXCEPT ![l] = m]]
    <3>1. l \in DOMAIN lists[w]
      BY <1>9 DEF AddMember, RemoveMember
    <3>2. lists[w] \in Lists
      BY DEF DeskTyped
    <3>3. lists[w][l] \in SUBSET Ticker
      BY <3>1, <3>2, PartialIs
    <3> QED BY <1>9, <3>1, <3>3 DEF AddMember, RemoveMember
  <2>2. PICK m \in SUBSET Ticker : lists' = [lists EXCEPT ![w] = [lists[w] EXCEPT ![l] = m]]
    BY <2>1
  <2>3. PICK g : g = lists[w]
    OBVIOUS
  <2>4. DOMAIN g \subseteq ListName \cup {"research"} /\ g \in [DOMAIN g -> SUBSET Ticker]
    <3>1. g \in Lists
      BY <2>3 DEF DeskTyped
    <3> QED BY <3>1, PartialIs
  <2>5. PICK f : f = [g EXCEPT ![l] = m]
    OBVIOUS
  <2>6. DOMAIN f = DOMAIN g /\ f \in [DOMAIN f -> SUBSET Ticker]
    BY <2>4, <2>5
  <2>7. f \in Lists
    BY <2>4, <2>6, PartialIs
  <2>8. lists' \in [Anyone -> Lists]
    BY <2>2, <2>3, <2>5, <2>7 DEF DeskTyped
  <2> QED BY <1>9, <2>8 DEF AddMember, RemoveMember, DeskTyped
<1>10. CASE UNCHANGED deskVars
  BY <1>10 DEF deskVars, DeskTyped
<1>11. people \cup {DeskOwner} \subseteq Anyone
  BY DEF DeskTyped, Anyone
<1> HIDE DEF Lists
<1> QED BY <1>1, <1>2, <1>3, <1>4, <1>5, <1>6, <1>7, <1>8, <1>9, <1>10, <1>11 DEF DeskNext

\* Limits, preferences and watchlists stay within their modules, keys and names.
THEOREM DeskTypeCorrect == DeskSpec => []DeskTypeOK
<1>1. DeskTyped => DeskTypeOK
  <2> SUFFICES ASSUME DeskTyped, NEW w \in Anyone PROVE DOMAIN lists[w] \subseteq ListName \cup {"research"}
    BY DEF DeskTyped, DeskTypeOK
  <2>1. lists[w] \in Partial(ListName \cup {"research"}, SUBSET Ticker)
    BY DEF DeskTyped
  <2> QED BY <2>1, PartialIs
<1> QED BY <1>1, DeskTypedInit, DeskTypedStep, PTL DEF DeskSpec

-----------------------------------------------------------------------------
(* Market data: the clock and the closes of its sessions.                  *)

\* The calendar is fixed, and day 0 has passed.
Calendar ==
  /\ now \in Nat /\ now >= 2 * DayLength
  /\ 0 \in calendar.trading /\ calendar.trading \subseteq Nat

\* The day that contains t lies between the days around it.
LEMMA DayBounds ==
  ASSUME NEW t \in Nat
  PROVE  DayOf(t) \in Nat /\ 2 * (DayOf(t) * DayLength) <= t /\ t < 2 * ((DayOf(t) + 1) * DayLength)
<1>1. DayLength \in Nat \ {0}
  <2>1. {Open, Close, EarlyClose, DayLength} \subseteq Nat /\ Open < EarlyClose /\ EarlyClose < Close /\ Close < DayLength
    BY SessionInsideDay
  <2> QED BY ONLY <2>1
<1> SUFFICES ASSUME NEW l \in Nat \ {0}, NEW m \in Nat \ {0}, m = 2 * l, NEW d, d = t \div m
             PROVE  d \in Nat /\ 2 * (d * l) <= t /\ t < 2 * ((d + 1) * l)
  BY <1>1 DEF DayOf
<1>2. d \in Nat /\ d * m <= t /\ t < d * m + m
  BY ONLY t \in Nat, m \in Nat \ {0}, d = t \div m
<1>3. d * m = 2 * (d * l) /\ 2 * ((d + 1) * l) = d * m + m
  BY ONLY <1>2, l \in Nat, m = 2 * l
<1> QED BY <1>2, <1>3

\* A session lies inside its day.
LEMMA SessionBounds ==
  ASSUME NEW d \in Nat
  PROVE  /\ OpenOf(d) \in Nat /\ CloseOf(d) \in Nat /\ OpenOf(d) < CloseOf(d)
         /\ 2 * (d * DayLength) <= OpenOf(d) /\ CloseOf(d) < 2 * ((d + 1) * DayLength)
<1> SUFFICES ASSUME NEW l \in Nat, l = DayLength, NEW x \in Nat, x = d * l,
                    NEW c \in Nat, c = (IF d \in calendar.half THEN EarlyClose ELSE Close), Open < c, c < l
             PROVE  /\ 2 * (x + Open) \in Nat /\ 2 * (x + c) \in Nat /\ 2 * (x + Open) < 2 * (x + c)
                    /\ 2 * x <= 2 * (x + Open) /\ 2 * (x + c) < 2 * ((d + 1) * l)
  <2>1. DayLength \in Nat
    BY SessionInsideDay
  <2>2. d * DayLength \in Nat
    BY <2>1
  <2>3. (IF d \in calendar.half THEN EarlyClose ELSE Close) \in Nat
    BY SessionInsideDay
  <2>4. Open < (IF d \in calendar.half THEN EarlyClose ELSE Close) /\ (IF d \in calendar.half THEN EarlyClose ELSE Close) < DayLength
    BY SessionInsideDay
  <2> QED BY Zenon, <2>1, <2>2, <2>3, <2>4 DEF OpenOf, CloseOf
<1>1. (d + 1) * l = x + l
  BY ONLY d \in Nat, l \in Nat, x = d * l
<1>2. Open \in Nat
  BY SessionInsideDay
<1> QED BY ONLY <1>1, <1>2, l \in Nat, x \in Nat, c \in Nat, Open < c, c < l

\* Days do not overlap.
LEMMA DaysInOrder ==
  ASSUME NEW d \in Nat, NEW e \in Nat, e < d
  PROVE  CloseOf(e) < 2 * (d * DayLength) /\ CloseOf(e) < OpenOf(d)
<1>1. DayLength \in Nat
  BY SessionInsideDay
<1>2. (e + 1) * DayLength <= d * DayLength
  BY <1>1
<1>3. (e + 1) * DayLength \in Nat /\ d * DayLength \in Nat
  BY <1>1
<1>4. CloseOf(e) \in Nat /\ CloseOf(e) < 2 * ((e + 1) * DayLength) /\ 2 * (d * DayLength) <= OpenOf(d) /\ OpenOf(d) \in Nat
  BY SessionBounds
<1> QED BY ONLY <1>2, <1>3, <1>4

\* The bar closes of a day other than its session's close.
InnerCloses(d, size) == {OpenOf(d) + 2 * k * size : k \in 1..((CloseOf(d) - OpenOf(d) - 1) \div (2 * size))}

\* k bars of a session are done by t when k of them fit before t.
LEMMA BarsFit ==
  ASSUME NEW d \in Nat, NEW size \in Nat \ {0}, NEW t \in Nat, OpenOf(d) <= t, NEW k \in Nat
  PROVE  OpenOf(d) + 2 * k * size <= t <=> k <= (t - OpenOf(d)) \div (2 * size)
<1>1. OpenOf(d) \in Nat
  BY SessionBounds
<1> SUFFICES ASSUME NEW o \in Nat, o = OpenOf(d), NEW a \in Nat, a = t - o, NEW m \in Nat \ {0}, m = 2 * size,
                    NEW q, q = a \div m
             PROVE  o + 2 * k * size <= t <=> k <= q
  BY <1>1
<1>2. q \in Nat /\ q * m <= a /\ a < q * m + m
  BY ONLY a \in Nat, m \in Nat \ {0}, q = a \div m
<1>3. 2 * k * size = k * m
  BY ONLY k \in Nat, size \in Nat, m = 2 * size
<1>4. ASSUME k <= q PROVE k * m <= q * m
  BY <1>2, <1>4
<1>5. ASSUME k > q PROVE k * m >= q * m + m
  <2>1. k >= q + 1
    BY <1>2, <1>5
  <2>2. k * m >= (q + 1) * m
    BY <1>2, <2>1
  <2> QED BY <1>2, <2>2
<1>6. k * m \in Nat
  OBVIOUS
<1> QED BY <1>2, <1>3, <1>4, <1>5, <1>6
\* The newest close of a bar, found by the clock in the two cases of the code.
LEMMA NewestClose ==
  ASSUME NEW size \in Nat \ {0}, Calendar, NEW c, c = BarClose(now, size)
  PROVE  c \in Closes(size) /\ c <= now /\ \A b \in Closes(size) : b <= now => b <= c
<1> DEFINE d == DayOf(now)
<1>1. d \in Nat /\ 2 * (d * DayLength) <= now /\ now < 2 * ((d + 1) * DayLength) /\ now \in Nat
  BY DayBounds DEF Calendar
<1>2. DayLength \in Nat
  BY SessionInsideDay
<1>3. \A e \in Nat : OpenOf(e) \in Nat /\ CloseOf(e) \in Nat /\ OpenOf(e) < CloseOf(e)
  BY SessionBounds
\* Every close belongs to a trading day.
<1>4. ASSUME NEW b \in Closes(size)
      PROVE  \E e \in calendar.trading : /\ e \in Nat /\ OpenOf(e) < b /\ b <= CloseOf(e) /\ b \in Nat
                                         /\ b = CloseOf(e) \/ \E k \in Nat \ {0} : b = OpenOf(e) + 2 * k * size
  <2>1. CASE \E e \in calendar.trading : b = CloseOf(e)
    BY <1>3, <2>1 DEF Calendar
  <2>2. CASE \E e \in calendar.trading : b \in InnerCloses(e, size)
    <3>1. PICK e \in calendar.trading : b \in InnerCloses(e, size)
      BY <2>2
    <3>2. PICK k \in 1..((CloseOf(e) - OpenOf(e) - 1) \div (2 * size)) : b = OpenOf(e) + 2 * k * size
      BY <3>1 DEF InnerCloses
    <3>3. e \in Nat /\ OpenOf(e) \in Nat /\ CloseOf(e) \in Nat /\ OpenOf(e) < CloseOf(e)
      BY <1>3 DEF Calendar
    <3>4. PICK t \in Nat : t = CloseOf(e) - 1 /\ OpenOf(e) <= t /\ t - OpenOf(e) = CloseOf(e) - OpenOf(e) - 1
      BY <3>3
    <3>5. k \in Nat /\ k >= 1 /\ k <= (t - OpenOf(e)) \div (2 * size)
      <4>1. (t - OpenOf(e)) \div (2 * size) \in Int
        BY <3>3, <3>4
      <4> QED BY <3>2, <3>4, <4>1
    <3>6. b <= t
      BY <3>2, <3>3, <3>4, <3>5, BarsFit
    <3>7. b > OpenOf(e) /\ b \in Nat
      <4>1. 2 * k * size \in Nat /\ 2 * k * size > 0
        BY <3>5
      <4> QED BY <3>2, <3>3, <4>1
    <3> QED BY <3>2, <3>3, <3>4, <3>5, <3>6, <3>7
  <2> QED BY <2>1, <2>2 DEF Closes, InnerCloses
\* What has closed by now did so today or on a day before.
<1>5. ASSUME NEW e \in Nat, OpenOf(e) < now PROVE e <= d
  <2> SUFFICES ASSUME d < e PROVE FALSE
    BY <1>1
  <2>1. (d + 1) * DayLength <= e * DayLength
    BY <1>1, <1>2
  <2>2. 2 * (e * DayLength) <= OpenOf(e)
    BY SessionBounds
  <2>3. (d + 1) * DayLength \in Nat /\ e * DayLength \in Nat /\ OpenOf(e) \in Nat
    BY <1>1, <1>2, <1>3
  <2> QED BY ONLY <1>1, <1>5, <2>1, <2>2, <2>3
<1>6. ASSUME NEW e \in Nat, e < d PROVE CloseOf(e) <= now /\ CloseOf(e) < OpenOf(d)
  <2>1. CloseOf(e) < 2 * (d * DayLength) /\ CloseOf(e) < OpenOf(d)
    BY <1>1, <1>6, DaysInOrder
  <2>2. d * DayLength \in Nat /\ CloseOf(e) \in Nat
    BY <1>1, <1>2, <1>3
  <2> QED BY <1>1, <2>1, <2>2
<1> DEFINE k == BarsDone(now, size)
<1>7. CASE d \in calendar.trading /\ OpenOf(d) <= now /\ now < CloseOf(d) /\ k >= 1
  <2>1. c = OpenOf(d) + k * 2 * size
    BY <1>7 DEF BarClose
  <2>2. k = (now - OpenOf(d)) \div (2 * size) /\ k \in Nat
    BY <1>1, <1>3, <1>7 DEF BarsDone
  <2> HIDE DEF d, k
  <2>3. k * 2 * size = 2 * k * size /\ 2 * k * size \in Nat
    BY <2>2
  <2>4. c <= now
    BY <1>1, <1>7, <2>1, <2>2, <2>3, BarsFit
  <2>5. c \in Closes(size)
    <3>1. PICK t \in Nat : t = CloseOf(d) - 1 /\ OpenOf(d) <= t /\ now <= t /\ t - OpenOf(d) = CloseOf(d) - OpenOf(d) - 1
      BY <1>1, <1>3, <1>7
    <3>2. c \in Nat /\ OpenOf(d) + 2 * k * size <= t
      BY <1>1, <1>3, <2>1, <2>3, <2>4, <3>1
    <3>3. k <= (t - OpenOf(d)) \div (2 * size)
      BY <1>1, <2>2, <3>1, <3>2, BarsFit
    <3>4. (t - OpenOf(d)) \div (2 * size) \in Int
      BY <1>1, <1>3, <3>1
    <3>5. k \in 1..((CloseOf(d) - OpenOf(d) - 1) \div (2 * size))
      BY <1>7, <2>2, <3>1, <3>3, <3>4
    <3> QED BY <1>7, <2>1, <2>3, <3>5 DEF Closes
  <2>6. ASSUME NEW b \in Closes(size), b <= now PROVE b <= c
    <3>1. PICK e \in calendar.trading :
            /\ e \in Nat /\ OpenOf(e) < b /\ b <= CloseOf(e) /\ b \in Nat
            /\ b = CloseOf(e) \/ \E j \in Nat \ {0} : b = OpenOf(e) + 2 * j * size
      BY <1>4
    <3>2. e <= d
      BY <1>1, <1>3, <1>5, <2>6, <3>1
    <3>3. CASE e < d
      <4>1. CloseOf(e) < OpenOf(d) /\ CloseOf(e) \in Nat /\ OpenOf(d) \in Nat
        BY <1>1, <1>3, <1>6, <3>1, <3>3
      <4> QED BY <2>1, <2>3, <3>1, <4>1
    <3>4. CASE e = d
      <4>1. PICK j \in Nat \ {0} : b = OpenOf(d) + 2 * j * size
        BY <1>1, <1>3, <1>7, <2>6, <3>1, <3>4
      <4>2. j <= k
        BY <1>1, <1>7, <2>2, <2>6, <4>1, BarsFit
      <4>3. 2 * j * size <= 2 * k * size
        BY <2>2, <4>2
      <4>4. 2 * j * size \in Nat /\ OpenOf(d) \in Nat
        BY <1>1, <1>3
      <4> QED BY <2>1, <2>3, <4>1, <4>3, <4>4
    <3> QED BY <1>1, <3>1, <3>2, <3>3, <3>4
  <2> QED BY <2>4, <2>5, <2>6
<1>8. CASE ~(d \in calendar.trading /\ OpenOf(d) <= now /\ now < CloseOf(d) /\ k >= 1)
  <2> DEFINE S == {CloseOf(e) : e \in {f \in calendar.trading : CloseOf(f) <= now /\ f <= d}}
  <2>1. c = Max(S)
    BY <1>8 DEF BarClose, SessionClose
  <2>2. CloseOf(0) \in S
    <3>1. CloseOf(0) < 2 * ((0 + 1) * DayLength) /\ CloseOf(0) \in Nat
      BY SessionBounds
    <3>2. CloseOf(0) <= now
      BY <1>1, <1>2, <3>1 DEF Calendar
    <3> QED BY <1>1, <3>2 DEF Calendar
  <2>3. S \subseteq Int /\ \A b \in S : b <= now
    BY <1>3 DEF Calendar
  <2> HIDE DEF S, d, k
  <2>4. c \in S /\ \A b \in S : b <= c
    <3>1. now \in Int /\ S # {}
      BY <1>1, <2>2
    <3>2. Max(S) \in S /\ \A b \in S : b <= Max(S)
      BY ONLY <2>3, <3>1, GreatestNumber
    <3> QED BY <2>1, <3>2
  <2>5. c \in Closes(size) /\ c <= now /\ c \in Int
    BY <2>3, <2>4 DEF S, Closes
  <2>6. ASSUME NEW b \in Closes(size), b <= now PROVE b <= c
    <3>1. PICK e \in calendar.trading :
            /\ e \in Nat /\ OpenOf(e) < b /\ b <= CloseOf(e) /\ b \in Nat
            /\ b = CloseOf(e) \/ \E j \in Nat \ {0} : b = OpenOf(e) + 2 * j * size
      BY <1>4
    <3>2. e <= d /\ CloseOf(e) \in Nat /\ OpenOf(e) \in Nat
      BY <1>1, <1>3, <1>5, <2>6, <3>1
    <3>3. CASE CloseOf(e) <= now
      <4>1. CloseOf(e) \in S
        BY <3>2, <3>3 DEF S
      <4>2. CloseOf(e) <= c
        BY <2>4, <4>1
      <4> QED BY <2>5, <3>1, <3>2, <4>2
    <3>4. CASE now < CloseOf(e)
      <4>1. e = d
        BY <1>1, <1>6, <3>1, <3>2, <3>4
      <4>2. PICK j \in Nat \ {0} : b = OpenOf(d) + 2 * j * size
        BY <1>1, <2>6, <3>1, <3>2, <3>4, <4>1
      <4>3. OpenOf(d) <= now
        BY <1>1, <2>6, <3>1, <3>2, <4>1
      <4>4. j <= (now - OpenOf(d)) \div (2 * size)
        BY <1>1, <2>6, <4>2, <4>3, BarsFit
      <4>5. (now - OpenOf(d)) \div (2 * size) \in Int
        BY <1>1, <3>2, <4>1
      <4>6. k >= 1
        BY <4>4, <4>5 DEF k, BarsDone, d
      <4> QED BY <1>8, <3>1, <3>4, <4>1, <4>3, <4>6
    <3> QED BY <1>1, <3>2, <3>3, <3>4
  <2> QED BY <2>5, <2>6
<1> QED BY <1>7, <1>8

\* The boundary asked of the provider is always the newest close, for any
\* calendar, session and timeframe.
THEOREM ClockAlwaysAgrees == MarketSpec => []ClockAgrees
<1>1. MarketInit => Calendar
  BY SessionInsideDay DEF MarketInit, Calendar
<1>2. Calendar /\ [MarketNext]_marketVars => Calendar'
  <2>1. Calendar /\ NextHalfBar => Calendar'
    BY SessionInsideDay DEF Calendar, NextHalfBar
  <2>2. ASSUME NEW b \in Bars, Calendar, Feed(b) PROVE Calendar'
    BY <2>2 DEF Calendar, Feed
  <2>3. Calendar /\ UNCHANGED marketVars => Calendar'
    BY DEF Calendar, marketVars
  <2> QED BY <2>1, <2>2, <2>3 DEF MarketNext
<1>3. Calendar => ClockAgrees
  <2> SUFFICES ASSUME Calendar, NEW size \in Sizes
               PROVE  BarClose(now, size) = Max({c \in Closes(size) : c <= now})
    BY DEF ClockAgrees
  <2> DEFINE c == BarClose(now, size)
             S == {b \in Closes(size) : b <= now}
  <2>1. size \in Nat \ {0}
    BY SessionInsideDay
  <2>2. c \in Closes(size) /\ c <= now /\ \A b \in Closes(size) : b <= now => b <= c
    BY <2>1, NewestClose
  <2>3. S \subseteq Int
    <3>1. \A d \in calendar.trading : d \in Nat /\ OpenOf(d) \in Nat /\ CloseOf(d) \in Nat
      BY SessionBounds DEF Calendar
    <3> QED BY <2>1, <3>1 DEF Closes
  <2> HIDE DEF c
  <2>4. c \in S /\ \A b \in S : b <= c
    BY <2>2
  <2> HIDE DEF S
  <2>5. \E x \in S : \A y \in S : x >= y
    BY <2>3, <2>4
  <2>6. Max(S) \in S /\ \A y \in S : Max(S) >= y
    BY <2>5 DEF Max
  <2>7. PICK m : m = Max(S)
    OBVIOUS
  <2>8. m \in S /\ c \in S /\ m >= c /\ m <= c
    BY <2>4, <2>6, <2>7
  <2>9. m \in Int /\ c \in Int
    BY <2>3, <2>8
  <2>10. c = m
    BY ONLY <2>8, <2>9
  <2> QED BY <2>7, <2>10 DEF c, S
<1> QED BY <1>1, <1>2, <1>3, PTL DEF MarketSpec

-----------------------------------------------------------------------------
(* The rollup: a window falls into segments, one to a bucket.              *)

\* A bar's bucket, by the size of the bucket and the bar's tick.
LEMMA KeyIs ==
  ASSUME NEW size \in Nat \ {0}, NEW t \in Nat \ {0}, NEW k \in Nat
  PROVE  /\ (t - 1) \div size \in Nat /\ (t - 1) \div size <= t - 1
         /\ (t - 1) \div size = k <=> (k * size < t /\ t <= (k + 1) * size)
<1>1. PICK a \in Nat : a = t - 1
  OBVIOUS
<1>2. PICK q \in Nat : q = a \div size /\ q * size <= a /\ a < q * size + size
  BY <1>1
<1>3. (k + 1) * size = k * size + size /\ k * size \in Nat /\ q * size \in Nat
  OBVIOUS
<1>4. q <= a
  <2>1. q <= q * size
    BY ONLY q \in Nat, size \in Nat \ {0}
  <2> QED BY ONLY <1>2, <1>3, <2>1, a \in Nat
<1>5. ASSUME NEW x \in Nat, NEW y \in Nat, x < y PROVE x * size + size <= y * size
  <2>1. (y - x - 1) * size \in Nat
    BY <1>5
  <2>2. (y - x - 1) * size = y * size - x * size - size
    BY <1>5
  <2>3. x * size \in Nat /\ y * size \in Nat
    OBVIOUS
  <2> QED BY ONLY <2>1, <2>2, <2>3, size \in Nat
<1>6. (q = k) <=> (k * size < t /\ t <= (k + 1) * size)
  <2>1. ASSUME q < k PROVE ~(k * size < t)
    <3>1. q * size + size <= k * size
      BY <1>5, <2>1
    <3> QED BY ONLY <1>1, <1>2, <1>3, <3>1, t \in Nat, size \in Nat
  <2>2. ASSUME k < q PROVE ~(t <= (k + 1) * size)
    <3>1. k * size + size <= q * size
      BY <1>5, <2>2
    <3> QED BY ONLY <1>1, <1>2, <1>3, <3>1, t \in Nat, size \in Nat
  <2>3. ASSUME q = k PROVE k * size < t /\ t <= (k + 1) * size
    BY ONLY <1>1, <1>2, <1>3, <2>3, t \in Nat, size \in Nat
  <2> QED BY <2>1, <2>2, <2>3
<1> QED BY <1>1, <1>2, <1>4, <1>6

Before(p, c) == p.day < c.day \/ (p.day = c.day /\ p.tick < c.tick)

\* A bar is made of numbers.
LEMMA BarsAre ==
  ASSUME NEW b \in Bars
  PROVE  /\ b.day \in FeedDays /\ b.day \in Nat /\ b.tick \in 1..(Close - Open) /\ b.tick \in Nat \ {0}
         /\ b.open \in Int /\ b.high \in Int /\ b.low \in Int /\ b.close \in Int
         /\ Close - Open \in Nat
<1>1. PICK d \in FeedDays, t \in 1..(Close - Open), r \in BOOLEAN, s \in Shapes :
        b = [day |-> d, tick |-> t, right |-> r, open |-> s.open, high |-> s.high, low |-> s.low, close |-> s.close]
  BY DEF Bars
<1>2. s.open \in Int /\ s.high \in Int /\ s.low \in Int /\ s.close \in Int
  BY ShapesAreNumbers
<1>3. FeedDays \subseteq Nat /\ Close - Open \in Nat
  BY SessionInsideDay
<1>4. b.day = d /\ b.tick = t /\ b.open = s.open /\ b.high = s.high /\ b.low = s.low /\ b.close = s.close
  BY <1>1
<1> QED BY <1>2, <1>3, <1>4

\* A bar between two bars of one bucket is in it.
LEMMA KeySqueeze ==
  ASSUME NEW size \in Nat \ {0}, NEW x \in Bars, NEW y \in Bars, NEW z \in Bars,
         x = y \/ Before(x, y), y = z \/ Before(y, z), BucketKey(x, size) = BucketKey(z, size)
  PROVE  BucketKey(y, size) = BucketKey(x, size)
<1>1. x.day = z.day /\ (x.tick - 1) \div size = (z.tick - 1) \div size
  BY DEF BucketKey
<1>2. x.day = y.day /\ x.tick <= y.tick /\ y.tick <= z.tick
  BY <1>1, BarsAre DEF Before
<1>3. PICK k : k = (x.tick - 1) \div size
  OBVIOUS
<1>4. k \in Nat
  BY <1>3, BarsAre, KeyIs
<1>5. k * size < x.tick /\ z.tick <= (k + 1) * size
  BY <1>1, <1>3, <1>4, BarsAre, KeyIs
<1>6. k * size \in Int /\ (k + 1) * size \in Int /\ x.tick \in Int /\ y.tick \in Int /\ z.tick \in Int
  BY <1>4, BarsAre
<1>7. k * size < y.tick /\ y.tick <= (k + 1) * size
  BY ONLY <1>2, <1>5, <1>6
<1>8. (y.tick - 1) \div size = k
  BY <1>4, <1>7, BarsAre, KeyIs
<1> QED BY <1>2, <1>3, <1>8 DEF BucketKey

Accs == [key : Nat \X Nat, day : Nat, tick : Nat, open : Int, high : Int, low : Int, close : Int]

\* acc sums up the bars from a to c.
Made(acc, w, a, c) ==
  /\ acc \in Accs
  /\ acc.day = w[c].day /\ acc.tick = w[c].tick /\ acc.open = w[a].open /\ acc.close = w[c].close
  /\ (\E i \in a..c : acc.high = w[i].high) /\ \A i \in a..c : w[i].high <= acc.high
  /\ (\E i \in a..c : acc.low = w[i].low) /\ \A i \in a..c : acc.low <= w[i].low

\* A bucket starts with its first bar.
LEMMA StartedIs ==
  ASSUME NEW size \in Nat \ {0}, NEW b \in Bars, NEW w, NEW a \in Nat, w[a] = b
  PROVE  Made(Started(b, size), w, a, a) /\ Started(b, size).key = BucketKey(b, size)
<1>1. PICK k \in Nat : k = (b.tick - 1) \div size
  BY BarsAre, KeyIs
<1>2. Started(b, size) = [key |-> <<b.day, k>>, day |-> b.day, tick |-> b.tick,
                         open |-> b.open, high |-> b.high, low |-> b.low, close |-> b.close]
  BY <1>1 DEF Started, BucketKey
<1>3. Started(b, size) \in Accs
  BY <1>2, BarsAre DEF Accs
<1>4. a..a = {a}
  OBVIOUS
<1> QED BY <1>1, <1>2, <1>3, <1>4, BarsAre DEF Made, BucketKey

\* It grows by the next one.
LEMMA GrownIs ==
  ASSUME NEW w, NEW a \in Nat, NEW c \in Nat, a <= c, w[c + 1] \in Bars,
         \A i \in a..c : w[i] \in Bars,
         NEW acc, Made(acc, w, a, c), acc.day = w[c + 1].day
  PROVE  Made(Grown(acc, w[c + 1]), w, a, c + 1) /\ Grown(acc, w[c + 1]).key = acc.key
<1>0. PICK b \in Bars : b = w[c + 1]
  OBVIOUS
<1>1. acc \in Accs /\ acc.high \in Int /\ acc.low \in Int
  BY DEF Made, Accs
<1>2. PICK high \in Int, low \in Int :
        /\ high = Max({acc.high, b.high}) /\ high = IF acc.high >= b.high THEN acc.high ELSE b.high
        /\ low = Min({acc.low, b.low}) /\ low = IF acc.low <= b.low THEN acc.low ELSE b.low
        /\ acc.high <= high /\ b.high <= high /\ low <= acc.low /\ low <= b.low
  <2>1. PICK h \in Int, l \in Int, u \in Int, v \in Int : h = acc.high /\ l = acc.low /\ u = b.high /\ v = b.low
    BY <1>1, BarsAre
  <2>2. Max({h, u}) = (IF h >= u THEN h ELSE u) /\ Min({l, v}) = (IF l <= v THEN l ELSE v)
    BY TwoNumbers
  <2> QED BY <2>1, <2>2
<1>3. PICK g : g = Grown(acc, b)
  OBVIOUS
<1>4. g = [acc EXCEPT !.tick = b.tick, !.close = b.close, !.high = high, !.low = low]
  BY <1>2, <1>3 DEF Grown
<1>5. /\ g \in Accs /\ g.key = acc.key /\ g.day = acc.day /\ g.open = acc.open
      /\ g.tick = b.tick /\ g.close = b.close /\ g.high = high /\ g.low = low
  <2>1. b.tick \in Nat /\ b.close \in Int
    BY BarsAre
  <2> QED BY <1>1, <1>4, <2>1 DEF Accs
<1>6. \A i \in a..(c + 1) : i = c + 1 \/ i \in a..c
  OBVIOUS
<1>7. c + 1 \in a..(c + 1) /\ a..c \subseteq a..(c + 1)
  OBVIOUS
<1>8. \A i \in a..(c + 1) : w[i].high \in Int /\ w[i].low \in Int
  BY <1>0, <1>6, BarsAre
<1>9. (\E i \in a..(c + 1) : high = w[i].high) /\ (\E i \in a..(c + 1) : low = w[i].low)
  <2>1. PICK i \in a..c, j \in a..c : acc.high = w[i].high /\ acc.low = w[j].low
    BY DEF Made
  <2>2. i \in a..(c + 1) /\ j \in a..(c + 1)
    BY <1>7
  <2>3. (high = w[i].high \/ high = w[c + 1].high) /\ (low = w[j].low \/ low = w[c + 1].low)
    BY <1>0, <1>2, <2>1
  <2> QED BY <1>7, <2>2, <2>3
<1>10. ASSUME NEW i \in a..(c + 1) PROVE w[i].high <= high /\ low <= w[i].low
  <2>1. CASE i = c + 1
    BY <1>0, <1>1, <1>2, <2>1, BarsAre
  <2>2. CASE i \in a..c
    <3>1. w[i].high <= acc.high /\ acc.low <= w[i].low
      BY <2>2 DEF Made
    <3> QED BY <1>1, <1>2, <1>8, <3>1, BarsAre
  <2> QED BY <1>6, <2>1, <2>2
<1>11. g.open = w[a].open
  BY <1>5 DEF Made
<1> QED BY <1>0, <1>3, <1>5, <1>9, <1>10, <1>11 DEF Made

\* It does not matter what follows the bars.
LEMMA MadeSame ==
  ASSUME NEW acc, NEW w, NEW v, NEW a \in Nat, NEW c \in Nat, a <= c, \A i \in a..c : v[i] = w[i], Made(acc, w, a, c)
  PROVE  Made(acc, v, a, c)
<1>1. a \in a..c /\ c \in a..c
  OBVIOUS
<1> QED BY <1>1 DEF Made

\* What it says is the aggregate.
LEMMA MadeIs ==
  ASSUME NEW a \in Nat, NEW c \in Nat, a <= c, NEW acc, Made(acc, window, a, c),
         \A i \in a..c : window[i] \in Bars
  PROVE  Aggregate(a..c) = Shown(acc)
<1>1. Min(a..c) = a /\ Max(a..c) = c
  <2>1. a \in a..c /\ c \in a..c /\ \A i \in a..c : a <= i /\ i <= c /\ i \in Int
    OBVIOUS
  <2> QED BY <2>1 DEF Min, Max
<1>2. \A i \in a..c : window[i].high \in Int /\ window[i].low \in Int
  BY BarsAre
<1>3. acc.high \in Int /\ acc.low \in Int
  BY DEF Made, Accs
<1>4. Max({window[i].high : i \in a..c}) = acc.high
  <2> DEFINE H == {window[i].high : i \in a..c}
  <2>1. acc.high \in H /\ \A x \in H : acc.high >= x /\ x \in Int
    BY <1>2, <1>3 DEF Made
  <2> HIDE DEF H
  <2>2. Max(H) \in H /\ \A x \in H : Max(H) >= x
    BY <2>1 DEF Max
  <2>3. PICK m \in H : m = Max(H)
    BY <2>2
  <2>4. m >= acc.high /\ acc.high >= m /\ m \in Int
    BY <2>1, <2>2, <2>3
  <2>5. m = acc.high
    BY ONLY <1>3, <2>4
  <2> QED BY <2>3, <2>5 DEF H
<1>5. Min({window[i].low : i \in a..c}) = acc.low
  <2> DEFINE L == {window[i].low : i \in a..c}
  <2>1. acc.low \in L /\ \A x \in L : acc.low <= x /\ x \in Int
    BY <1>2 DEF Made
  <2> HIDE DEF L
  <2>2. Min(L) \in L /\ \A x \in L : Min(L) <= x
    BY <2>1 DEF Min
  <2>3. PICK m \in L : m = Min(L)
    BY <2>2
  <2>4. m <= acc.low /\ acc.low <= m /\ m \in Int
    BY <2>1, <2>2, <2>3
  <2>5. m = acc.low
    BY ONLY <1>3, <2>4
  <2> QED BY <2>3, <2>5 DEF L
<1> QED BY <1>1, <1>4, <1>5 DEF Aggregate, Shown, Made

-----------------------------------------------------------------------------
(* The segments of a window.                                               *)

\* The first n bars of w fall into segments s[j]..e[j], one to a bucket and one
\* to an emitted bar, and the last is still in progress.
Segments(w, n, size, outs, acc, s, e) ==
  LET m == Len(outs) + 1 IN
  /\ s \in [1..m -> 1..n] /\ e \in [1..m -> 1..n] /\ e[m] = n
  /\ \A j \in 1..m : s[j] <= e[j]
  /\ \A j, l \in 1..m : j < l => e[j] < s[l]
  /\ \A i \in 1..n : \E j \in 1..m : i \in s[j]..e[j]
  /\ \A j \in 1..m : \A i \in s[j]..e[j] : BucketKey(w[i], size) = BucketKey(w[s[j]], size)
  /\ \A j, l \in 1..m : j < l => BucketKey(w[s[j]], size) # BucketKey(w[s[l]], size)
  /\ \A j \in 1..(m - 1) : Made(outs[j], w, s[j], e[j])
  /\ Made(acc, w, s[m], e[m]) /\ acc.key = BucketKey(w[n], size)

Sorted(w) == \A i, j \in 1..Len(w) : i < j => Before(w[i], w[j])

\* The first bar of a window is its first segment.
LEMMA FirstSegment ==
  ASSUME NEW size \in Nat \ {0}, NEW b \in Bars, NEW w, w = <<b>>
  PROVE  \E s, e : Segments(w, 1, size, <<>>, Started(b, size), s, e)
<1> DEFINE s == [j \in 1..1 |-> 1]
<1>1. w[1] = b /\ 1..1 = {1} /\ Len(<<>>) + 1 = 1 /\ 1..(1 - 1) = {}
  OBVIOUS
<1>2. s \in [1..1 -> 1..1] /\ s[1] = 1
  OBVIOUS
<1>3. Made(Started(b, size), w, 1, 1) /\ Started(b, size).key = BucketKey(b, size)
  BY <1>1, StartedIs
<1> HIDE DEF s
<1>4. Segments(w, 1, size, <<>>, Started(b, size), s, s)
  BY <1>1, <1>2, <1>3 DEF Segments
<1> QED BY <1>4

\* A bar of the bucket in progress makes its segment longer.
LEMMA LongerSegment ==
  ASSUME NEW size \in Nat \ {0}, NEW w \in Seq(Bars), NEW n \in Nat \ {0}, n = Len(w), NEW b \in Bars,
         NEW outs \in Seq(Accs), NEW acc, NEW s, NEW e, Segments(w, n, size, outs, acc, s, e),
         acc.key = BucketKey(b, size)
  PROVE  \E f : Segments(Append(w, b), n + 1, size, outs, Grown(acc, b), s, f)
<1>1. PICK m \in Nat \ {0} : m = Len(outs) + 1
  OBVIOUS
<1>2. PICK v \in Seq(Bars) : v = Append(w, b) /\ v[n + 1] = b /\ \A i \in 1..n : v[i] = w[i] /\ w[i] \in Bars
  <2>1. /\ Append(w, b) \in Seq(Bars) /\ Append(w, b)[Len(w) + 1] = b
        /\ \A i \in 1..Len(w) : Append(w, b)[i] = w[i]
    BY AppendProperties
  <2>2. \A i \in 1..Len(w) : w[i] \in Bars
    OBVIOUS
  <2> QED BY <2>1, <2>2
<1> DEFINE f == [e EXCEPT ![m] = n + 1]
<1>3. /\ s \in [1..m -> 1..n] /\ e \in [1..m -> 1..n] /\ e[m] = n
      /\ \A j \in 1..m : s[j] <= e[j]
      /\ \A j, l \in 1..m : j < l => e[j] < s[l]
  BY <1>1 DEF Segments
<1>4. /\ f \in [1..m -> 1..(n + 1)] /\ f[m] = n + 1 /\ \A j \in 1..m : j # m => f[j] = e[j]
      /\ s \in [1..m -> 1..(n + 1)] /\ m \in 1..m
  <2>1. 1..n \subseteq 1..(n + 1) /\ n + 1 \in 1..(n + 1) /\ m \in 1..m
    OBVIOUS
  <2>2. e \in [1..m -> 1..(n + 1)] /\ s \in [1..m -> 1..(n + 1)]
    BY <1>3, <2>1
  <2> QED BY <2>1, <2>2
<1> HIDE DEF f
<1>5. \A j \in 1..m : s[j] <= f[j]
  <2> SUFFICES ASSUME NEW j \in 1..m PROVE s[j] <= f[j]
    OBVIOUS
  <2>1. s[j] \in 1..n
    BY <1>3
  <2>2. CASE j = m
    BY <1>4, <2>1, <2>2
  <2>3. CASE j # m
    BY <1>3, <1>4, <2>3
  <2> QED BY <2>2, <2>3
<1>6. \A j, l \in 1..m : j < l => f[j] < s[l]
  <2> SUFFICES ASSUME NEW j \in 1..m, NEW l \in 1..m, j < l PROVE f[j] < s[l]
    OBVIOUS
  <2>1. j # m
    OBVIOUS
  <2> QED BY <1>3, <1>4, <2>1
<1>7. \A i \in 1..(n + 1) : \E j \in 1..m : i \in s[j]..f[j]
  <2> SUFFICES ASSUME NEW i \in 1..(n + 1) PROVE \E j \in 1..m : i \in s[j]..f[j]
    OBVIOUS
  <2>1. CASE i = n + 1
    <3>1. s[m] \in 1..n
      BY <1>3, <1>4
    <3>2. i \in s[m]..f[m]
      BY <1>4, <2>1, <3>1
    <3> QED BY <1>4, <3>2
  <2>2. CASE i \in 1..n
    <3>1. PICK j \in 1..m : i \in s[j]..e[j]
      BY <1>1, <2>2 DEF Segments
    <3>2. i \in s[j]..f[j]
      <4>1. s[j] \in 1..n /\ e[j] \in 1..n /\ f[j] \in 1..(n + 1) /\ (f[j] = e[j] \/ f[j] = n + 1)
        BY <1>3, <1>4
      <4> QED BY <3>1, <4>1
    <3> QED BY <3>2
  <2> QED BY <2>1, <2>2
<1>8. \A j \in 1..m : s[j] \in 1..n /\ v[s[j]] = w[s[j]]
  BY <1>2, <1>3
<1>9. BucketKey(w[n], size) = BucketKey(b, size) /\ BucketKey(w[s[m]], size) = BucketKey(b, size)
  <2>1. BucketKey(w[n], size) = BucketKey(b, size)
    BY DEF Segments
  <2>2. n \in s[m]..e[m]
    BY <1>3, <1>4
  <2>3. BucketKey(w[n], size) = BucketKey(w[s[m]], size)
    BY <1>1, <1>4, <2>2 DEF Segments
  <2> QED BY <2>1, <2>3
<1>10. \A j \in 1..m : \A i \in s[j]..f[j] : BucketKey(v[i], size) = BucketKey(v[s[j]], size)
  <2> SUFFICES ASSUME NEW j \in 1..m, NEW i \in s[j]..f[j] PROVE BucketKey(v[i], size) = BucketKey(v[s[j]], size)
    OBVIOUS
  <2>1. CASE i \in s[j]..e[j]
    <3>1. i \in 1..n
      BY <1>3, <2>1
    <3>2. BucketKey(w[i], size) = BucketKey(w[s[j]], size)
      BY <1>1, <2>1 DEF Segments
    <3> QED BY <1>2, <1>8, <3>1, <3>2
  <2>2. CASE j = m /\ i = n + 1
    BY <1>2, <1>8, <1>9, <2>2
  <2>3. i \in s[j]..e[j] \/ (j = m /\ i = n + 1)
    <3>1. CASE j = m
      BY <1>3, <1>4, <3>1
    <3>2. CASE j # m
      BY <1>4, <3>2
    <3> QED BY <3>1, <3>2
  <2> QED BY <2>1, <2>2, <2>3
<1>11. \A j, l \in 1..m : j < l => BucketKey(v[s[j]], size) # BucketKey(v[s[l]], size)
  BY <1>1, <1>8 DEF Segments
<1>12. ASSUME NEW x, NEW j \in 1..m, Made(x, w, s[j], e[j]) PROVE Made(x, v, s[j], e[j])
  <2>1. s[j] \in Nat /\ e[j] \in Nat /\ s[j] <= e[j] /\ \A i \in s[j]..e[j] : v[i] = w[i]
    BY <1>2, <1>3
  <2> QED BY <1>12, <2>1, MadeSame
<1>13. \A j \in 1..(m - 1) : Made(outs[j], v, s[j], f[j])
  <2> SUFFICES ASSUME NEW j \in 1..(m - 1) PROVE Made(outs[j], v, s[j], f[j])
    OBVIOUS
  <2>1. j \in 1..m /\ j # m
    OBVIOUS
  <2>2. Made(outs[j], w, s[j], e[j])
    BY <1>1 DEF Segments
  <2> QED BY <1>4, <1>12, <2>1, <2>2
<1>14. Made(Grown(acc, b), v, s[m], f[m]) /\ Grown(acc, b).key = BucketKey(v[n + 1], size)
  <2>1. Made(acc, v, s[m], n)
    BY <1>1, <1>3, <1>4, <1>12 DEF Segments
  <2>2. acc.day = b.day
    <3>1. n \in 1..n
      OBVIOUS
    <3>2. acc.day = w[n].day
      BY <1>2, <2>1, <3>1 DEF Made
    <3> QED BY <1>9, <3>2 DEF BucketKey
  <2>3. s[m] \in Nat /\ s[m] <= n /\ \A i \in s[m]..n : v[i] \in Bars
    BY <1>2, <1>3, <1>4
  <2>4. Made(Grown(acc, b), v, s[m], n + 1) /\ Grown(acc, b).key = acc.key
    <3>1. PICK a \in Nat : a = s[m]
      BY <2>3
    <3>2. Made(acc, v, a, n) /\ a <= n /\ (\A i \in a..n : v[i] \in Bars) /\ v[n + 1] = b /\ acc.day = b.day /\ n \in Nat
      BY <1>2, <2>1, <2>2, <2>3, <3>1
    <3>3. Made(Grown(acc, v[n + 1]), v, a, n + 1) /\ Grown(acc, v[n + 1]).key = acc.key
      <4>1. /\ Made(acc, v, a, n) /\ a <= n /\ (\A i \in a..n : v[i] \in Bars)
            /\ v[n + 1] \in Bars /\ acc.day = v[n + 1].day
        BY <3>2
      <4>2. ASSUME NEW u, (\A i \in a..n : u[i] \in Bars), u[n + 1] \in Bars,
                   Made(acc, u, a, n), a <= n, acc.day = u[n + 1].day
            PROVE  Made(Grown(acc, u[n + 1]), u, a, n + 1) /\ Grown(acc, u[n + 1]).key = acc.key
        BY ONLY <4>2, GrownIs, a \in Nat, n \in Nat \ {0}
      <4> QED BY <4>1, <4>2
    <3>4. Made(Grown(acc, b), v, a, n + 1) /\ Grown(acc, b).key = acc.key
      BY <3>2, <3>3
    <3> QED BY <3>1, <3>4
  <2> QED BY <1>2, <1>4, <2>4
<1>15. Segments(v, n + 1, size, outs, Grown(acc, b), s, f)
  BY <1>1, <1>4, <1>5, <1>6, <1>7, <1>10, <1>11, <1>13, <1>14 DEF Segments
<1> QED BY <1>2, <1>15

\* A bar of another bucket ends the one in progress and begins a segment.
LEMMA NewSegment ==
  ASSUME NEW size \in Nat \ {0}, NEW w \in Seq(Bars), NEW n \in Nat \ {0}, n = Len(w), NEW b \in Bars,
         Sorted(w), Before(w[n], b),
         NEW outs \in Seq(Accs), NEW acc, NEW s, NEW e, Segments(w, n, size, outs, acc, s, e),
         acc.key # BucketKey(b, size)
  PROVE  \E t, f : Segments(Append(w, b), n + 1, size, Append(outs, acc), Started(b, size), t, f)
<1>1. PICK m \in Nat \ {0} : m = Len(outs) + 1
  OBVIOUS
<1>2. PICK v \in Seq(Bars) : v = Append(w, b) /\ v[n + 1] = b /\ \A i \in 1..n : v[i] = w[i] /\ w[i] \in Bars
  <2>1. /\ Append(w, b) \in Seq(Bars) /\ Append(w, b)[Len(w) + 1] = b
        /\ \A i \in 1..Len(w) : Append(w, b)[i] = w[i]
    BY AppendProperties
  <2>2. \A i \in 1..Len(w) : w[i] \in Bars
    OBVIOUS
  <2> QED BY <2>1, <2>2
<1>3. /\ s \in [1..m -> 1..n] /\ e \in [1..m -> 1..n] /\ e[m] = n
      /\ \A j \in 1..m : s[j] <= e[j]
      /\ \A j, l \in 1..m : j < l => e[j] < s[l]
      /\ Made(acc, w, s[m], e[m]) /\ acc.key = BucketKey(w[n], size)
  BY <1>1 DEF Segments
<1>4. PICK more : /\ more = Append(outs, acc) /\ more \in Seq(Accs) /\ Len(more) = m
                  /\ more[m] = acc /\ \A j \in 1..(m - 1) : more[j] = outs[j]
  <2>1. acc \in Accs
    BY <1>3 DEF Made
  <2>2. m - 1 = Len(outs)
    BY <1>1
  <2>3. /\ Append(outs, acc) \in Seq(Accs) /\ Len(Append(outs, acc)) = Len(outs) + 1
        /\ Append(outs, acc)[Len(outs) + 1] = acc /\ \A j \in 1..Len(outs) : Append(outs, acc)[j] = outs[j]
    BY <2>1, AppendProperties
  <2> QED BY <1>1, <2>2, <2>3
<1> DEFINE t == [j \in 1..(m + 1) |-> IF j = m + 1 THEN n + 1 ELSE s[j]]
           f == [j \in 1..(m + 1) |-> IF j = m + 1 THEN n + 1 ELSE e[j]]
<1>5. \A j \in 1..(m + 1) : j = m + 1 \/ j \in 1..m
  OBVIOUS
<1>6. /\ t \in [1..(m + 1) -> 1..(n + 1)] /\ f \in [1..(m + 1) -> 1..(n + 1)]
      /\ t[m + 1] = n + 1 /\ f[m + 1] = n + 1 /\ \A j \in 1..m : t[j] = s[j] /\ f[j] = e[j]
  <2>1. \A j \in 1..m : s[j] \in 1..(n + 1) /\ e[j] \in 1..(n + 1)
    BY <1>3
  <2> QED BY <1>5, <2>1
<1> HIDE DEF t, f
<1>7. \A j \in 1..m : s[j] \in 1..n /\ e[j] \in 1..n /\ s[j] \in Nat /\ e[j] \in Nat
  BY <1>3
<1>8. \A j \in 1..(m + 1) : t[j] <= f[j]
  <2> SUFFICES ASSUME NEW j \in 1..(m + 1) PROVE t[j] <= f[j]
    OBVIOUS
  <2>1. CASE j = m + 1
    BY <1>6, <2>1
  <2>2. CASE j \in 1..m
    BY <1>3, <1>6, <2>2
  <2> QED BY <1>5, <2>1, <2>2
<1>9. \A j, l \in 1..(m + 1) : j < l => f[j] < t[l]
  <2> SUFFICES ASSUME NEW j \in 1..(m + 1), NEW l \in 1..(m + 1), j < l PROVE f[j] < t[l]
    OBVIOUS
  <2>1. j \in 1..m
    OBVIOUS
  <2>2. CASE l = m + 1
    <3>1. f[j] = e[j] /\ e[j] \in 1..n /\ t[l] = n + 1
      BY <1>6, <1>7, <2>1, <2>2
    <3> QED BY <3>1
  <2>3. CASE l \in 1..m
    BY <1>3, <1>6, <2>1, <2>3
  <2> QED BY <1>5, <2>2, <2>3
<1>10. \A i \in 1..(n + 1) : \E j \in 1..(m + 1) : i \in t[j]..f[j]
  <2> SUFFICES ASSUME NEW i \in 1..(n + 1) PROVE \E j \in 1..(m + 1) : i \in t[j]..f[j]
    OBVIOUS
  <2>1. CASE i = n + 1
    <3>1. m + 1 \in 1..(m + 1) /\ i \in t[m + 1]..f[m + 1]
      BY <1>6, <2>1
    <3> QED BY <3>1
  <2>2. CASE i \in 1..n
    <3>1. PICK j \in 1..m : i \in s[j]..e[j]
      BY <1>1, <2>2 DEF Segments
    <3>2. j \in 1..(m + 1) /\ i \in t[j]..f[j]
      BY <1>6, <3>1
    <3> QED BY <3>2
  <2> QED BY <2>1, <2>2
<1>11. \A j \in 1..(m + 1) : \A i \in t[j]..f[j] : BucketKey(v[i], size) = BucketKey(v[t[j]], size)
  <2> SUFFICES ASSUME NEW j \in 1..(m + 1), NEW i \in t[j]..f[j]
               PROVE  BucketKey(v[i], size) = BucketKey(v[t[j]], size)
    OBVIOUS
  <2>1. CASE j = m + 1
    <3>1. i = t[j]
      BY <1>6, <2>1
    <3> QED BY <3>1
  <2>2. CASE j \in 1..m
    <3>1. i \in s[j]..e[j] /\ t[j] = s[j]
      BY <1>6, <2>2
    <3>2. i \in 1..n /\ s[j] \in 1..n
      BY <1>7, <2>2, <3>1
    <3>3. BucketKey(w[i], size) = BucketKey(w[s[j]], size)
      BY <1>1, <2>2, <3>1 DEF Segments
    <3> QED BY <1>2, <3>1, <3>2, <3>3
  <2> QED BY <1>5, <2>1, <2>2
<1>12. \A j, l \in 1..(m + 1) : j < l => BucketKey(v[t[j]], size) # BucketKey(v[t[l]], size)
  <2> SUFFICES ASSUME NEW j \in 1..(m + 1), NEW l \in 1..(m + 1), j < l
               PROVE  BucketKey(v[t[j]], size) # BucketKey(v[t[l]], size)
    OBVIOUS
  <2>1. j \in 1..m
    OBVIOUS
  <2>2. t[j] = s[j] /\ v[t[j]] = w[s[j]] /\ s[j] \in 1..n
    BY <1>2, <1>6, <1>7, <2>1
  <2>3. CASE l \in 1..m
    <3>1. t[l] = s[l] /\ v[t[l]] = w[s[l]]
      BY <1>2, <1>6, <1>7, <2>3
    <3> QED BY <1>1, <2>1, <2>2, <2>3, <3>1 DEF Segments
  <2>4. CASE l = m + 1
    <3>1. v[t[l]] = b
      BY <1>2, <1>6, <2>4
    <3>2. n \in 1..n /\ (s[j] = n \/ s[j] < n)
      BY <2>2
    <3>3. w[s[j]] \in Bars /\ w[n] \in Bars /\ (w[s[j]] = w[n] \/ Before(w[s[j]], w[n]))
      BY <1>2, <2>2, <3>2 DEF Sorted
    <3>4. BucketKey(w[s[j]], size) = BucketKey(b, size) => BucketKey(w[n], size) = BucketKey(w[s[j]], size)
      BY <3>3, KeySqueeze
    <3> QED BY <1>3, <2>2, <3>1, <3>4
  <2> QED BY <1>5, <2>3, <2>4
<1>13. \A j \in 1..m : Made(more[j], v, t[j], f[j])
  <2> SUFFICES ASSUME NEW j \in 1..m PROVE Made(more[j], v, t[j], f[j])
    OBVIOUS
  <2>1. Made(more[j], w, s[j], e[j])
    <3>1. CASE j = m
      BY <1>3, <1>4, <3>1
    <3>2. CASE j # m
      <4>1. j \in 1..(m - 1)
        BY <3>2
      <4>2. Made(outs[j], w, s[j], e[j])
        BY <1>1, <4>1 DEF Segments
      <4> QED BY <1>4, <4>1, <4>2
    <3> QED BY <3>1, <3>2
  <2>2. s[j] \in Nat /\ e[j] \in Nat /\ s[j] <= e[j] /\ \A i \in s[j]..e[j] : v[i] = w[i]
    BY <1>2, <1>3, <1>7
  <2>3. Made(more[j], v, s[j], e[j])
    BY <2>1, <2>2, MadeSame
  <2> QED BY <1>6, <2>3
<1>14. Made(Started(b, size), v, n + 1, n + 1) /\ Started(b, size).key = BucketKey(v[n + 1], size)
  <2>1. n + 1 \in Nat
    OBVIOUS
  <2> QED BY <1>2, <2>1, StartedIs
<1>15. (m + 1) - 1 = m
  OBVIOUS
<1>16. Segments(v, n + 1, size, more, Started(b, size), t, f)
  BY <1>4, <1>6, <1>8, <1>9, <1>10, <1>11, <1>12, <1>13, <1>14, <1>15 DEF Segments
<1> QED BY <1>2, <1>4, <1>16

\* As many intervals as there are numbers for them.
LEMMA CountIntervals ==
  ASSUME NEW m \in Nat, NEW s \in [1..m -> Int], NEW e \in [1..m -> Int],
         \A j \in 1..m : s[j] <= e[j], \A j, l \in 1..m : j < l => e[j] < s[l],
         NEW k \in 0..m
  PROVE  Cardinality({s[j]..e[j] : j \in 1..k}) = k
<1> DEFINE f == [j \in 1..k |-> s[j]..e[j]]
           T == {s[j]..e[j] : j \in 1..k}
<1>1. \A j \in 1..k : j \in 1..m
  OBVIOUS
<1>2. ASSUME NEW j \in 1..k, NEW l \in 1..k, s[j]..e[j] = s[l]..e[l] PROVE j = l
  <2>1. s[j] \in s[j]..e[j] /\ s[l] \in s[l]..e[l] /\ s[j] \in Int /\ s[l] \in Int /\ e[j] \in Int /\ e[l] \in Int
    BY <1>1
  <2>2. s[l] <= e[j] /\ s[j] <= e[l]
    BY <1>2, <2>1
  <2>3. ~(j < l) /\ ~(l < j)
    BY <1>1, <2>1, <2>2
  <2> QED BY <2>3
<1>3. f \in [1..k -> T] /\ (\A j, l \in 1..k : f[j] = f[l] => j = l) /\ (\A J \in T : \E j \in 1..k : f[j] = J)
  BY <1>2
<1> HIDE DEF f, T
<1>4. f \in Bijection(1..k, T)
  BY <1>3 DEF Bijection, Injection, Surjection, IsInjective
<1>5. ExistsBijection(1..k, T)
  BY <1>4 DEF ExistsBijection
<1>6. Cardinality(T) = k
  BY <1>5, FS_CountingElements
<1> QED BY <1>6 DEF T

\* The segments of the window are its buckets.
LEMMA SegmentsAreBuckets ==
  ASSUME NEW size \in Nat \ {0}, window \in Seq(Bars), NEW n \in Nat \ {0}, n = Len(window),
         NEW outs \in Seq(Accs), NEW acc, NEW s, NEW e, Segments(window, n, size, outs, acc, s, e),
         NEW m \in Nat \ {0}, m = Len(outs) + 1
  PROVE  Buckets(size) = {s[j]..e[j] : j \in 1..m}
<1>1. m = Len(outs) + 1
  OBVIOUS
<1>2. /\ s \in [1..m -> 1..n] /\ e \in [1..m -> 1..n]
      /\ \A j \in 1..m : s[j] <= e[j]
      /\ \A i \in 1..n : \E j \in 1..m : i \in s[j]..e[j]
      /\ \A j \in 1..m : \A i \in s[j]..e[j] : BucketKey(window[i], size) = BucketKey(window[s[j]], size)
      /\ \A j, l \in 1..m : j < l => BucketKey(window[s[j]], size) # BucketKey(window[s[l]], size)
  BY <1>1 DEF Segments
<1>3. \A i \in 1..n : window[i] \in Bars
  OBVIOUS
<1>4. ASSUME NEW d, NEW k \in Nat, NEW i \in 1..n
      PROVE  i \in InBucket(d, k, size) <=> BucketKey(window[i], size) = <<d, k>>
  <2>1. window[i].tick \in Nat \ {0}
    BY <1>3, BarsAre
  <2>2. (window[i].tick - 1) \div size = k <=> (k * size < window[i].tick /\ window[i].tick <= (k + 1) * size)
    BY <2>1, KeyIs
  <2>3. i \in InBucket(d, k, size) <=> (window[i].day = d /\ k * size < window[i].tick /\ window[i].tick <= (k + 1) * size)
    BY DEF InBucket
  <2> QED BY <2>2, <2>3 DEF BucketKey
<1>5. ASSUME NEW d, NEW k \in Nat, NEW j \in 1..m, BucketKey(window[s[j]], size) = <<d, k>>
      PROVE  InBucket(d, k, size) = s[j]..e[j]
  <2>1. InBucket(d, k, size) \subseteq 1..n /\ s[j]..e[j] \subseteq 1..n
    <3>1. s[j] \in 1..n /\ e[j] \in 1..n
      BY <1>2
    <3> QED BY <3>1 DEF InBucket
  <2>2. ASSUME NEW i \in s[j]..e[j] PROVE i \in InBucket(d, k, size)
    BY <1>2, <1>4, <1>5, <2>1
  <2>3. ASSUME NEW i \in InBucket(d, k, size) PROVE i \in s[j]..e[j]
    <3>1. i \in 1..n /\ BucketKey(window[i], size) = <<d, k>>
      BY <1>4, <2>1
    <3>2. PICK l \in 1..m : i \in s[l]..e[l]
      BY <1>2, <3>1
    <3>3. BucketKey(window[s[l]], size) = BucketKey(window[s[j]], size)
      BY <1>2, <1>5, <3>1, <3>2
    <3>4. ~(j < l) /\ ~(l < j)
      BY <1>2, <3>3
    <3>5. j = l
      BY <3>4
    <3> QED BY <3>2, <3>5
  <2> QED BY <2>2, <2>3
<1>6. ASSUME NEW j \in 1..m
      PROVE  \E d \in FeedDays, k \in 0..(Close - Open) : BucketKey(window[s[j]], size) = <<d, k>>
  <2>1. s[j] \in 1..n
    BY <1>2
  <2>2. PICK b \in Bars : b = window[s[j]]
    BY <1>3, <2>1
  <2>3. PICK k \in Nat : k = (b.tick - 1) \div size /\ k <= b.tick - 1
    BY BarsAre, KeyIs
  <2>4. b.day \in FeedDays /\ b.tick \in 1..(Close - Open) /\ Close - Open \in Nat
    BY BarsAre
  <2>5. k \in 0..(Close - Open)
    BY <2>3, <2>4
  <2> QED BY <2>2, <2>3, <2>4, <2>5 DEF BucketKey
<1>7. ASSUME NEW j \in 1..m PROVE s[j]..e[j] \in Buckets(size)
  <2>1. PICK d \in FeedDays, k \in 0..(Close - Open) : BucketKey(window[s[j]], size) = <<d, k>>
    BY <1>6
  <2>2. InBucket(d, k, size) = s[j]..e[j]
    BY <1>5, <2>1
  <2>3. s[j] \in s[j]..e[j]
    <3>1. s[j] \in 1..n /\ e[j] \in 1..n /\ s[j] <= e[j]
      BY <1>2
    <3> QED BY <3>1
  <2> QED BY <2>2, <2>3 DEF Buckets
<1>8. ASSUME NEW J \in Buckets(size) PROVE \E j \in 1..m : J = s[j]..e[j]
  <2>1. PICK d \in FeedDays, k \in 0..(Close - Open) : J = InBucket(d, k, size)
    BY DEF Buckets
  <2>2. PICK i : i \in J
    BY DEF Buckets
  <2>3. i \in 1..n /\ k \in Nat
    BY <2>1, <2>2 DEF InBucket
  <2>4. PICK j \in 1..m : i \in s[j]..e[j]
    BY <1>2, <2>3
  <2>5. BucketKey(window[s[j]], size) = <<d, k>>
    BY <1>2, <1>4, <2>1, <2>2, <2>3, <2>4
  <2>6. J = s[j]..e[j]
    BY <1>5, <2>1, <2>3, <2>5
  <2> QED BY <2>6
<1> QED BY <1>7, <1>8

\* What CompleteBuckets says of one timeframe.
Complete(size) ==
  /\ Len(EmittedBars(size)) + 1 = Cardinality(Buckets(size))
  /\ \A I \in Buckets(size) :
       LET before == Cardinality({J \in Buckets(size) : Max(J) < Min(I)}) IN
       Aggregate(I) = IF Len(window) \in I THEN Shown(rolling[size]) ELSE EmittedBars(size)[before + 1]

\* Segments make complete buckets.
LEMMA SegmentsComplete ==
  ASSUME NEW size \in Nat \ {0}, window \in Seq(Bars), NEW n \in Nat \ {0}, n = Len(window),
         rolled[size] \in Seq(Accs), NEW s, NEW e,
         Segments(window, n, size, rolled[size], rolling[size], s, e)
  PROVE  Complete(size)
<1>1. PICK m \in Nat \ {0} : m = Len(rolled[size]) + 1
  OBVIOUS
<1>2. /\ s \in [1..m -> 1..n] /\ e \in [1..m -> 1..n] /\ e[m] = n
      /\ \A j \in 1..m : s[j] <= e[j]
      /\ \A j, l \in 1..m : j < l => e[j] < s[l]
      /\ \A j \in 1..(m - 1) : Made(rolled[size][j], window, s[j], e[j])
      /\ Made(rolling[size], window, s[m], e[m])
  BY <1>1 DEF Segments
<1>3. Buckets(size) = {s[j]..e[j] : j \in 1..m}
  BY <1>1, SegmentsAreBuckets
<1>4. Len(EmittedBars(size)) = m - 1 /\ \A j \in 1..(m - 1) : EmittedBars(size)[j] = Shown(rolled[size][j])
  <2>1. Len(rolled[size]) = m - 1 /\ m - 1 \in Nat
    BY <1>1
  <2> QED BY <2>1 DEF EmittedBars
<1>5. s \in [1..m -> Int] /\ e \in [1..m -> Int]
  BY <1>2
<1>6. ASSUME NEW k \in 0..m PROVE Cardinality({s[j]..e[j] : j \in 1..k}) = k
  BY <1>2, <1>5, CountIntervals
<1>7. Cardinality(Buckets(size)) = m
  BY <1>3, <1>6
<1>8. ASSUME NEW j \in 1..m
      PROVE  /\ s[j] \in 1..n /\ e[j] \in 1..n /\ s[j] <= e[j] /\ Min(s[j]..e[j]) = s[j] /\ Max(s[j]..e[j]) = e[j]
             /\ \A i \in s[j]..e[j] : window[i] \in Bars
  <2>1. s[j] \in 1..n /\ e[j] \in 1..n /\ s[j] <= e[j]
    BY <1>2
  <2>2. s[j] \in s[j]..e[j] /\ e[j] \in s[j]..e[j] /\ \A i \in s[j]..e[j] : i >= s[j] /\ i <= e[j] /\ i \in Int
    BY <2>1
  <2>3. Min(s[j]..e[j]) = s[j] /\ Max(s[j]..e[j]) = e[j]
    BY <2>2 DEF Min, Max
  <2>4. \A i \in s[j]..e[j] : i \in 1..Len(window)
    BY <2>1
  <2> QED BY <2>1, <2>3, <2>4
<1>9. ASSUME NEW j \in 1..m PROVE Cardinality({J \in Buckets(size) : Max(J) < Min(s[j]..e[j])}) = j - 1
  <2>1. {J \in Buckets(size) : Max(J) < Min(s[j]..e[j])} = {s[l]..e[l] : l \in 1..(j - 1)}
    <3>1. ASSUME NEW l \in 1..m PROVE Max(s[l]..e[l]) < Min(s[j]..e[j]) <=> l \in 1..(j - 1)
      <4>1. Max(s[l]..e[l]) < Min(s[j]..e[j]) <=> e[l] < s[j]
        BY <1>8
      <4>2. /\ s[l] \in Int /\ e[l] \in Int /\ s[j] \in Int /\ e[j] \in Int /\ s[l] <= e[l] /\ s[j] <= e[j]
            /\ (l < j => e[l] < s[j]) /\ (j < l => e[j] < s[l])
        BY <1>2, <1>5
      <4>3. e[l] < s[j] <=> l < j
        <5>1. CASE l = j
          BY <4>2, <5>1
        <5>2. CASE l < j
          BY <4>2, <5>2
        <5>3. CASE j < l
          BY <4>2, <5>3
        <5> QED BY <5>1, <5>2, <5>3
      <4> QED BY <4>1, <4>3
    <3>2. \A l \in 1..(j - 1) : l \in 1..m
      OBVIOUS
    <3> QED BY <1>3, <3>1, <3>2
  <2>2. j - 1 \in 0..m
    OBVIOUS
  <2> QED BY <1>6, <2>1, <2>2
<1>10. ASSUME NEW j \in 1..m
       PROVE  Aggregate(s[j]..e[j]) = IF n \in s[j]..e[j] THEN Shown(rolling[size]) ELSE EmittedBars(size)[(j - 1) + 1]
  <2>1. s[j] \in Nat /\ e[j] \in Nat /\ s[j] <= e[j] /\ \A i \in s[j]..e[j] : window[i] \in Bars
    BY <1>8
  <2>2. CASE j = m
    <3>1. n \in s[j]..e[j]
      BY <1>2, <1>8, <2>2
    <3>2. Aggregate(s[j]..e[j]) = Shown(rolling[size])
      BY <1>2, <2>1, <2>2, MadeIs
    <3> QED BY <3>1, <3>2
  <2>3. CASE j # m
    <3>1. j \in 1..(m - 1) /\ (j - 1) + 1 = j /\ m \in 1..m
      BY <2>3
    <3>2. e[j] < s[m] /\ s[m] \in 1..n
      BY <1>2, <3>1
    <3>3. n \notin s[j]..e[j]
      BY <2>1, <3>2
    <3>4. Aggregate(s[j]..e[j]) = Shown(rolled[size][j])
      BY <1>2, <2>1, <3>1, MadeIs
    <3> QED BY <1>4, <3>1, <3>3, <3>4
  <2> QED BY <2>2, <2>3
<1>11. ASSUME NEW I \in Buckets(size)
       PROVE  LET before == Cardinality({J \in Buckets(size) : Max(J) < Min(I)}) IN
              Aggregate(I) = IF Len(window) \in I THEN Shown(rolling[size]) ELSE EmittedBars(size)[before + 1]
  <2>1. PICK j \in 1..m : I = s[j]..e[j]
    BY <1>3
  <2> QED BY <1>9, <1>10, <2>1
<1>12. Len(EmittedBars(size)) + 1 = Cardinality(Buckets(size))
  BY <1>4, <1>7
<1> QED BY <1>11, <1>12 DEF Complete

MarketInv ==
  /\ now \in 0..(2 * DayLength * (LastDay + 1)) /\ calendar.half \subseteq calendar.trading
  /\ window \in Seq(Bars) /\ Len(window) <= FeedLength /\ Sorted(window)
  /\ rolled \in [Sizes -> Seq(Accs)]
  /\ \A size \in Sizes :
       IF window = <<>> THEN rolling[size] = <<>> /\ rolled[size] = <<>>
       ELSE \E s, e : Segments(window, Len(window), size, rolled[size], rolling[size], s, e)

\* No bar is accepted at the start.
LEMMA MarketInitInvariant == MarketInit => MarketInv
<1> SUFFICES ASSUME MarketInit PROVE MarketInv
  OBVIOUS
<1>1. DayLength \in Nat /\ LastDay \in Nat /\ FeedLength \in Nat
  BY SessionInsideDay
<1>2. now \in 0..(2 * DayLength * (LastDay + 1))
  <2>1. now = 2 * DayLength
    BY DEF MarketInit
  <2>2. DayLength * LastDay \in Nat
    BY <1>1
  <2>3. 2 * DayLength * (LastDay + 1) = 2 * (DayLength * LastDay) + 2 * DayLength
    BY <1>1
  <2> QED BY <1>1, <2>1, <2>2, <2>3
<1>3. window = <<>> /\ rolled = [size \in Sizes |-> <<>>] /\ rolling = [size \in Sizes |-> <<>>]
  BY DEF MarketInit
<1>4. window \in Seq(Bars) /\ Len(window) = 0 /\ Sorted(window) /\ rolled \in [Sizes -> Seq(Accs)]
  BY <1>3 DEF Sorted
<1>5. calendar.half \subseteq calendar.trading
  BY DEF MarketInit
<1> QED BY <1>1, <1>2, <1>3, <1>4, <1>5 DEF MarketInv

\* A bar that the sentinel accepts follows the others.
LEMMA AcceptedFollows ==
  ASSUME NEW w \in Seq(Bars), Sorted(w), NEW b \in Bars, Acceptable5m(Append(w, b))
  PROVE  Sorted(Append(w, b)) /\ (w # <<>> => Before(w[Len(w)], b))
<1>1. PICK v \in Seq(Bars), n \in Nat : /\ v = Append(w, b) /\ n = Len(w) /\ Len(v) = n + 1 /\ v[n + 1] = b
                                        /\ \A i \in 1..n : v[i] = w[i] /\ w[i] \in Bars
  <2>1. /\ Append(w, b) \in Seq(Bars) /\ Len(Append(w, b)) = Len(w) + 1 /\ Append(w, b)[Len(w) + 1] = b
        /\ \A i \in 1..Len(w) : Append(w, b)[i] = w[i]
    BY AppendProperties
  <2>2. (\A i \in 1..Len(w) : w[i] \in Bars) /\ Len(w) \in Nat
    OBVIOUS
  <2> QED BY <2>1, <2>2
<1>2. n > 0 => Before(w[n], b)
  <2>1. n > 0 => n \in 1..(Len(v) - 1) /\ n \in 1..n
    BY <1>1
  <2>2. n > 0 => InOrder(v[n], v[n + 1])
    BY <1>1, <2>1 DEF Acceptable5m
  <2> QED BY <1>1, <2>1, <2>2 DEF InOrder, Before
<1>3. ASSUME NEW i \in 1..(n + 1), NEW j \in 1..(n + 1), i < j PROVE Before(v[i], v[j])
  <2>1. i \in 1..n /\ v[i] = w[i] /\ w[i] \in Bars
    BY <1>1, <1>3
  <2>2. CASE j \in 1..n
    BY <1>1, <1>3, <2>1, <2>2 DEF Sorted
  <2>3. CASE j = n + 1
    <3>1. CASE i = n
      BY <1>1, <1>2, <2>1, <2>3, <3>1
    <3>2. CASE i < n
      <4>1. n \in 1..n /\ w[n] \in Bars /\ Before(w[i], w[n]) /\ Before(w[n], b)
        BY <1>1, <1>2, <2>1, <3>2 DEF Sorted
      <4>2. Before(w[i], b)
        <5>1. PICK d1 \in Nat, t1 \in Nat, d2 \in Nat, t2 \in Nat, d3 \in Nat, t3 \in Nat :
                /\ d1 = w[i].day /\ t1 = w[i].tick /\ d2 = w[n].day /\ t2 = w[n].tick /\ d3 = b.day /\ t3 = b.tick
          BY <2>1, <4>1, BarsAre
        <5>2. (d1 < d2 \/ (d1 = d2 /\ t1 < t2)) /\ (d2 < d3 \/ (d2 = d3 /\ t2 < t3))
          BY <4>1, <5>1 DEF Before
        <5>3. d1 < d3 \/ (d1 = d3 /\ t1 < t3)
          BY ONLY <5>2, d1 \in Nat, t1 \in Nat, d2 \in Nat, t2 \in Nat, d3 \in Nat, t3 \in Nat
        <5> QED BY ONLY <5>1, <5>3 DEF Before
      <4> QED BY <1>1, <2>1, <2>3, <4>2
    <3> QED BY <2>1, <3>1, <3>2
  <2> QED BY <2>2, <2>3
<1>4. Sorted(v)
  BY <1>1, <1>3 DEF Sorted
<1>5. w # <<>> => n > 0
  BY <1>1
<1> QED BY <1>1, <1>2, <1>4, <1>5

\* What the roller does with a bar, for one timeframe.
LEMMA RollKeeps ==
  ASSUME NEW size \in Sizes, NEW w \in Seq(Bars), Sorted(w), NEW b \in Bars, Acceptable5m(Append(w, b)),
         NEW outs \in Seq(Accs), outs = rolled[size], NEW acc, acc = rolling[size],
         IF w = <<>> THEN acc = <<>> /\ outs = <<>>
         ELSE \E s, e : Segments(w, Len(w), size, outs, acc, s, e)
  PROVE  LET r == Roll(b, size) IN
         /\ outs \o r.out \in Seq(Accs)
         /\ \E s, e : Segments(Append(w, b), Len(w) + 1, size, outs \o r.out, r.acc, s, e)
<1>1. size \in Nat \ {0} /\ Len(w) \in Nat
  BY SessionInsideDay
<1>2. PICK r : r = Roll(b, size)
  OBVIOUS
<1>3. outs \o <<>> = outs
  OBVIOUS
<1>4. CASE w = <<>>
  <2>1. r = [acc |-> Started(b, size), out |-> <<>>] /\ outs = <<>> /\ outs \o <<>> = <<>>
    BY <1>2, <1>3, <1>4 DEF Roll
  <2>2. Append(w, b) = <<b>> /\ Len(w) + 1 = 1
    BY <1>4
  <2>3. \E s, e : Segments(<<b>>, 1, size, <<>>, Started(b, size), s, e)
    BY <1>1, FirstSegment
  <2> QED BY <1>2, <2>1, <2>2, <2>3
<1>5. CASE w # <<>>
  <2>1. PICK s, e : Segments(w, Len(w), size, outs, acc, s, e)
    BY <1>5
  <2>2. PICK n \in Nat \ {0} : n = Len(w)
    BY <1>1, <1>5
  <2>3. acc \in Accs
    BY <2>1 DEF Segments, Made
  <2>4. acc # <<>>
    <3>1. "day" \in DOMAIN acc
      BY <2>3 DEF Accs
    <3>2. DOMAIN <<>> = {}
      OBVIOUS
    <3> QED BY <3>1, <3>2
  <2>5. CASE acc.key = BucketKey(b, size)
    <3>1. r = [acc |-> Grown(acc, b), out |-> <<>>]
      BY <1>2, <2>4, <2>5 DEF Roll
    <3>2. \E f : Segments(Append(w, b), n + 1, size, outs, Grown(acc, b), s, f)
      BY <1>1, <2>1, <2>2, <2>5, LongerSegment
    <3> QED BY <1>2, <1>3, <2>2, <3>1, <3>2
  <2>6. CASE acc.key # BucketKey(b, size)
    <3>1. r = [acc |-> Started(b, size), out |-> <<acc>>]
      BY <1>2, <2>4, <2>6 DEF Roll
    <3>2. Before(w[n], b)
      BY <1>5, <2>2, AcceptedFollows
    <3>3. \E t, f : Segments(Append(w, b), n + 1, size, Append(outs, acc), Started(b, size), t, f)
      BY <1>1, <2>1, <2>2, <2>6, <3>2, NewSegment
    <3>4. outs \o <<acc>> = Append(outs, acc) /\ Append(outs, acc) \in Seq(Accs)
      BY <2>3, AppendIsConcat, AppendProperties
    <3>5. r.acc = Started(b, size) /\ r.out = <<acc>>
      BY <3>1
    <3>6. outs \o r.out = Append(outs, acc)
      BY <3>4, <3>5
    <3>7. outs \o r.out \in Seq(Accs)
      BY <3>4, <3>6
    <3>8. \E t, f : Segments(Append(w, b), Len(w) + 1, size, outs \o r.out, r.acc, t, f)
      BY ONLY <2>2, <3>3, <3>5, <3>6
    <3> QED BY ONLY <1>2, <3>7, <3>8
  <2> QED BY <2>5, <2>6
<1> QED BY <1>4, <1>5

\* A bar that the sentinel accepts makes a segment longer or begins one; a bar
\* it refuses changes nothing.
LEMMA FeedInvariant ==
  ASSUME MarketInv, NEW b \in Bars, Feed(b)
  PROVE  MarketInv'
<1>1. now' = now /\ calendar' = calendar
  BY DEF Feed
<1>2. CASE UNCHANGED <<window, rolling, rolled>>
  BY <1>1, <1>2 DEF MarketInv
<1>3. CASE /\ Acceptable5m(Append(window, b)) /\ window' = Append(window, b)
           /\ rolling' = [size \in Sizes |-> Roll(b, size).acc]
           /\ rolled' = [size \in Sizes |-> rolled[size] \o Roll(b, size).out]
  <2>1. window \in Seq(Bars) /\ Sorted(window) /\ Len(window) \in Nat /\ Len(window) < FeedLength /\ FeedLength \in Nat
    BY SessionInsideDay DEF MarketInv, Feed
  <2>2. /\ window' \in Seq(Bars) /\ Len(window') = Len(window) + 1 /\ window' # <<>>
    BY <1>3, <2>1, AppendProperties
  <2>3. Sorted(window')
    BY <1>3, <2>1, AcceptedFollows
  <2>4. ASSUME NEW size \in Sizes
        PROVE  /\ rolled[size] \o Roll(b, size).out \in Seq(Accs)
               /\ \E s, e : Segments(window', Len(window'), size, rolled[size] \o Roll(b, size).out, Roll(b, size).acc, s, e)
    <3>1. rolled[size] \in Seq(Accs)
      BY DEF MarketInv
    <3>2. IF window = <<>> THEN rolling[size] = <<>> /\ rolled[size] = <<>>
          ELSE \E s, e : Segments(window, Len(window), size, rolled[size], rolling[size], s, e)
      BY DEF MarketInv
    <3>3. /\ rolled[size] \o Roll(b, size).out \in Seq(Accs)
          /\ \E s, e : Segments(Append(window, b), Len(window) + 1, size, rolled[size] \o Roll(b, size).out, Roll(b, size).acc, s, e)
      BY <1>3, <2>1, <3>1, <3>2, RollKeeps
    <3> QED BY <1>3, <2>2, <3>3
  <2>5. rolled' \in [Sizes -> Seq(Accs)]
    BY <1>3, <2>4
  <2>6. ASSUME NEW size \in Sizes
        PROVE  \E s, e : Segments(window', Len(window'), size, rolled'[size], rolling'[size], s, e)
    <3>1. rolled'[size] = rolled[size] \o Roll(b, size).out /\ rolling'[size] = Roll(b, size).acc
      BY <1>3
    <3> QED BY <2>4, <3>1
  <2>7. now' \in 0..(2 * DayLength * (LastDay + 1)) /\ calendar'.half \subseteq calendar'.trading
    BY <1>1 DEF MarketInv
  <2>8. Len(window') <= FeedLength
    BY <2>1, <2>2
  <2> QED BY <2>2, <2>3, <2>5, <2>6, <2>7, <2>8 DEF MarketInv
<1> QED BY <1>2, <1>3 DEF Feed

\* The clock does not touch the window.
LEMMA NextHalfBarInvariant == MarketInv /\ NextHalfBar => MarketInv'
<1> SUFFICES ASSUME MarketInv, NextHalfBar PROVE MarketInv'
  OBVIOUS
<1>1. PICK top \in Nat : top = 2 * DayLength * (LastDay + 1)
  BY SessionInsideDay
<1>2. now \in 0..top /\ now < top - 1 /\ now' = now + 1
  BY <1>1 DEF MarketInv, NextHalfBar
<1>3. now' \in 0..(2 * DayLength * (LastDay + 1))
  BY <1>1, <1>2
<1> QED BY <1>3 DEF MarketInv, NextHalfBar

\* There are no more segments than bars.
LEMMA FewerSegments ==
  ASSUME NEW w, NEW n \in Nat, NEW size, NEW outs \in Seq(Accs), NEW acc, NEW s, NEW e,
         Segments(w, n, size, outs, acc, s, e)
  PROVE  Len(outs) <= n
<1>1. PICK m \in Nat : m = Len(outs) + 1
  OBVIOUS
<1>2. s \in [1..m -> 1..n] /\ (\A j \in 1..m : s[j] <= e[j]) /\ e \in [1..m -> 1..n]
      /\ \A j, l \in 1..m : j < l => e[j] < s[l]
  BY <1>1 DEF Segments
<1>3. ASSUME NEW j \in 1..m, NEW l \in 1..m, s[j] = s[l] PROVE j = l
  <2>1. s[j] \in Int /\ e[j] \in Int /\ s[l] \in Int /\ e[l] \in Int
    BY <1>2
  <2>2. ~(j < l) /\ ~(l < j)
    BY <1>2, <1>3, <2>1
  <2> QED BY <2>2
<1>4. s \in Injection(1..m, 1..n)
  BY <1>2, <1>3 DEF Injection, IsInjective
<1>5. IsFiniteSet(1..n) /\ Cardinality(1..n) = n /\ Cardinality(1..m) = m
  BY FS_Interval
<1>6. m <= n
  BY <1>4, <1>5, FS_Injection
<1> QED BY <1>1, <1>6

\* What the invariant says of the types: no more bars than were accepted.
LEMMA MarketTypes == MarketInv => MarketTypeOK
<1> SUFFICES ASSUME MarketInv PROVE MarketTypeOK
  OBVIOUS
<1>1. ASSUME NEW size \in Sizes PROVE Len(rolled[size]) <= Len(window)
  <2>1. rolled[size] \in Seq(Accs) /\ Len(window) \in Nat
    BY DEF MarketInv
  <2>2. CASE window = <<>>
    <3>1. rolled[size] = <<>>
      BY <2>2 DEF MarketInv
    <3> QED BY <2>2, <3>1
  <2>3. CASE window # <<>>
    <3>1. PICK s, e : Segments(window, Len(window), size, rolled[size], rolling[size], s, e)
      BY <2>3 DEF MarketInv
    <3> QED BY <2>1, <3>1, FewerSegments
  <2> QED BY <2>2, <2>3
<1> QED BY <1>1 DEF MarketInv, MarketTypeOK

\* What the invariant says of the buckets.
LEMMA MarketCompletes == MarketInv => CompleteBuckets
<1> SUFFICES ASSUME MarketInv, NEW size \in Sizes, window # <<>> PROVE Complete(size)
  BY DEF CompleteBuckets, Complete
<1>1. size \in Nat \ {0} /\ window \in Seq(Bars) /\ rolled[size] \in Seq(Accs)
  BY SessionInsideDay DEF MarketInv
<1>2. PICK s, e : Segments(window, Len(window), size, rolled[size], rolling[size], s, e)
  BY DEF MarketInv
<1>3. PICK n \in Nat \ {0} : n = Len(window)
  BY <1>1
<1> QED BY <1>1, <1>2, <1>3, SegmentsComplete

\* Whatever bars arrive and are refused, the window stays sorted and the roller
\* holds its segments.
THEOREM MarketInvariant == MarketSpec => []MarketInv
<1>1. MarketInv /\ [MarketNext]_marketVars => MarketInv'
  <2> SUFFICES ASSUME MarketInv, [MarketNext]_marketVars PROVE MarketInv'
    OBVIOUS
  <2>1. CASE NextHalfBar
    BY <2>1, NextHalfBarInvariant
  <2>2. CASE \E b \in Bars : Feed(b)
    BY <2>2, FeedInvariant
  <2>3. CASE UNCHANGED marketVars
    BY <2>3 DEF marketVars, MarketInv
  <2> QED BY <2>1, <2>2, <2>3 DEF MarketNext
<1> QED BY <1>1, MarketInitInvariant, PTL DEF MarketSpec

\* The clock stays within its days, and no timeframe emits more bars than were
\* accepted.
THEOREM MarketTypeCorrect == MarketSpec => []MarketTypeOK
BY MarketInvariant, MarketTypes, PTL

\* TimeframeRoller.update, for every set of timeframes and every window that
\* the sentinel accepts: each bucket is emitted once, in order, made of exactly
\* its own bars, and not before the next bucket begins.
THEOREM BucketsAreComplete == MarketSpec => []CompleteBuckets
BY MarketInvariant, MarketCompletes, PTL

-----------------------------------------------------------------------------
(* Strategies: the levels of a plan.                                       *)

\* The stop of a plan lies on its losing side, its three targets one beyond the
\* other.
Geometric(p) ==
  /\ Beyond(p.long, p.stop, p.entry)
  /\ Beyond(p.long, p.entry, p.targets[1])
  /\ Beyond(p.long, p.targets[1], p.targets[2]) /\ Beyond(p.long, p.targets[2], p.targets[3])
  /\ Len(p.targets) = 3

\* Three multiples of a step, one by one.
LEMMA MultiplesAre ==
  ASSUME NEW from, NEW long, NEW step, NEW q, Len(q) = 3, NEW m, m = Multiples(from, long, step, q)
  PROVE  /\ Len(m) = 3
         /\ m[1] = from + Side(long) * ((q[1] * step) \div 100)
         /\ m[2] = from + Side(long) * ((q[2] * step) \div 100)
         /\ m[3] = from + Side(long) * ((q[3] * step) \div 100)
<1>1. m = [i \in 1..3 |-> from + Side(long) * Part(q[i], step)]
  BY DEF Multiples
<1> QED BY <1>1 DEF Part

\* A warm average true range divides by every factor of the strategies.
LEMMA RangeIsExact ==
  ASSUME NEW atr \in Nat \ {0}, atr % Unit = 0
  PROVE  \E n \in Nat \ {0} : /\ atr = 20 * n
                              /\ (15 * atr) \div 100 = 3 * n /\ (25 * atr) \div 100 = 5 * n /\ (75 * atr) \div 100 = 15 * n
                              /\ (80 * atr) \div 100 = 16 * n /\ (100 * atr) \div 100 = 20 * n /\ (150 * atr) \div 100 = 30 * n
                              /\ (160 * atr) \div 100 = 32 * n /\ (180 * atr) \div 100 = 36 * n /\ (280 * atr) \div 100 = 56 * n
                              /\ (300 * atr) \div 100 = 60 * n /\ (500 * atr) \div 100 = 100 * n
<1>1. atr % 20 = 0
  BY DEF Unit
<1>2. atr = 20 * (atr \div 20) /\ atr \div 20 \in Nat \ {0}
  BY ONLY <1>1, atr \in Nat \ {0}
<1> SUFFICES ASSUME NEW n \in Nat \ {0}, atr = 20 * n
             PROVE  /\ (15 * atr) \div 100 = 3 * n /\ (25 * atr) \div 100 = 5 * n /\ (75 * atr) \div 100 = 15 * n
                    /\ (80 * atr) \div 100 = 16 * n /\ (100 * atr) \div 100 = 20 * n /\ (150 * atr) \div 100 = 30 * n
                    /\ (160 * atr) \div 100 = 32 * n /\ (180 * atr) \div 100 = 36 * n /\ (280 * atr) \div 100 = 56 * n
                    /\ (300 * atr) \div 100 = 60 * n /\ (500 * atr) \div 100 = 100 * n
  BY <1>2
<1> QED BY ONLY n \in Nat \ {0}, atr = 20 * n

ReadingSet == UNION {Readings[k] : k \in DOMAIN Readings}

\* A plan's targets, and the side its levels lie on.
Leveled(p, long, entry, stop, one, two, three) ==
  /\ p.long = long /\ p.entry = entry /\ p.stop = stop
  /\ Len(p.targets) = 3 /\ p.targets[1] = one /\ p.targets[2] = two /\ p.targets[3] = three

\* The levels of a plan whose targets are multiples of one step.
LEMMA PlanIs ==
  ASSUME NEW s, NEW long, NEW entry, NEW stop, NEW from, NEW step, NEW q, Len(q) = 3,
         NEW p, p = Plan(s, long, entry, stop, Multiples(from, long, step, q))
  PROVE  /\ Leveled(p, long, entry, stop, from + Side(long) * ((q[1] * step) \div 100),
                    from + Side(long) * ((q[2] * step) \div 100), from + Side(long) * ((q[3] * step) \div 100))
         /\ p.pop <=> s \in {"PULLBACK_CONTINUATION", "PULLBACK_CONTINUATION_MACD"}
<1> DEFINE m == Multiples(from, long, step, q)
<1>1. /\ Len(m) = 3
      /\ m[1] = from + Side(long) * ((q[1] * step) \div 100)
      /\ m[2] = from + Side(long) * ((q[2] * step) \div 100)
      /\ m[3] = from + Side(long) * ((q[3] * step) \div 100)
  BY MultiplesAre
<1>2. /\ p.long = long /\ p.entry = entry /\ p.stop = stop /\ p.targets = m
      /\ p.pop <=> s \in {"PULLBACK_CONTINUATION", "PULLBACK_CONTINUATION_MACD"}
  BY DEF Plan
<1> HIDE DEF m
<1> QED BY <1>1, <1>2 DEF Leveled

\* Levels hung on the range, and an entry that may lie far beyond it: the gate
\* on the second target is what keeps the first one ahead.
LEMMA OrbLevels ==
  ASSUME NEW r \in ReadingSet, r.kind = "orb", NEW p \in Orb(r), WorthItsRisk(p)
  PROVE  Geometric(p)
<1>1. r.high \in Nat /\ r.low \in Nat /\ r.closes \in [1..3 -> Nat]
  BY ReadingsAreBars DEF ReadingSet
<1> DEFINE w == r.high - r.low
           level(d) == IF d THEN r.high ELSE r.low
<1>2. PICK d \in BOOLEAN :
        /\ p = Plan("ORB_BREAKOUT", d, r.closes[3],
                    IF d THEN r.high - Part(35, w) ELSE r.low + Part(35, w),
                    Multiples(level(d), d, w, <<50, 100, 175>>))
        /\ r.high > r.low /\ Beyond(d, level(d), r.closes[3])
  BY DEF Orb
<1>3. level(d) \in Int /\ w \in Nat \ {0}
  BY <1>1, <1>2
<1>4. /\ Leveled(p, d, r.closes[3], IF d THEN r.high - Part(35, w) ELSE r.low + Part(35, w),
                 level(d) + Side(d) * ((50 * w) \div 100),
                 level(d) + Side(d) * ((100 * w) \div 100), level(d) + Side(d) * ((175 * w) \div 100))
      /\ ~p.pop
  <2> HIDE DEF level, w
  <2> DEFINE q == <<50, 100, 175>>
  <2>1. Len(q) = 3 /\ q[1] = 50 /\ q[2] = 100 /\ q[3] = 175
    OBVIOUS
  <2>2. p = Plan("ORB_BREAKOUT", d, r.closes[3], IF d THEN r.high - Part(35, w) ELSE r.low + Part(35, w),
                 Multiples(level(d), d, w, q))
    BY <1>2
  <2> HIDE DEF q, w, level
  <2>3. /\ Leveled(p, d, r.closes[3], IF d THEN r.high - Part(35, w) ELSE r.low + Part(35, w),
                   level(d) + Side(d) * ((q[1] * w) \div 100),
                   level(d) + Side(d) * ((q[2] * w) \div 100), level(d) + Side(d) * ((q[3] * w) \div 100))
        /\ p.pop <=> "ORB_BREAKOUT" \in {"PULLBACK_CONTINUATION", "PULLBACK_CONTINUATION_MACD"}
    BY ONLY <2>1, <2>2, PlanIs
  <2> QED BY <2>1, <2>3
<1>5. Distance(p.targets[2], p.entry) >= 2 * Distance(p.entry, p.stop)
  BY <1>4 DEF WorthItsRisk
<1> SUFFICES ASSUME NEW v \in Nat \ {0}, v = w, NEW l \in Int, l = level(d), NEW e \in Int, e = r.closes[3],
                    Side(d) * (e - l) > 0,
                    Distance(l + Side(d) * ((100 * v) \div 100), e) >= 2 * Distance(e, l - Side(d) * ((35 * v) \div 100)),
                    Leveled(p, d, e, l - Side(d) * ((35 * v) \div 100), l + Side(d) * ((50 * v) \div 100),
                            l + Side(d) * ((100 * v) \div 100), l + Side(d) * ((175 * v) \div 100))
             PROVE  Geometric(p)
  <2>1. (IF d THEN r.high - Part(35, w) ELSE r.low + Part(35, w)) = level(d) - Side(d) * ((35 * w) \div 100)
    BY <1>1 DEF Part, Side
  <2>2. r.closes[3] \in Int
    BY <1>1
  <2>3. Side(d) * (r.closes[3] - level(d)) > 0
    BY <1>2 DEF Beyond
  <2>4. Leveled(p, d, r.closes[3], level(d) - Side(d) * ((35 * w) \div 100),
                level(d) + Side(d) * ((50 * w) \div 100),
                level(d) + Side(d) * ((100 * w) \div 100), level(d) + Side(d) * ((175 * w) \div 100))
    BY <1>4, <2>1
  <2>5. Distance(level(d) + Side(d) * ((100 * w) \div 100), r.closes[3])
          >= 2 * Distance(r.closes[3], level(d) - Side(d) * ((35 * w) \div 100))
    BY <1>5, <2>4 DEF Leveled
  <2> HIDE DEF level, w
  <2> QED BY <1>3, <2>2, <2>3, <2>4, <2>5
<1>6. CASE d = TRUE
  BY <1>6 DEF Geometric, Leveled, Beyond, Side, Distance
<1>7. CASE d = FALSE
  BY <1>7 DEF Geometric, Leveled, Beyond, Side, Distance
<1> QED BY <1>6, <1>7

\* Targets that are multiples of a step, counted from the entry.
LEMMA StepLevels ==
  ASSUME NEW d \in BOOLEAN, NEW e \in Int, NEW stop, Beyond(d, stop, e),
         NEW x \in Int, NEW y \in Int, NEW z \in Int, 0 < x, x < y, y < z,
         NEW p, Leveled(p, d, e, stop, e + Side(d) * x, e + Side(d) * y, e + Side(d) * z)
  PROVE  Geometric(p)
<1>1. Beyond(d, e, e + Side(d) * x) /\ Beyond(d, e + Side(d) * x, e + Side(d) * y)
      /\ Beyond(d, e + Side(d) * y, e + Side(d) * z)
  BY DEF Beyond, Side
<1> QED BY <1>1 DEF Geometric, Leveled

\* The average true range that a gate has seen is warm.
LEMMA RangeOf ==
  ASSUME NEW r \in ReadingSet, r.atr # Cold
  PROVE  \E n \in Nat \ {0} : /\ r.atr = 20 * n
                              /\ (15 * r.atr) \div 100 = 3 * n /\ (25 * r.atr) \div 100 = 5 * n /\ (75 * r.atr) \div 100 = 15 * n
                              /\ (80 * r.atr) \div 100 = 16 * n /\ (100 * r.atr) \div 100 = 20 * n /\ (150 * r.atr) \div 100 = 30 * n
                              /\ (160 * r.atr) \div 100 = 32 * n /\ (180 * r.atr) \div 100 = 36 * n /\ (280 * r.atr) \div 100 = 56 * n
                              /\ (300 * r.atr) \div 100 = 60 * n /\ (500 * r.atr) \div 100 = 100 * n
<1>1. r.atr \in Nat \ {0} /\ r.atr % Unit = 0
  BY ReadingsAreBars DEF ReadingSet
<1> QED BY <1>1, RangeIsExact

\* A pullback to the nine bar average: the stop is a quarter range behind it.
LEMMA PullbackLevels ==
  ASSUME NEW r \in ReadingSet, r.kind = "pullback", r.atr # Cold, NEW p \in Pullback9(r)
  PROVE  Geometric(p)
<1>1. r.ema9 \in Nat /\ r.ema21 \in Nat /\ r.close \in Nat
  BY ReadingsAreBars DEF ReadingSet
<1>2. PICK n \in Nat \ {0} : (25 * r.atr) \div 100 = 5 * n /\ (100 * r.atr) \div 100 = 20 * n
                             /\ (180 * r.atr) \div 100 = 36 * n /\ (300 * r.atr) \div 100 = 60 * n
  BY RangeOf
<1> DEFINE q == <<100, 180, 300>>
           stop(d) == r.ema21 - Side(d) * Part(25, r.atr)
<1>3. PICK d \in BOOLEAN :
        /\ p = Plan("EMA9_TREND_PULLBACK", d, r.close, stop(d), Multiples(r.close, d, r.atr, q))
        /\ Beyond(d, r.ema21, r.ema9) /\ Beyond(d, r.ema9, r.close)
  BY DEF Pullback9
<1>4. Len(q) = 3 /\ q[1] = 100 /\ q[2] = 180 /\ q[3] = 300
  OBVIOUS
<1>5. Beyond(d, stop(d), r.close)
  <2>1. stop(d) = r.ema21 - Side(d) * (5 * n)
    BY <1>2 DEF Part
  <2> HIDE DEF stop
  <2> QED BY <1>1, <1>3, <2>1 DEF Beyond, Side
<1> HIDE DEF q, stop
<1>6. Leveled(p, d, r.close, stop(d), r.close + Side(d) * ((q[1] * r.atr) \div 100),
              r.close + Side(d) * ((q[2] * r.atr) \div 100), r.close + Side(d) * ((q[3] * r.atr) \div 100))
  BY ONLY <1>3, <1>4, PlanIs
<1>7. Leveled(p, d, r.close, stop(d), r.close + Side(d) * (20 * n), r.close + Side(d) * (36 * n), r.close + Side(d) * (60 * n))
  BY <1>2, <1>4, <1>6
<1> QED BY <1>1, <1>5, <1>7, StepLevels

\* A reclaimed channel: the close is inside, so the stop is behind the entry.
LEMMA ReclaimLevels ==
  ASSUME NEW r \in ReadingSet, r.kind = "reclaim", r.atr # Cold, NEW p \in Reclaim(r)
  PROVE  Geometric(p)
<1>1. r.lowest \in Nat /\ r.highest \in Nat /\ r.closes[3] \in r.lowest..r.highest /\ r.closes[3] \in Nat
  BY ReadingsAreBars DEF ReadingSet
<1>2. PICK n \in Nat \ {0} : (15 * r.atr) \div 100 = 3 * n /\ (100 * r.atr) \div 100 = 20 * n
                             /\ (180 * r.atr) \div 100 = 36 * n /\ (300 * r.atr) \div 100 = 60 * n
  BY RangeOf
<1> DEFINE q == <<100, 180, 300>>
           stop(d) == (IF d THEN r.lowest ELSE r.highest) - Side(d) * Part(15, r.atr)
<1>3. PICK d \in BOOLEAN :
        p = Plan("VWAP_RECLAIM", d, r.closes[3], stop(d), Multiples(r.closes[3], d, r.atr, q))
  BY DEF Reclaim
<1>4. Len(q) = 3 /\ q[1] = 100 /\ q[2] = 180 /\ q[3] = 300
  OBVIOUS
<1>5. Beyond(d, stop(d), r.closes[3])
  <2>1. stop(d) = (IF d THEN r.lowest ELSE r.highest) - Side(d) * (3 * n)
    BY <1>2 DEF Part
  <2> HIDE DEF stop
  <2> QED BY <1>1, <2>1 DEF Beyond, Side
<1> DEFINE e == r.closes[3]
<1> HIDE DEF q, stop, e
<1>6. Leveled(p, d, e, stop(d), e + Side(d) * ((q[1] * r.atr) \div 100),
              e + Side(d) * ((q[2] * r.atr) \div 100), e + Side(d) * ((q[3] * r.atr) \div 100))
  <2>1. p = Plan("VWAP_RECLAIM", d, e, stop(d), Multiples(e, d, r.atr, q))
    BY <1>3 DEF e
  <2> QED BY ONLY <2>1, <1>4, PlanIs
<1>7. Leveled(p, d, e, stop(d), e + Side(d) * (20 * n), e + Side(d) * (36 * n), e + Side(d) * (60 * n))
  BY <1>2, <1>4, <1>6
<1>8. e \in Int /\ Beyond(d, stop(d), e)
  BY <1>1, <1>5 DEF e
<1> QED BY <1>7, <1>8, StepLevels

\* A continuation of the hour: stop and targets are multiples of one range.
LEMMA HourLevels ==
  ASSUME NEW r \in ReadingSet, r.kind = "hour", r.atr # Cold, NEW p \in Continuation(r)
  PROVE  Geometric(p)
<1>1. r.ema50 \in Nat /\ r.close \in Nat
  BY ReadingsAreBars DEF ReadingSet
<1>2. PICK n \in Nat \ {0} : r.atr = 20 * n /\ (80 * r.atr) \div 100 = 16 * n
                             /\ (160 * r.atr) \div 100 = 32 * n /\ (280 * r.atr) \div 100 = 56 * n
  BY RangeOf
<1>0. PICK d \in BOOLEAN : d = TRUE
  OBVIOUS
<1> DEFINE q == <<80, 160, 280>>
           stop == r.ema50 - r.atr
<1>3. PICK s : p = Plan(s, d, r.close, stop, Multiples(r.close, d, r.atr, q)) /\ r.close > stop
  BY <1>0 DEF Continuation
<1>4. Len(q) = 3 /\ q[1] = 80 /\ q[2] = 160 /\ q[3] = 280
  OBVIOUS
<1>5. Beyond(d, stop, r.close)
  BY <1>0, <1>1, <1>2, <1>3 DEF Beyond, Side
<1> HIDE DEF q, stop
<1>6. Leveled(p, d, r.close, stop, r.close + Side(d) * ((q[1] * r.atr) \div 100),
              r.close + Side(d) * ((q[2] * r.atr) \div 100), r.close + Side(d) * ((q[3] * r.atr) \div 100))
  BY ONLY <1>3, <1>4, PlanIs
<1>7. Leveled(p, d, r.close, stop, r.close + Side(d) * (16 * n), r.close + Side(d) * (32 * n),
              r.close + Side(d) * (56 * n))
  BY <1>2, <1>4, <1>6
<1> QED BY <1>1, <1>5, <1>7, StepLevels

\* A breakout of the day: stop and targets are multiples of one range.
LEMMA DayLevels ==
  ASSUME NEW r \in ReadingSet, r.kind = "day", r.atr # Cold, NEW p \in Breakout(r)
  PROVE  Geometric(p)
<1>1. r.pivot \in Nat /\ r.closes[3] \in Nat
  BY ReadingsAreBars DEF ReadingSet
<1>2. PICK n \in Nat \ {0} : (75 * r.atr) \div 100 = 15 * n /\ (150 * r.atr) \div 100 = 30 * n
                             /\ (300 * r.atr) \div 100 = 60 * n /\ (500 * r.atr) \div 100 = 100 * n
  BY RangeOf
<1>0. PICK d \in BOOLEAN : d = TRUE
  OBVIOUS
<1> DEFINE q == <<150, 300, 500>>
           stop == r.pivot - Part(75, r.atr)
           e == r.closes[3]
<1>3. p = Plan("DAILY_BREAKOUT", d, e, stop, Multiples(e, d, r.atr, q)) /\ e > r.pivot
  BY <1>0 DEF Breakout
<1>4. Len(q) = 3 /\ q[1] = 150 /\ q[2] = 300 /\ q[3] = 500
  OBVIOUS
<1>5. Beyond(d, stop, e) /\ e \in Int
  BY <1>0, <1>1, <1>2, <1>3 DEF Beyond, Side, Part
<1> HIDE DEF q, stop, e
<1>6. Leveled(p, d, e, stop, e + Side(d) * ((q[1] * r.atr) \div 100),
              e + Side(d) * ((q[2] * r.atr) \div 100), e + Side(d) * ((q[3] * r.atr) \div 100))
  BY ONLY <1>3, <1>4, PlanIs
<1>7. Leveled(p, d, e, stop, e + Side(d) * (30 * n), e + Side(d) * (60 * n), e + Side(d) * (100 * n))
  BY <1>2, <1>4, <1>6
<1> QED BY <1>5, <1>7, StepLevels

\* The anchor of the stop is the worse of the candle and the slow average, so
\* the risk is positive however the two lie.
LEMMA Reclaim9Levels ==
  ASSUME NEW r \in ReadingSet, r.kind = "reclaim9", r.atr # Cold, NEW p \in Reclaim9(r)
  PROVE  Geometric(p)
<1>1. r.ema9 \in Nat /\ r.ema21 \in Nat /\ r.low \in Nat /\ r.high \in Nat /\ r.close \in Nat
  BY ReadingsAreBars DEF ReadingSet
<1>2. PICK n \in Nat \ {0} : (15 * r.atr) \div 100 = 3 * n
  BY RangeOf
<1> DEFINE q == <<100, 200, 300>>
           anchor(d) == IF d THEN Min({r.low, r.ema21}) ELSE Max({r.high, r.ema21})
           stop(d) == anchor(d) - Side(d) * Part(15, r.atr)
           risk(d) == Side(d) * (r.close - stop(d))
<1>3. PICK d \in BOOLEAN :
        /\ p = Plan("EMA9_MTF_0DTE", d, r.close, stop(d), Multiples(r.close, d, risk(d), q))
        /\ Beyond(d, r.ema21, r.ema9) /\ Beyond(d, r.ema9, r.close)
  BY DEF Reclaim9
<1>4. Len(q) = 3 /\ q[1] = 100 /\ q[2] = 200 /\ q[3] = 300
  OBVIOUS
<1>5. anchor(d) \in Int /\ Side(d) * (r.ema21 - anchor(d)) >= 0
  <2>1. \A a, b \in Nat : Min({a, b}) \in Nat /\ Min({a, b}) <= b /\ Max({a, b}) \in Nat /\ Max({a, b}) >= b
    <3> SUFFICES ASSUME NEW a \in Nat, NEW b \in Nat
                 PROVE  Min({a, b}) \in Nat /\ Min({a, b}) <= b /\ Max({a, b}) \in Nat /\ Max({a, b}) >= b
      OBVIOUS
    <3>1. \E x \in {a, b} : \A y \in {a, b} : x <= y
      OBVIOUS
    <3>2. \E x \in {a, b} : \A y \in {a, b} : x >= y
      OBVIOUS
    <3> QED BY <3>1, <3>2 DEF Min, Max
  <2>2. CASE d = TRUE
    BY <1>1, <2>1, <2>2 DEF Side
  <2>3. CASE d = FALSE
    BY <1>1, <2>1, <2>3 DEF Side
  <2> QED BY <2>2, <2>3
<1>6. stop(d) \in Int /\ risk(d) \in Nat \ {0} /\ Beyond(d, stop(d), r.close)
  <2>1. stop(d) = anchor(d) - Side(d) * (3 * n)
    BY <1>2 DEF Part
  <2> HIDE DEF anchor, stop
  <2> QED BY <1>1, <1>3, <1>5, <2>1 DEF Beyond, Side
<1> HIDE DEF q, anchor, stop, risk
<1>7. Leveled(p, d, r.close, stop(d), r.close + Side(d) * ((q[1] * risk(d)) \div 100),
              r.close + Side(d) * ((q[2] * risk(d)) \div 100), r.close + Side(d) * ((q[3] * risk(d)) \div 100))
  BY ONLY <1>3, <1>4, PlanIs
<1>8. Leveled(p, d, r.close, stop(d), r.close + Side(d) * risk(d), r.close + Side(d) * (2 * risk(d)),
              r.close + Side(d) * (3 * risk(d)))
  <2>1. \A k \in Nat : (100 * k) \div 100 = k /\ (200 * k) \div 100 = 2 * k /\ (300 * k) \div 100 = 3 * k
    OBVIOUS
  <2> QED BY <1>4, <1>6, <1>7, <2>1
<1> QED BY <1>1, <1>6, <1>8, StepLevels

\* Whatever the market does, every plan that passes the gates has its stop on the
\* losing side of its entry and its targets beyond it, one after the other.
THEOREM PlansAreGeometric == StrategySpec => []PlanGeometry
<1> DEFINE Read == reading \in ReadingSet \cup {Silence}
<1>1. StrategyInit => Read
  BY DEF StrategyInit
<1>2. Read /\ [BarCloses]_strategyVars => Read'
  BY DEF BarCloses, strategyVars, ReadingSet
<1>3. Read => PlanGeometry
  <2> SUFFICES ASSUME Read, NEW p \in Emitted(reading) PROVE Geometric(p)
    <3>1. (\A p \in Emitted(reading) : Geometric(p)) => PlanGeometry
      BY DEF Geometric, PlanGeometry
    <3> QED BY <3>1
  <2>1. reading.kind # "none"
    BY DEF Emitted, Signals, Silence
  <2>2. reading \in ReadingSet
    BY <2>1 DEF Silence
  <2>3. p \in Signals(reading) /\ reading.atr # Cold /\ WorthItsRisk(p)
    BY DEF Emitted, Route, PassesGates
  <2>4. CASE reading.kind = "orb"
    BY <2>2, <2>3, <2>4, OrbLevels DEF Signals
  <2>5. CASE reading.kind = "pullback"
    BY <2>2, <2>3, <2>5, PullbackLevels DEF Signals
  <2>6. CASE reading.kind = "reclaim9"
    BY <2>2, <2>3, <2>6, Reclaim9Levels DEF Signals
  <2>7. CASE reading.kind = "reclaim"
    BY <2>2, <2>3, <2>7, ReclaimLevels DEF Signals
  <2>8. CASE reading.kind = "hour"
    BY <2>2, <2>3, <2>8, HourLevels DEF Signals
  <2>9. CASE reading.kind = "day"
    BY <2>2, <2>3, <2>9, DayLevels DEF Signals
  <2> QED BY <2>3, <2>4, <2>5, <2>6, <2>7, <2>8, <2>9 DEF Signals
<1> QED BY <1>1, <1>2, <1>3, PTL DEF StrategySpec

-----------------------------------------------------------------------------
(* Composer: a plan inside its budgets.                                    *)

\* A whole quotient is the largest count that fits.
LEMMA Quotient ==
  ASSUME NEW a \in Nat, NEW b \in Nat \ {0}, NEW n \in Nat
  PROVE  a \div b \in Nat /\ (n <= a \div b <=> n * b <= a)
<1> SUFFICES ASSUME NEW d, d = a \div b PROVE d \in Nat /\ (n <= d <=> n * b <= a)
  OBVIOUS
<1>1. d \in Nat /\ d * b <= a /\ a < d * b + b
  OBVIOUS
<1>2. ASSUME n <= d PROVE n * b <= d * b
  BY <1>1, <1>2
<1>3. ASSUME n > d PROVE n * b >= d * b + b
  <2>1. n >= d + 1
    BY <1>1, <1>3
  <2>2. n * b >= (d + 1) * b
    BY <1>1, <2>1
  <2> QED BY <1>1, <2>2
<1> QED BY <1>1, <1>2, <1>3

\* What a setup may be.
Requested(s) ==
  /\ s.entry \in Nat \ {0} /\ s.stop \in Nat /\ Len(s.targets) \in Nat
  /\ s.capital \in Nat \ {0} /\ s.pct \in 1..100 /\ s.halves \in {1, 2}
  /\ s.quote \in {NoLeg, NoQuote} \/ {s.quote.bid, s.quote.ask, s.quote.delta} \subseteq Nat

Affords(s, n, unit, risk) == n * risk <= RiskBudget(s) /\ n * unit <= MaxCapital(s)

\* The budgets of a request are natural numbers.
LEMMA BudgetTypes ==
  ASSUME NEW s, Requested(s)
  PROVE  RiskBudget(s) \in Nat /\ MaxCapital(s) \in Nat
<1>1. s.capital \in Nat \ {0} /\ s.pct \in 1..100 /\ s.halves \in {1, 2}
  BY Zenon DEF Requested
<1>2. s.capital * s.pct * s.halves \in Nat /\ s.capital * s.halves \in Nat
  BY ONLY <1>1
<1> QED BY ONLY <1>2 DEF RiskBudget, MaxCapital

\* The rounded budgets admit what the exact ones do.
LEMMA BudgetsExact ==
  ASSUME NEW s, Requested(s), setup = s, NEW n \in Nat, NEW unit \in Nat, NEW risk \in Nat
  PROVE  /\ RiskBudget(s) \in Nat /\ MaxCapital(s) \in Nat
         /\ Fits(n, unit, risk) <=> Affords(s, n, unit, risk)
<1>0. s.capital \in Nat /\ s.pct \in Nat /\ s.halves \in Nat
  <2>1. s.capital \in Nat \ {0} /\ s.pct \in 1..100 /\ s.halves \in {1, 2}
    BY Zenon DEF Requested
  <2> QED BY ONLY <2>1
<1> SUFFICES ASSUME NEW m, m = s.capital * s.pct * s.halves, NEW c, c = s.capital * s.halves,
                    NEW x, x = n * risk, NEW y, y = n * unit
             PROVE  /\ m \div 200 \in Nat /\ c \div 2 \in Nat
                    /\ (200 * n * risk <= m /\ 2 * n * unit <= c) <=> (x <= m \div 200 /\ y <= c \div 2)
  BY DEF RiskBudget, MaxCapital, Fits, Affords
<1>1. m \in Nat /\ c \in Nat /\ x \in Nat /\ y \in Nat
  BY ONLY <1>0, n \in Nat, unit \in Nat, risk \in Nat, m = s.capital * s.pct * s.halves,
          c = s.capital * s.halves, x = n * risk, y = n * unit
<1>2. 200 * n * risk = 200 * x /\ 2 * n * unit = 2 * y
  BY ONLY n \in Nat, unit \in Nat, risk \in Nat, x = n * risk, y = n * unit
<1> QED BY ONLY <1>1, <1>2

\* The tranches of an alert are a part of the whole.
LEMMA TranchesAddUp ==
  ASSUME NEW n \in 0..3
  PROVE  Total([j \in 1..n |-> Tranches[j]], 1..n) <= 100
<1> DEFINE f == [j \in 1..3 |-> Tranches[j]]
           g == [j \in 1..n |-> Tranches[j]]
<1>1. f[1] = 33 /\ f[2] = 33 /\ f[3] = 34 /\ f \in [1..3 -> Nat]
  BY DEF Tranches
<1>2. \A j \in 1..n : g[j] = f[j] /\ g[j] \in Nat
  BY <1>1
<1> HIDE DEF f, g
<1>3. IsFiniteSet(1..3) /\ IsFiniteSet(1..n) /\ 1..n \in SUBSET (1..3)
  <2>1. n \in Int /\ n <= 3
    OBVIOUS
  <2>2. 1..n \in SUBSET (1..3)
    BY <2>1
  <2>3. \A k \in Int : IsFiniteSet(1..k)
    BY ONLY FS_Interval
  <2>4. PICK t \in Int : t = 3
    OBVIOUS
  <2>5. IsFiniteSet(1..t) /\ IsFiniteSet(1..n)
    BY <2>1, <2>3
  <2> QED BY <2>2, <2>4, <2>5
<1>4. Total(g, 1..n) = Total(f, 1..n)
  BY ONLY <1>2, <1>3, TotalSame
<1>5. Total(f, 1..n) <= Total(f, 1..3)
  BY <1>1, <1>3, TotalGrows
<1>6. Total(f, 1..3) = 100
  <2>1. Total(f, 1..3) = f[3] + Total(f, (1..3) \ {3})
    BY <1>1, <1>3, TotalSplit
  <2>2. Total(f, 1..2) = f[2] + Total(f, (1..2) \ {2})
    BY <1>1, <1>3, TotalSplit
  <2>3. Total(f, {1}) = f[1] + Total(f, {1} \ {1})
    BY <1>1, <1>3, TotalSplit
  <2>4. (1..3) \ {3} = 1..2 /\ (1..2) \ {2} = {1} /\ {1} \ {1} = {}
    OBVIOUS
  <2>5. Total(f, {}) = 0
    BY TotalEmpty
  <2> QED BY <1>1, <2>1, <2>2, <2>3, <2>4, <2>5
<1>7. Total(g, 1..n) <= 100
  BY <1>4, <1>5, <1>6
<1> QED BY <1>7 DEF g
\* What SizeFitsBudget asks of an alert for a setup.
Sized(s, a) ==
  LET unit == a.required \div a.size
      risk == a.risk \div a.size
      share == [i \in DOMAIN a.profits |-> a.profits[i].tranche]
  IN /\ unit \in Nat /\ risk \in Nat
     /\ risk > 0 /\ unit = (IF a.vehicle = "OPTION" THEN 100 ELSE 1) * a.entry
     /\ Affords(s, a.size, unit, risk) /\ ~Affords(s, a.size + 1, unit, risk)
     /\ Total(share, DOMAIN share) <= 100
     /\ a.vehicle = "OPTION" => a.stop < a.entry

\* Build multiplies what one unit costs and risks; dividing gives it back.
LEMMA BuildSized ==
  ASSUME NEW s, Requested(s), NEW vehicle \in {"EQUITY", "OPTION"}, NEW action, NEW unit \in Nat, NEW size \in Nat \ {0},
         NEW entry \in Nat, NEW stop \in Nat, NEW risk \in Nat \ {0},
         unit = (IF vehicle = "OPTION" THEN 100 ELSE 1) * entry, vehicle = "OPTION" => stop < entry,
         Affords(s, size, unit, risk), ~Affords(s, size + 1, unit, risk),
         NEW a, a = Build(vehicle, action, s, unit, size, entry, stop, risk)
  PROVE  Sized(s, a) /\ a # NoAlert /\ a.size = size /\ a.vehicle = vehicle
<1>1. PICK n \in 0..3 : n = Min({Len(s.targets), Len(Tranches)})
  <2>1. Len(s.targets) \in Nat /\ Len(Tranches) = 3
    BY DEF Requested, Tranches
  <2> SUFFICES ASSUME NEW k \in Nat, k = Len(s.targets) PROVE Min({k, 3}) \in 0..3
    BY <2>1
  <2>2. \E x \in {k, 3} : \A y \in {k, 3} : x <= y
    OBVIOUS
  <2>3. Min({k, 3}) \in {k, 3} /\ \A y \in {k, 3} : Min({k, 3}) <= y
    BY <2>2 DEF Min
  <2> QED BY <2>3
<1>2. /\ a.vehicle = vehicle /\ a.size = size /\ a.entry = entry /\ a.stop = stop
      /\ a.required = size * unit /\ a.risk = size * risk
      /\ a.profits = [i \in 1..n |-> [at |-> s.targets[i], tranche |-> Tranches[i]]]
      /\ DOMAIN a = {"vehicle", "action", "size", "entry", "stop", "required", "risk", "profits"}
  BY <1>1 DEF Build
<1>3. a # NoAlert
  BY <1>2 DEF NoAlert
<1>4. (size * unit) \div size = unit /\ (size * risk) \div size = risk
  BY ONLY size \in Nat \ {0}, unit \in Nat, risk \in Nat \ {0}
<1>5. [i \in DOMAIN a.profits |-> a.profits[i].tranche] = [i \in 1..n |-> Tranches[i]]
  BY <1>2
<1> DEFINE share == [i \in 1..n |-> Tranches[i]]
<1>6. Total(share, DOMAIN share) <= 100
  <2>1. DOMAIN share = 1..n
    OBVIOUS
  <2> QED BY <2>1, TranchesAddUp
<1> HIDE DEF share
<1>7. risk > 0
  OBVIOUS
<1>8. Sized(s, a)
  <2>1. a.required \div a.size = unit /\ a.risk \div a.size = risk
    BY Zenon, <1>2, <1>4
  <2>2. [i \in DOMAIN a.profits |-> a.profits[i].tranche] = share
    BY <1>5 DEF share
  <2>3. /\ a.required \div a.size \in Nat /\ a.risk \div a.size \in Nat
        /\ a.risk \div a.size > 0
        /\ a.required \div a.size = (IF a.vehicle = "OPTION" THEN 100 ELSE 1) * a.entry
        /\ a.vehicle = "OPTION" => a.stop < a.entry
    BY <1>2, <1>7, <2>1
  <2>4. /\ Affords(s, a.size, a.required \div a.size, a.risk \div a.size)
        /\ ~Affords(s, a.size + 1, a.required \div a.size, a.risk \div a.size)
    BY Zenon, <1>2, <2>1
  <2> QED BY Zenon, <1>6, <2>2, <2>3, <2>4 DEF Sized
<1> QED BY <1>2, <1>3, <1>8

\* Shares are sized inside both budgets; without an alert not even one fits.
LEMMA EquitySized ==
  ASSUME NEW s, Requested(s), NEW a, a = Equity(s)
  PROVE  /\ a # NoAlert => Sized(s, a) /\ a.size \in Nat \ {0} /\ a.vehicle = "EQUITY"
         /\ a = NoAlert => s.entry = s.stop \/ ~Affords(s, 1, s.entry, Apart(s.entry, s.stop))
<1>1. RiskBudget(s) \in Nat /\ MaxCapital(s) \in Nat /\ s.entry \in Nat \ {0} /\ s.stop \in Nat
  <2>1. s.entry \in Nat \ {0} /\ s.stop \in Nat
    BY Zenon DEF Requested
  <2> QED BY <2>1, BudgetTypes
<1>2. Apart(s.entry, s.stop) \in Nat /\ (Apart(s.entry, s.stop) = 0 <=> s.entry = s.stop)
  BY <1>1 DEF Apart
<1>3. CASE Apart(s.entry, s.stop) = 0
  <2>1. a = NoAlert
    BY <1>3 DEF Equity
  <2> QED BY <1>2, <1>3, <2>1
<1>4. CASE Apart(s.entry, s.stop) # 0
  <2> SUFFICES ASSUME NEW risk \in Nat \ {0}, risk = Apart(s.entry, s.stop),
                      NEW rb \in Nat, rb = RiskBudget(s), NEW mc \in Nat, mc = MaxCapital(s),
                      NEW e \in Nat \ {0}, e = s.entry, NEW byRisk, byRisk = rb \div risk, NEW byMoney, byMoney = mc \div e,
                      NEW size, size = IF byRisk * e > mc THEN byMoney ELSE byRisk
               PROVE  /\ a # NoAlert => Sized(s, a) /\ a.size \in Nat \ {0} /\ a.vehicle = "EQUITY"
                      /\ a = NoAlert => s.entry = s.stop \/ ~Affords(s, 1, e, risk)
    BY <1>1, <1>2, <1>4
  <2>1. byRisk \in Nat /\ \A n \in Nat : n <= byRisk <=> n * risk <= rb
    BY Quotient
  <2>2. byMoney \in Nat /\ \A n \in Nat : n <= byMoney <=> n * e <= mc
    BY Quotient
  <2>3. size \in Nat /\ \A n \in Nat : n <= size <=> n <= byRisk /\ n <= byMoney
    <3>1. byRisk * e > mc <=> ~(byRisk <= byMoney)
      BY <2>1, <2>2
    <3> QED BY <2>1, <2>2, <3>1
  <2>4. \A n \in Nat : Affords(s, n, e, risk) <=> n <= size
    BY <2>1, <2>2, <2>3 DEF Affords
  <2>5. CASE size = 0
    <3>1. a = NoAlert
      BY <2>5 DEF Equity
    <3>2. ~Affords(s, 1, e, risk)
      BY <2>4, <2>5
    <3> QED BY <3>1, <3>2
  <2>6. CASE size # 0
    <3>1. a = Build("EQUITY", IF s.long THEN "EQUITY_BUY" ELSE "EQUITY_SELL", s, e, size, e, s.stop, risk)
      BY <2>3, <2>6 DEF Equity
    <3>2. Affords(s, size, e, risk) /\ ~Affords(s, size + 1, e, risk)
      BY <2>3, <2>4
    <3>3. e = 1 * e
      OBVIOUS
    <3>4. size \in Nat \ {0}
      BY <2>3, <2>6
    <3>5. PICK v \in {"EQUITY", "OPTION"} : v = "EQUITY"
      OBVIOUS
    <3>6. e = (IF v = "OPTION" THEN 100 ELSE 1) * e /\ (v = "OPTION" => s.stop < e)
      BY <3>3, <3>5
    <3>7. s.stop \in Nat /\ e \in Nat
      BY <1>1
    <3>8. PICK act : a = Build(v, act, s, e, size, e, s.stop, risk)
      BY <3>1, <3>5
    <3>9. Sized(s, a) /\ a # NoAlert /\ a.size = size /\ a.vehicle = v
      BY ONLY <3>2, <3>4, <3>6, <3>7, <3>8, risk \in Nat \ {0}, Requested(s), BuildSized
    <3> QED BY <3>4, <3>5, <3>9
  <2> QED BY <2>5, <2>6
<1> QED BY <1>3, <1>4

\* What a contract costs and where it is stopped, in cents.
LEMMA OptionPrices ==
  ASSUME NEW s, Requested(s), s.quote \notin {NoLeg, NoQuote}
  PROVE  EntryLimit(s.quote) \in Nat /\ OptionStop(s, s.quote) \in Nat /\ OptionStop(s, s.quote) >= 5
<1>1. /\ s.entry \in Nat \ {0} /\ s.stop \in Nat
      /\ s.quote.bid \in Nat /\ s.quote.ask \in Nat /\ s.quote.delta \in Nat
  <2>1. s.entry \in Nat \ {0} /\ s.stop \in Nat
    BY Zenon DEF Requested
  <2>2. {s.quote.bid, s.quote.ask, s.quote.delta} \subseteq Nat
    BY Zenon DEF Requested
  <2> QED BY <2>1, <2>2
<1> DEFINE entry == EntryLimit(s.quote)
           pad   == (s.quote.delta * Apart(s.entry, s.stop) + 50) \div 100
<1>2. entry \in Nat
  BY <1>1 DEF EntryLimit
<1>3. pad \in Nat
  <2>1. Apart(s.entry, s.stop) \in Nat
    BY <1>1 DEF Apart
  <2>2. s.quote.delta * Apart(s.entry, s.stop) \in Nat
    BY ONLY <1>1, <2>1
  <2> QED BY <2>2
<1>4. OptionStop(s, s.quote) = Max({entry - pad, 5})
  BY DEF OptionStop
<1> HIDE DEF entry, pad
<1>5. Max({entry - pad, 5}) \in Nat /\ Max({entry - pad, 5}) >= 5
  <2> SUFFICES ASSUME NEW x \in Int, x = entry - pad PROVE Max({x, 5}) \in Nat /\ Max({x, 5}) >= 5
    BY <1>2, <1>3
  <2>1. \E y \in {x, 5} : \A z \in {x, 5} : y >= z
    OBVIOUS
  <2> QED BY <2>1 DEF Max
<1> QED BY <1>2, <1>4, <1>5 DEF entry

\* A contract is dropped when it has nothing to lose or not even one fits.
LEMMA OptionSuppressed ==
  ASSUME NEW s, Requested(s), s.quote \notin {NoLeg, NoQuote}, Option(s, s.quote) = NoAlert,
         NEW e, e = EntryLimit(s.quote), NEW st, st = OptionStop(s, s.quote)
  PROVE  e <= st \/ ~Affords(s, 1, 100 * e, 100 * (e - st))
<1>1. RiskBudget(s) \in Nat /\ MaxCapital(s) \in Nat /\ e \in Nat /\ st \in Nat
  BY BudgetTypes, OptionPrices
<1> SUFFICES ASSUME NEW r \in Nat \ {0}, r = 100 * (e - st), NEW u \in Nat, u = 100 * e,
                    NEW rb \in Nat, rb = RiskBudget(s), NEW mc \in Nat, mc = MaxCapital(s),
                    NEW most, most = rb \div r
             PROVE  ~Affords(s, 1, u, r)
  BY <1>1
<1>2. most \in Nat /\ \A n \in Nat : n <= most <=> n * r <= rb
  BY Quotient
<1> DEFINE T == {n \in 0..most : n * 100 * e <= mc}
<1>3. Max(T) = 0
  <2>1. ~(r <= 0)
    OBVIOUS
  <2>2. ASSUME Max(T) # 0 PROVE FALSE
    <3>1. Option(s, s.quote) = Build("OPTION", "BTO", s, 100 * e, Max(T), e, st, r)
      BY Zenon, <2>1, <2>2 DEF Option
    <3>2. DOMAIN Option(s, s.quote) # {"size"}
      BY <3>1 DEF Build
    <3> QED BY <3>2 DEF NoAlert
  <2> QED BY <2>2
<1>4. /\ T \subseteq Int /\ T # {} /\ \A n \in T : n <= most
      /\ most \in Int
  <2>1. 0 \in T
    BY <1>1, <1>2
  <2> QED BY <1>2, <2>1
<1>5. \A n \in T : n <= Max(T)
  <2> HIDE DEF T
  <2> QED BY ONLY <1>4, GreatestNumber
<1>6. 1 \notin T
  BY <1>3, <1>5
<1>7. 1 * 100 * e = 1 * u
  BY <1>1
<1> QED BY <1>2, <1>6, <1>7 DEF Affords

\* A contract's stop costs less than its price, or there is no alert; the size is
\* counted down from what the risk allows to what the money allows.
LEMMA OptionSized ==
  ASSUME NEW s, Requested(s), s.quote \notin {NoLeg, NoQuote}, NEW a, a = Option(s, s.quote), a # NoAlert
  PROVE  Sized(s, a) /\ a.size \in Nat \ {0} /\ a.vehicle = "OPTION"
<1>1. RiskBudget(s) \in Nat /\ MaxCapital(s) \in Nat
  BY BudgetTypes
<1> DEFINE entry == EntryLimit(s.quote)
           stop  == OptionStop(s, s.quote)
           risk  == 100 * (entry - stop)
           M     == {n \in 0..(RiskBudget(s) \div risk) : n * 100 * entry <= MaxCapital(s)}
<1>2. entry \in Nat
  BY OptionPrices
<1>3. stop \in Nat /\ stop >= 5
  BY OptionPrices
<1>4. /\ risk > 0 /\ Max(M) # 0
      /\ a = Build("OPTION", "BTO", s, 100 * entry, Max(M), entry, stop, risk)
  <2>1. ~(risk <= 0) /\ Max(M) # 0 /\ a = Build("OPTION", "BTO", s, 100 * entry, Max(M), entry, stop, risk)
    BY Zenon DEF Option
  <2> HIDE DEF entry, stop
  <2>2. risk \in Int
    BY <1>2, <1>3
  <2> QED BY <2>1, <2>2
<1> HIDE DEF entry, stop
<1> SUFFICES ASSUME NEW e \in Nat, e = entry, NEW st \in Nat, st = stop, NEW r \in Nat \ {0}, r = risk, st < e,
                    NEW rb \in Nat, rb = RiskBudget(s), NEW mc \in Nat, mc = MaxCapital(s),
                    NEW most, most = rb \div r, NEW u \in Nat, u = 100 * e, e > 0
             PROVE  Sized(s, a) /\ a.size \in Nat \ {0} /\ a.vehicle = "OPTION"
  BY <1>1, <1>2, <1>3, <1>4
<1>5. most \in Nat /\ \A n \in Nat : n <= most <=> n * r <= rb
  BY Quotient
<1>6. M = {n \in 0..most : n * u <= mc}
  <2>1. \A n \in Nat : n * 100 * e = n * u
    BY ONLY e \in Nat, u = 100 * e
  <2>2. M = {n \in 0..most : n * 100 * e <= mc}
    OBVIOUS
  <2> QED BY <1>5, <2>1, <2>2
<1> DEFINE T == {n \in 0..most : n * u <= mc}
<1> SUFFICES ASSUME NEW size, size = Max(T), size # 0, a = Build("OPTION", "BTO", s, u, size, e, st, r)
             PROVE  Sized(s, a) /\ a.size \in Nat \ {0} /\ a.vehicle = "OPTION"
  BY <1>4, <1>6
<1> HIDE DEF M, risk
<1>7. size \in T /\ \A n \in T : n <= size
  <2>1. 0 \in T
    BY <1>5
  <2>2. T \subseteq Int /\ \A n \in T : n <= most
    BY <1>5
  <2> HIDE DEF T
  <2>3. most \in Int /\ T # {}
    BY <1>5, <2>1
  <2>4. T \subseteq Int /\ \A n \in T : n <= most
    BY <2>2
  <2>5. Max(T) \in T /\ \A n \in T : n <= Max(T)
    BY ONLY <2>3, <2>4, GreatestNumber
  <2> QED BY <2>5
<1>8. size \in Nat \ {0} /\ size * r <= rb /\ size * u <= mc
  BY <1>5, <1>7
<1>9. ~((size + 1) * r <= rb /\ (size + 1) * u <= mc)
  <2>1. size + 1 \notin T
    BY <1>7, <1>8
  <2>2. size + 1 \in Nat
    BY <1>8
  <2> QED BY <1>5, <2>1, <2>2
<1>10. Affords(s, size, u, r) /\ ~Affords(s, size + 1, u, r)
  BY <1>8, <1>9 DEF Affords
<1>11. PICK v \in {"EQUITY", "OPTION"} : v = "OPTION"
  OBVIOUS
<1>12. u = (IF v = "OPTION" THEN 100 ELSE 1) * e /\ (v = "OPTION" => st < e)
  BY <1>11
<1>13. PICK act : a = Build(v, act, s, u, size, e, st, r)
  BY <1>11
<1>14. Sized(s, a) /\ a # NoAlert /\ a.size = size /\ a.vehicle = v
  BY ONLY <1>8, <1>10, <1>12, <1>13, e \in Nat, st \in Nat, u \in Nat, r \in Nat \ {0}, Requested(s), BuildSized
<1> QED BY <1>8, <1>11, <1>14

\* An alert for any budget and any quote orders as many units as fit both
\* budgets and not one more, and the type that goes with it.
Composition ==
  \/ setup = NoAlert /\ alert = NoAlert
  \/ Requested(setup) /\ alert = Composed(setup)

\* A setup goes to shares without a tradable option.
ToShares(s) == s.quote \in {NoLeg, NoQuote} \/ ~Liquid(s.quote)

\* Not one unit of what would be ordered fits, or it has nothing to lose.
Unaffordable(s) ==
  IF ToShares(s)
  THEN s.entry = s.stop \/ ~Affords(s, 1, s.entry, Apart(s.entry, s.stop))
  ELSE LET unit == EntryLimit(s.quote)
           stop == OptionStop(s, s.quote)
       IN unit <= stop \/ ~Affords(s, 1, 100 * unit, 100 * (unit - stop))

\* Either vehicle of a composed alert is sized inside both budgets, and without
\* an alert none could be.
LEMMA ComposedSized ==
  ASSUME NEW s, Requested(s), NEW a, a = Composed(s)
  PROVE  /\ a # NoAlert => Sized(s, a) /\ a.size \in Nat \ {0} /\ a.vehicle \in {"EQUITY", "OPTION"}
         /\ a = NoAlert => Unaffordable(s)
<1>1. CASE ToShares(s)
  <2>1. a = Equity(s)
    BY <1>1 DEF ToShares, Composed
  <2> QED BY <1>1, <2>1, EquitySized DEF Unaffordable
<1>2. CASE ~ToShares(s)
  <2>1. s.quote \notin {NoLeg, NoQuote} /\ a = Option(s, s.quote)
    BY <1>2 DEF ToShares, Composed
  <2>2. a # NoAlert => Sized(s, a) /\ a.size \in Nat \ {0} /\ a.vehicle = "OPTION"
    BY <2>1, OptionSized
  <2>3. a = NoAlert => Unaffordable(s)
    BY <1>2, <2>1, OptionSuppressed DEF Unaffordable
  <2> QED BY <2>2, <2>3
<1> QED BY <1>1, <1>2

\* The last alert is always the answer to the last request.
LEMMA ComposesRequests ==
  ComposerSpec => []Composition
<1>1. ComposerInit => Composition
  BY DEF ComposerInit, Composition
<1>2. Composition /\ [Compose]_composerVars => Composition'
  <2> SUFFICES ASSUME Composition, [Compose]_composerVars PROVE Composition'
    OBVIOUS
  <2>1. CASE Compose
    <3>1. PICK level \in Levels, capital \in Capitals, pct \in RiskCaps, halves \in Drawdowns, quote \in Quotes :
            /\ setup' = [long |-> level.long, entry |-> level.entry, stop |-> level.stop,
                         targets |-> level.targets, capital |-> capital, pct |-> pct,
                         halves |-> halves, quote |-> quote]
            /\ alert' = Composed(setup')
      BY <2>1 DEF Compose
    <3>2. setup'.entry = level.entry /\ setup'.stop = level.stop /\ setup'.targets = level.targets
          /\ setup'.capital = capital /\ setup'.pct = pct /\ setup'.halves = halves /\ setup'.quote = quote
      BY <3>1
    <3>3. level.entry \in Nat \ {0} /\ level.stop \in Nat /\ Len(level.targets) \in Nat
      BY OrdersHavePrices
    <3>4. capital \in Nat \ {0} /\ pct \in 1..100 /\ halves \in {1, 2}
      BY BudgetsPositive
    <3>5. quote \in {NoLeg, NoQuote} \/ {quote.bid, quote.ask, quote.delta} \subseteq Nat
      BY Zenon, OrdersHavePrices
    <3>6. Requested(setup')
      BY Zenon, <3>2, <3>3, <3>4, <3>5 DEF Requested
    <3> QED BY <3>1, <3>6 DEF Composition
  <2>2. CASE UNCHANGED composerVars
    BY <2>2 DEF composerVars, Composition
  <2> QED BY <2>1, <2>2
<1> QED BY <1>1, <1>2, PTL DEF ComposerSpec

\* A composed alert has a positive size and one of two vehicles.
THEOREM ComposerTypeCorrect == ComposerSpec => []ComposerTypeOK
<1>1. Composition => ComposerTypeOK
  BY ComposedSized DEF Composition, ComposerTypeOK
<1> QED BY <1>1, ComposesRequests, PTL

\* For any budgets, prices and quotes, an alert orders as many units as its
\* risk and its money allow and not one more, and a setup that is suppressed
\* could not be ordered in a single unit of what it would have become.
THEOREM SizesFit == ComposerSpec => []SizeFitsBudget
<1>1. Composition => SizeFitsBudget
  <2> SUFFICES ASSUME Composition PROVE SizeFitsBudget
    OBVIOUS
  <2>1. CASE setup = NoAlert /\ alert = NoAlert
    BY <2>1 DEF SizeFitsBudget
  <2>2. CASE Requested(setup) /\ alert = Composed(setup)
    <3>1. ASSUME NEW n \in Nat, NEW unit \in Nat, NEW risk \in Nat
          PROVE  Fits(n, unit, risk) <=> Affords(setup, n, unit, risk)
      BY <2>2, BudgetsExact
    <3>2. CASE alert # NoAlert
      <4>1. Sized(setup, alert)
        BY <2>2, <3>2, ComposedSized
      <4> DEFINE unit == alert.required \div alert.size
                 risk == alert.risk \div alert.size
      <4>2. alert.size \in Nat
        BY <2>2, <3>2, ComposedSized
      <4>3. unit \in Nat /\ risk \in Nat /\ Affords(setup, alert.size, unit, risk) /\ ~Affords(setup, alert.size + 1, unit, risk)
        BY Zenon, <4>1 DEF Sized
      <4>4. Fits(alert.size, unit, risk) /\ ~Fits(alert.size + 1, unit, risk)
        BY <3>1, <4>2, <4>3
      <4> QED BY Zenon, <3>2, <4>1, <4>4 DEF Sized, SizeFitsBudget, Total
    <3>3. CASE alert = NoAlert
      <4>1. Unaffordable(setup)
        BY <2>2, <3>3, ComposedSized
      <4>2. CASE ToShares(setup)
        <5>1. setup.entry \in Nat /\ setup.stop \in Nat
          BY Zenon, <2>2 DEF Requested
        <5>2. Apart(setup.entry, setup.stop) \in Nat
          BY <5>1 DEF Apart
        <5>3. setup.entry = setup.stop \/ ~Affords(setup, 1, setup.entry, Apart(setup.entry, setup.stop))
          BY Zenon, <4>1, <4>2 DEF Unaffordable
        <5>4. setup.entry = setup.stop \/ ~Fits(1, setup.entry, Apart(setup.entry, setup.stop))
          BY <3>1, <5>1, <5>2, <5>3
        <5> QED BY Zenon, <3>3, <4>2, <5>4 DEF SizeFitsBudget, ToShares
      <4>3. CASE ~ToShares(setup)
        <5> DEFINE unit == EntryLimit(setup.quote)
                   stop == OptionStop(setup, setup.quote)
        <5>1. unit \in Nat /\ stop \in Nat
          BY <2>2, <4>3, OptionPrices DEF ToShares
        <5>2. unit <= stop \/ ~Affords(setup, 1, 100 * unit, 100 * (unit - stop))
          BY Zenon, <4>1, <4>3 DEF Unaffordable
        <5> HIDE DEF unit, stop
        <5>3. unit <= stop \/ ~Fits(1, 100 * unit, 100 * (unit - stop))
          <6>1. CASE unit <= stop
            BY <6>1
          <6>2. CASE ~(unit <= stop)
            <7>1. 1 \in Nat /\ 100 * unit \in Nat /\ 100 * (unit - stop) \in Nat
              BY <5>1, <6>2
            <7> QED BY <3>1, <5>2, <6>2, <7>1
          <6> QED BY <6>1, <6>2
        <5> USE DEF unit, stop
        <5> QED BY Zenon, <3>3, <4>3, <5>3 DEF SizeFitsBudget, ToShares
      <4> QED BY <4>2, <4>3
    <3> QED BY <3>2, <3>3
  <2> QED BY <2>1, <2>2 DEF Composition
<1> QED BY <1>1, ComposesRequests, PTL
=============================================================================
