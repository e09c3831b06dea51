------------------------------ MODULE Delivery ------------------------------
(***************************************************************************)
(* Outbound messages (live.py, claim_delivery of terminal_store.py,        *)
(* telegram.py) and the queues of the websocket subscribers.  Two          *)
(* processes run side by side during a rolling deployment and each comes   *)
(* to the same alerts, settlements and daily briefing on its own; the      *)
(* delivery log of the shared store decides who sends.                     *)
(***************************************************************************)
EXTENDS Integers, Sequences, FiniteSets

CONSTANTS
  Gateway,    \* processes
  News,       \* alerts and settlements: a row is stored before they are sent
  Briefings,  \* daily briefings: the process remembers that it made one
  QueueSize,  \* maxsize of a subscriber's queue
  LastEvent,  \* bound: websocket events of one process
  MaxSends    \* bound: a message sent so often is not prepared again

ASSUME QueueHolds == QueueSize \in Nat \ {0} /\ LastEvent \in Nat /\ MaxSends \in Nat \ {0, 1}

VARIABLES
  rows,       \* news whose row is in the store
  deliveries, \* delivery_log
  met,        \* process -> what it will not deliver (again)
  stage,      \* process -> what it is in the middle of
  sent,       \* ghost: how often each message reached Telegram
  unsure,     \* ghost: messages sent although the store could not be asked
  stream      \* process -> its subscriber: published, queue, seen, dropped

deliveryVars == <<rows, deliveries, met, stage, sent, unsure, stream>>

Message  == News \cup Briefings
Free     == [step |-> "free"]
NoStream == [published |-> 0, queue |-> <<>>, seen |-> 0, dropped |-> 0]

\* _record_setup, _notify_settlement and maybe_brief up to the claim.  A store
\* that fails here raises before anything is claimed or sent.
Prepare(g, m) ==
  /\ stage[g] = Free /\ m \notin met[g]
  /\ stage' = [stage EXCEPT ![g] = [step |-> "claim", message |-> m]]
  /\ rows' = rows \cup ({m} \cap News)
  /\ met' = [met EXCEPT ![g] = @ \cup ({m} \cap News)]
  /\ UNCHANGED <<deliveries, sent, unsure, stream>>

\* Fault: each process trusts its own memory.
FaultyWins(m) == TRUE

\* claim_delivery: INSERT ... ON CONFLICT DO NOTHING RETURNING.
Wins(m) == m \notin deliveries

\* _claim_send: the winner sends, and so does whoever gets no answer; the
\* insert may have been committed all the same.
ClaimSend(g) ==
  /\ stage[g].step = "claim"
  /\ LET m == stage[g].message IN
     \/ /\ deliveries' = deliveries \cup {m}
        /\ stage' = [stage EXCEPT ![g].step = IF Wins(m) THEN "send" ELSE "publish"]
        /\ unsure' = unsure
     \/ /\ deliveries' \in {deliveries, deliveries \cup {m}}
        /\ stage' = [stage EXCEPT ![g].step = "send"]
        /\ unsure' = unsure \cup {m}
  /\ UNCHANGED <<rows, met, sent, stream>>

\* telegram.send: accepted; refused, which nobody looks at; or an exception
\* (the message may have arrived), which abandons the rest of the handler.
Send(g) ==
  /\ stage[g].step = "send"
  /\ \/ /\ sent' = [sent EXCEPT ![stage[g].message] = @ + 1]
        /\ stage' = [stage EXCEPT ![g].step = "publish"]
     \/ /\ sent' = sent
        /\ stage' = [stage EXCEPT ![g].step = "publish"]
     \/ /\ sent' \in {sent, [sent EXCEPT ![stage[g].message] = @ + 1]}
        /\ stage' = [stage EXCEPT ![g] = Free]
  /\ UNCHANGED <<rows, deliveries, met, unsure, stream>>

\* Fault: the oldest event is given up too late.
FaultyBoundPushed(s) ==
  LET n == s.published + 1 IN
  IF Len(s.queue) > QueueSize
  THEN [s EXCEPT !.published = n, !.queue = Append(Tail(@), n), !.dropped = @ + 1]
  ELSE [s EXCEPT !.published = n, !.queue = Append(@, n)]

\* Fault: a full queue refuses the new event.
FaultyPushed(s) ==
  LET n == s.published + 1 IN
  IF Len(s.queue) = QueueSize THEN [s EXCEPT !.published = n, !.dropped = @ + 1]
  ELSE [s EXCEPT !.published = n, !.queue = Append(@, n)]

\* publish_ws: a full queue loses its oldest event.
Pushed(s) ==
  LET n == s.published + 1 IN
  IF Len(s.queue) = QueueSize
  THEN [s EXCEPT !.published = n, !.queue = Append(Tail(@), n), !.dropped = @ + 1]
  ELSE [s EXCEPT !.published = n, !.queue = Append(@, n)]

\* The end of the handler: an alert is one event, or two with its intent; a
\* briefing is none and is remembered for the day.
Publish(g) ==
  /\ stage[g].step = "publish"
  /\ stage' = [stage EXCEPT ![g] = Free]
  /\ IF stage[g].message \in News
     THEN /\ stream[g].published + 2 <= LastEvent
          /\ stream' \in {[stream EXCEPT ![g] = Pushed(@)], [stream EXCEPT ![g] = Pushed(Pushed(@))]}
          /\ met' = met
     ELSE stream' = stream /\ met' = [met EXCEPT ![g] = @ \cup {stage[g].message}]
  /\ UNCHANGED <<rows, deliveries, sent, unsure>>

\* The end of _record_setup for a research alert, which is sent to nobody: one
\* event, or two with its simulated intent.
Shadow(g) ==
  /\ stage[g] = Free /\ stream[g].published + 2 <= LastEvent
  /\ stream' \in {[stream EXCEPT ![g] = Pushed(@)], [stream EXCEPT ![g] = Pushed(Pushed(@))]}
  /\ UNCHANGED <<rows, deliveries, met, stage, sent, unsure>>

\* The event loop hands the oldest event to the websocket.
TakeEvent(g) ==
  /\ stream[g].queue # <<>>
  /\ stream' = [stream EXCEPT ![g].seen = Head(stream[g].queue), ![g].queue = Tail(@), ![g].dropped = 0]
  /\ UNCHANGED <<rows, deliveries, met, stage, sent, unsure>>

\* Killed and started again: boot loads the stored rows.
Replaced(g) ==
  /\ stage' = [stage EXCEPT ![g] = Free]
  /\ met' = [met EXCEPT ![g] = rows]
  /\ stream' = [stream EXCEPT ![g] = NoStream]
  /\ UNCHANGED <<rows, deliveries, sent, unsure>>

DeliveryInit ==
  /\ rows = {} /\ deliveries = {} /\ unsure = {}
  /\ met = [g \in Gateway |-> {}] /\ stage = [g \in Gateway |-> Free]
  /\ sent = [m \in Message |-> 0]
  /\ stream = [g \in Gateway |-> NoStream]

DeliveryNext ==
  \E g \in Gateway :
    \/ \E m \in Message : sent[m] < MaxSends /\ Prepare(g, m)
    \/ ClaimSend(g) \/ Send(g) \/ Publish(g) \/ Shadow(g) \/ TakeEvent(g) \/ Replaced(g)

DeliverySpec == DeliveryInit /\ [][DeliveryNext]_deliveryVars
-----------------------------------------------------------------------------
DeliveryTypeOK ==
  /\ rows \subseteq News /\ deliveries \subseteq Message /\ unsure \subseteq Message
  /\ \A g \in Gateway : Len(stream[g].queue) <= QueueSize

\* A message reaches Telegram at most once, although two processes come to it,
\* a process is replaced in the middle of sending, or a briefing is made again
\* after a transport error.  Only a store that did not answer can double it.
DeliveredOnce == \A m \in Message \ unsure : sent[m] <= 1

\* A subscriber that stops reading still gets the newest events in their order:
\* its queue ends with the last one that was published, and what it misses is
\* one gap, no longer than what the queue had to drop.
NewestIsKept ==
  \A g \in Gateway :
    LET s == stream[g] IN
    /\ s.queue = [i \in 1..Len(s.queue) |-> s.published - Len(s.queue) + i]
    /\ s.seen + s.dropped + Len(s.queue) = s.published
=============================================================================
