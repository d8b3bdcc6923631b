--------------------------- MODULE TrackingWorker ---------------------------
(***************************************************************************)
(* The consumer of tracking-worker (services/tracking-worker/src):         *)
(* DeliveryEventConsumer.start, process_message and stop, the status       *)
(* update of PostgresRepository, and the shutdown sequence of main.        *)
(* Several worker processes share the durable consumer of DeliveryStream   *)
(* and the table of ShipmentStore.                                         *)
(*                                                                         *)
(* One worker is one asyncio task, so its steps are the stretches between  *)
(* awaits: fetching, taking the next message of the batch up to its first  *)
(* status, the awaited update, the check of _running after it, the ack,    *)
(* the nak.  Shutdown runs between two of them where the code awaits; the  *)
(* other workers, the server and a kill between any two.                   *)
(*                                                                         *)
(* The publisher is the environment here; DeliveryPlatform puts            *)
(* shipment-api in its place.                                              *)
(***************************************************************************)
EXTENDS DeliveryStream, ShipmentStore, FiniteSets

CONSTANTS Workers,
          NoMessage,       \* a worker between two messages
          Kind,            \* what process_message makes of each payload
          ShipmentOf,      \* the shipment_id of each valid event
          BatchSize,       \* fetch(batch=5)
          Timely,          \* ack_wait never passes for a delivery still held
          MaxDisruptions,  \* bound on crashes, database errors, lost acks/naks
          MaxStops         \* bound on graceful shutdowns

Kinds == {"valid", "malformed", "missing_id", "undecodable"}

ASSUME MessageAssumption ==
  /\ NoMessage \notin Messages
  /\ Kind \in [Messages -> Kinds]
  /\ ShipmentOf \in [Messages -> Shipments]

ASSUME BoundAssumption ==
  /\ Timely \in BOOLEAN
  /\ BatchSize \in Nat /\ MaxDisruptions \in Nat /\ MaxStops \in Nat

VARIABLES
  mode,         \* running: _running, connected.  draining: _running is False and
                \* nc.drain() still lets publishes through.  closed: connection
                \* closed, task not yet cancelled.  down: no process.
  pc,           \* where the consumer task is
  inbox,        \* messages of the last fetch not yet processed
  cur,          \* message in process_message
  step,         \* position in STATUS_LIFECYCLE of the next status to apply
  disruptions,  \* disruptions so far
  stops,        \* shutdowns so far
  cut,          \* history: shipments with a progression broken off part-way
                \* since they last became DELIVERED
  brokenOff     \* history: messages a delivery of which left the lifecycle loop
                \* early and went on to ack

workerVars == <<mode, pc, inbox, cur, step, disruptions, stops, cut, brokenOff>>
vars == <<streamVars, row, workerVars>>

TypeOK ==
  /\ StreamTypeOK
  /\ StoreTypeOK
  /\ mode \in [Workers -> {"running", "draining", "closed", "down"}]
  /\ pc \in [Workers -> {"fetch", "check", "update", "ack", "nak"}]
  /\ inbox \in [Workers -> SUBSET Messages]
  /\ cur \in [Workers -> Messages \cup {NoMessage}]
  /\ step \in [Workers -> 1 .. Len(STATUS_LIFECYCLE) + 1]
  /\ disruptions \in Nat /\ stops \in Nat
  /\ cut \subseteq Shipments
  /\ brokenOff \subseteq Messages

WorkerInit ==
  /\ mode = [w \in Workers |-> "running"]
  /\ pc = [w \in Workers |-> "fetch"]
  /\ inbox = [w \in Workers |-> {}]
  /\ cur = [w \in Workers |-> NoMessage]
  /\ step = [w \in Workers |-> 1]
  /\ disruptions = 0 /\ stops = 0
  /\ cut = {}
  /\ brokenOff = {}

Init ==
  /\ StreamInit
  /\ row = [s \in Shipments |-> "PLACED"]
  /\ WorkerInit

\* The messages a worker holds: the one it processes and the rest of the batch.
Held(w) == inbox[w] \cup ({cur[w]} \ {NoMessage})

\* The worker is inside the lifecycle loop of shipment s.
Progressing(w, s) ==
  /\ pc[w] \in {"check", "update"}
  /\ cur[w] \in Messages
  /\ ShipmentOf[cur[w]] = s

\* The shipments left part-way if the worker abandons its loop now.
PartDone(w) == { s \in Shipments : Progressing(w, s) /\ step[w] > 1 }
-----------------------------------------------------------------------------
\* psub.fetch returns some messages.
Fetch(w) ==
  /\ mode[w] = "running" /\ pc[w] = "fetch" /\ inbox[w] = {}
  /\ \E batch \in SUBSET Deliverable :
       /\ batch # {} /\ Cardinality(batch) <= BatchSize
       /\ DeliverBatch(batch)
       /\ inbox' = [inbox EXCEPT ![w] = batch]
  /\ UNCHANGED <<row, mode, pc, cur, step, disruptions, stops, cut, brokenOff>>

\* NatsTimeoutError: normal when the queue is idle; the loop fetches again.
FetchTimesOut(w) ==
  /\ mode[w] = "running" /\ pc[w] = "fetch" /\ inbox[w] = {}
  /\ UNCHANGED vars

\* Mutant: events are acked on receipt, before the lifecycle loop.
AckOnReceipt(kind) == IF kind = "undecodable" THEN "nak" ELSE "ack"

\* Where process_message goes with a payload: a valid event is on its way to the first
\* status, since nothing is awaited between the _running test of the batch and that of
\* the first round; poison is acked at once; a payload that cannot be decoded, or that
\* is JSON but no object, raises into the handler.
AfterDecode(kind) ==
  CASE kind = "valid" -> "update"
    [] kind \in {"malformed", "missing_id"} -> "ack"
    [] kind = "undecodable" -> "nak"

\* Mutant: a message stays in the batch after it was taken.
TakeAndKeep(w) ==
  /\ mode[w] = "running" /\ pc[w] = "fetch"
  /\ \E m \in inbox[w] :
       /\ cur' = [cur EXCEPT ![w] = m]
       /\ pc' = [pc EXCEPT ![w] = AfterDecode(Kind[m])]
  /\ step' = [step EXCEPT ![w] = 1]
  /\ UNCHANGED <<streamVars, row, mode, inbox, disruptions, stops, cut, brokenOff>>

\* The loop over the batch takes the next message, unless _running went False.
TakeMessage(w) ==
  /\ mode[w] = "running" /\ pc[w] = "fetch"
  /\ \E m \in inbox[w] :
       /\ inbox' = [inbox EXCEPT ![w] = @ \ {m}]
       /\ cur' = [cur EXCEPT ![w] = m]
       /\ pc' = [pc EXCEPT ![w] = AfterDecode(Kind[m])]
  /\ step' = [step EXCEPT ![w] = 1]
  /\ UNCHANGED <<streamVars, row, mode, disruptions, stops, cut, brokenOff>>

\* Top of a later round of the lifecycle loop while the consumer runs.
EnterStep(w) ==
  /\ pc[w] = "check" /\ mode[w] = "running"
  /\ pc' = [pc EXCEPT ![w] = "update"]
  /\ UNCHANGED <<streamVars, row, mode, inbox, cur, step, disruptions, stops,
                 cut, brokenOff>>

\* Top of a later round after stop(): break, and fall through to the ack.
BreakOff(w) ==
  /\ pc[w] = "check" /\ mode[w] \in {"draining", "closed"}
  /\ pc' = [pc EXCEPT ![w] = "ack"]
  /\ cut' = cut \cup PartDone(w)
  /\ brokenOff' = brokenOff \cup {cur[w]}
  /\ UNCHANGED <<streamVars, row, mode, inbox, cur, step, disruptions, stops>>

\* Mutant: the loop ends one status early.
StopShort(i) == IF i + 1 = Len(STATUS_LIFECYCLE) THEN "ack" ELSE "check"

\* The loop goes on to the next status, or is complete.
AfterUpdate(i) == IF i = Len(STATUS_LIFECYCLE) THEN "ack" ELSE "check"

\* sleep and update_shipment_status: the statement commits and returns.
Update(w) ==
  LET s == ShipmentOf[cur[w]] IN
  /\ pc[w] = "update"
  /\ UpdateStatus(s, STATUS_LIFECYCLE[step[w]])
  /\ step' = [step EXCEPT ![w] = @ + 1]
  /\ pc' = [pc EXCEPT ![w] = AfterUpdate(step[w])]
  /\ cut' = IF step[w] = Len(STATUS_LIFECYCLE) THEN cut \ {s} ELSE cut
  /\ UNCHANGED <<streamVars, mode, inbox, cur, disruptions, stops, brokenOff>>

\* Mutant: a failed update is logged and the loop goes on to the next status.
UpdateSkipped(w) ==
  /\ pc[w] = "update"
  /\ disruptions < MaxDisruptions
  /\ disruptions' = disruptions + 1
  /\ step' = [step EXCEPT ![w] = @ + 1]
  /\ pc' = [pc EXCEPT ![w] = AfterUpdate(step[w])]
  /\ UNCHANGED <<streamVars, row, mode, inbox, cur, stops, cut, brokenOff>>

\* Mutant: a failed update is logged and the message acked.
UpdateFailsAcked(w) ==
  /\ pc[w] = "update"
  /\ disruptions < MaxDisruptions
  /\ disruptions' = disruptions + 1
  /\ pc' = [pc EXCEPT ![w] = "ack"]
  /\ cut' = cut \cup PartDone(w)
  /\ UNCHANGED <<streamVars, row, mode, inbox, cur, step, stops, brokenOff>>

\* update_shipment_status raises; the statement may have committed first.
UpdateFails(w) ==
  LET s == ShipmentOf[cur[w]] IN
  /\ pc[w] = "update"
  /\ disruptions < MaxDisruptions
  /\ disruptions' = disruptions + 1
  /\ pc' = [pc EXCEPT ![w] = "nak"]
  /\ \/ /\ UpdateStatus(s, STATUS_LIFECYCLE[step[w]])
        /\ cut' = cut \cup {s}
     \/ /\ UNCHANGED row
        /\ cut' = cut \cup PartDone(w)
  /\ UNCHANGED <<streamVars, mode, inbox, cur, step, stops, brokenOff>>

Publishable(w) == mode[w] \in {"running", "draining"}

\* process_message returns.
FinishMessage(w) ==
  /\ pc' = [pc EXCEPT ![w] = "fetch"]
  /\ cur' = [cur EXCEPT ![w] = NoMessage]
  /\ UNCHANGED <<row, mode, inbox, step, stops, cut, brokenOff>>

\* msg.ack() reaches the server.
Ack(w) ==
  /\ pc[w] = "ack" /\ Publishable(w)
  /\ SettleAck(cur[w])
  /\ FinishMessage(w)
  /\ UNCHANGED disruptions

\* msg.ack() on a closed connection raises into the handler.
AckRaises(w) ==
  /\ pc[w] = "ack" /\ ~Publishable(w)
  /\ pc' = [pc EXCEPT ![w] = "nak"]
  /\ UNCHANGED <<streamVars, row, mode, inbox, cur, step, disruptions, stops,
                 cut, brokenOff>>

\* Mutant: the message is also put back into the local batch for a retry.
NakAndRetry(w) ==
  /\ pc[w] = "nak" /\ Publishable(w)
  /\ SettleNak(cur[w])
  /\ inbox' = [inbox EXCEPT ![w] = @ \cup {cur[w]}]
  /\ pc' = [pc EXCEPT ![w] = "fetch"]
  /\ cur' = [cur EXCEPT ![w] = NoMessage]
  /\ UNCHANGED <<row, mode, step, disruptions, stops, cut, brokenOff>>

\* msg.nak(delay=...) reaches the server.
Nak(w) ==
  /\ pc[w] = "nak" /\ Publishable(w)
  /\ SettleNak(cur[w])
  /\ FinishMessage(w)
  /\ UNCHANGED disruptions

\* msg.nak() on a closed connection raises and is swallowed.
NakRaises(w) ==
  /\ pc[w] = "nak" /\ ~Publishable(w)
  /\ FinishMessage(w)
  /\ UNCHANGED <<streamVars, disruptions>>

\* Acks and naks are fire-and-forget publishes: one that is lost with the
\* connection goes unnoticed.
SettlementLost(w) ==
  /\ pc[w] \in {"ack", "nak"} /\ Publishable(w)
  /\ disruptions < MaxDisruptions
  /\ disruptions' = disruptions + 1
  /\ FinishMessage(w)
  /\ UNCHANGED streamVars
-----------------------------------------------------------------------------
\* The task goes to msg.ack or msg.nak without an await in between: from the decode, or
\* from the break (a loop that is complete, or that failed, comes from an await).
Settling(w) ==
  \/ pc[w] = "ack" /\ step[w] <= Len(STATUS_LIFECYCLE)
  \/ pc[w] = "nak" /\ Kind[cur[w]] = "undecodable"

\* SIGTERM: main calls consumer.stop(), which clears _running and drains.
Stop(w) ==
  /\ mode[w] = "running" /\ ~Settling(w)
  /\ stops < MaxStops
  /\ stops' = stops + 1
  /\ mode' = [mode EXCEPT ![w] = "draining"]
  /\ UNCHANGED <<streamVars, row, pc, inbox, cur, step, disruptions, cut,
                 brokenOff>>

\* drain() stops accepting publishes and the connection closes.
DrainEnds(w) ==
  /\ mode[w] = "draining" /\ ~Settling(w)
  /\ mode' = [mode EXCEPT ![w] = "closed"]
  /\ UNCHANGED <<streamVars, row, pc, inbox, cur, step, disruptions, stops, cut,
                 brokenOff>>

\* The process ends: its batch and the message in hand are gone.
Die(w) ==
  /\ mode' = [mode EXCEPT ![w] = "down"]
  /\ pc' = [pc EXCEPT ![w] = "fetch"]
  /\ inbox' = [inbox EXCEPT ![w] = {}]
  /\ cur' = [cur EXCEPT ![w] = NoMessage]
  /\ step' = [step EXCEPT ![w] = 1]
  /\ cut' = cut \cup PartDone(w)
  /\ UNCHANGED <<streamVars, row, stops, brokenOff>>

\* main cancels the consumer task wherever it waits, closes the pool and returns.
Exit(w) ==
  /\ mode[w] = "closed"
  /\ Die(w)
  /\ UNCHANGED disruptions

\* The container is killed (OOM, node loss, the end of the grace period).
Crash(w) ==
  /\ mode[w] # "down"
  /\ disruptions < MaxDisruptions
  /\ disruptions' = disruptions + 1
  /\ Die(w)

\* The kubelet starts a new container, which connects and subscribes again.
Restart(w) ==
  /\ mode[w] = "down"
  /\ mode' = [mode EXCEPT ![w] = "running"]
  /\ UNCHANGED <<streamVars, row, pc, inbox, cur, step, disruptions, stops, cut,
                 brokenOff>>
-----------------------------------------------------------------------------
\* The server's timers.  Under Timely, ack_wait only passes for a message nobody
\* holds any more.
AckWaitExpires(m) ==
  /\ Timely => \A w \in Workers : m \notin Held(w)
  /\ AckWaitElapses(m)
  /\ UNCHANGED <<row, workerVars>>

NakDelayEnds(m) == BackoffElapses(m) /\ UNCHANGED <<row, workerVars>>

Drop(m) == GiveUp(m) /\ UNCHANGED <<row, workerVars>>

\* The publisher, as the environment.
Publish(m) == StorePublished(m) /\ UNCHANGED <<row, workerVars>>

ProcessStep(w) ==
  \/ TakeMessage(w) \/ EnterStep(w) \/ BreakOff(w) \/ Update(w) \/ Ack(w)
  \/ AckRaises(w) \/ Nak(w) \/ NakRaises(w)

WorkerStep(w) ==
  \/ Fetch(w) \/ FetchTimesOut(w) \/ ProcessStep(w)
  \/ UpdateFails(w) \/ SettlementLost(w)
  \/ Stop(w) \/ DrainEnds(w) \/ Exit(w) \/ Crash(w) \/ Restart(w)

ServerStep(m) == AckWaitExpires(m) \/ NakDelayEnds(m) \/ Drop(m)

Next ==
  \/ \E w \in Workers : WorkerStep(w)
  \/ \E m \in Messages : ServerStep(m) \/ Publish(m)

\* The event loop runs a task that is ready, shutdown runs to its end, the
\* kubelet restarts a container, and the server's timers fire.  Nothing forces a
\* publish, a shutdown or a disruption.
Fairness ==
  /\ \A w \in Workers :
       /\ WF_vars(Fetch(w)) /\ WF_vars(ProcessStep(w))
       /\ WF_vars(DrainEnds(w)) /\ WF_vars(Exit(w)) /\ WF_vars(Restart(w))
  /\ \A m \in Messages : WF_vars(ServerStep(m))

Spec == Init /\ [][Next]_vars

FairSpec == Spec /\ Fairness
-----------------------------------------------------------------------------
\* The events that name shipment s.
EventsOf(s) == { m \in Messages : Kind[m] = "valid" /\ ShipmentOf[m] = s }

\* The events of s were delivered once, all together.
OneDelivery(s) ==
  \E m \in EventsOf(s) : /\ deliveries[m] <= 1
                          /\ \A n \in EventsOf(s) \ {m} : deliveries[n] = 0

OneEventPerShipment ==
  \A m, n \in Messages : Kind[m] = "valid" /\ Kind[n] = "valid" /\ m # n =>
    ShipmentOf[m] # ShipmentOf[n]

\* How far a status is along the lifecycle.
Rank(status) ==
  CASE status = "ABSENT" -> 0 [] status = "PLACED" -> 1
    [] status = "PROCESSING" -> 2 [] status = "IN_TRANSIT" -> 3
    [] status = "DELIVERED" -> 4

PartWay == {"PROCESSING", "IN_TRANSIT"}

(* However the lifecycle loops of overlapping deliveries interleave - the update
   is unconditional, so a slow worker overwrites a fast one - a shipment is found
   part-way only while the worker that wrote that status is still about to write
   the next one, or after a loop was broken off part-way.  (process_message,
   update_shipment_status) *)
PartWayIsInFlight ==
  \A s \in Shipments :
    row[s] \in PartWay /\ s \notin cut =>
      \E w \in Workers : /\ Progressing(w, s)
                         /\ step[w] > 1
                         /\ row[s] = STATUS_LIFECYCLE[step[w] - 1]

(* Once a valid event is acked, and no loop for its shipment was left early, the
   shipment is DELIVERED or a redelivery is still carrying it there: the ack is
   never ahead of the database.  (the ack after the loop in process_message) *)
AckedIsDelivered ==
  \A m \in Messages :
    LET s == ShipmentOf[m] IN
    /\ Kind[m] = "valid" /\ msgState[m] = "acked"
    /\ m \notin brokenOff /\ s \notin cut
    => \/ row[s] = "DELIVERED"
       \/ \E w \in Workers : Progressing(w, s)

(* While ack_wait outlasts every batch, no two workers hold the same delivery
   (the durable consumer all replicas share), and what is held is unsettled. *)
SingleHolder ==
  Timely => \A w \in Workers : \A m \in Held(w) :
              /\ msgState[m] = "out"
              /\ \A v \in Workers \ {w} : m \notin Held(v)

(* While ack_wait outlasts every batch and each shipment has one event, a status
   only ever moves to the next one of the lifecycle, or back to PROCESSING when a
   redelivery starts over: no update is applied out of order.  (the lifecycle loop
   with several workers and redeliveries) *)
OrderlyProgression ==
  [][Timely /\ OneEventPerShipment =>
       \A s \in Shipments : row'[s] # row[s] =>
         row'[s] = "PROCESSING" \/ Rank(row'[s]) = Rank(row[s]) + 1]_vars

(* A shipment only one of whose events was delivered, and only once, never loses
   ground, however slow the worker is and however many duplicates wait in the stream:
   going backwards takes a second delivery.  (unconditional UPDATE against the durable
   consumer's redelivery) *)
FirstDeliveryIsMonotone ==
  [][\A s \in Shipments :
       OneDelivery(s) => Rank(row'[s]) >= Rank(row[s])]_vars

(* Every published message is acked or given up in the end, poison included: no
   message keeps the consumer busy forever.  (max_deliver, poison acks, nak) *)
EventuallySettled == \A m \in Messages : Published(m) ~> Settled(m)

(* Every published valid event ends with its shipment DELIVERED for good, unless a
   shutdown broke its loop off or the interruptions were enough: max_deliver of them
   while ack_wait outlasts every batch, a single one when redeliveries overlap.  (nak
   and redelivery as the retry mechanism, bounded by max_deliver) *)
EventuallyDelivered ==
  \A m \in Messages : Kind[m] = "valid" =>
    (Published(m) ~> \/ [](row[ShipmentOf[m]] = "DELIVERED")
                     \/ m \in brokenOff
                     \/ disruptions + stops >= IF Timely THEN MaxDeliver ELSE 1)
-----------------------------------------------------------------------------
(* The inductive invariant behind PartWayIsInFlight and AckedIsDelivered: *)

\* A message that was never delivered has no deliveries.
FreshIsUndelivered ==
  \A m \in Messages : msgState[m] \in {"absent", "stored"} => deliveries[m] = 0

\* The program counter agrees with the message in hand.
ProcessShape ==
  \A w \in Workers :
    /\ pc[w] = "fetch" <=> cur[w] = NoMessage
    /\ pc[w] \in {"check", "update"} =>
         Kind[cur[w]] = "valid" /\ step[w] <= Len(STATUS_LIFECYCLE)
    /\ pc[w] = "ack" /\ Kind[cur[w]] = "valid" =>
         step[w] = Len(STATUS_LIFECYCLE) + 1 \/ cur[w] \in brokenOff

RowsExist == \A s \in Shipments : row[s] # "ABSENT"

\* A worker past the first update has moved the row on from PLACED.
BegunIsWritten ==
  \A w \in Workers :
    pc[w] \in {"check", "update", "ack"} /\ Kind[cur[w]] = "valid" /\ step[w] > 1
      => row[ShipmentOf[cur[w]]] # "PLACED"

\* So has a delivery that was acked after its whole loop.
AckedIsWritten ==
  \A m \in Messages :
    Kind[m] = "valid" /\ msgState[m] = "acked" /\ m \notin brokenOff
      => row[ShipmentOf[m]] # "PLACED"

IInv ==
  /\ TypeOK /\ FreshIsUndelivered /\ ProcessShape /\ RowsExist
  /\ BegunIsWritten /\ AckedIsWritten /\ PartWayIsInFlight
-----------------------------------------------------------------------------
(* docs/BEGINNER_GUIDE.md, step 3: each update is conditional on the preceding
   state, so reprocessing does not corrupt the current status. *)
StatusNeverRegresses ==
  [][\A s \in Shipments : Rank(row'[s]) >= Rank(row[s])]_vars

(* consumer.py:154: "Acknowledge message upon complete progression". *)
AckOnlyOnCompletion ==
  \A m \in Messages : Kind[m] = "valid" /\ msgState[m] = "acked" =>
    \/ row[ShipmentOf[m]] = "DELIVERED"
    \/ \E w \in Workers : Progressing(w, ShipmentOf[m])
=============================================================================
