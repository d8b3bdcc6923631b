---------------------- MODULE TrackingWorkerOrderProofs ----------------------
(***************************************************************************)
(* Proofs about who holds a delivery and in which order statuses are       *)
(* written in TrackingWorker, for all values of its constants.  The facts  *)
(* about types, program counters and rows come from TrackingWorkerProofs.  *)
(***************************************************************************)
EXTENDS TrackingWorkerProofs

\* A message is in one place of worker w.
HeldOnce(w) == cur[w] \notin inbox[w]

\* While ack_wait outlasts every batch, a held message is out and has one holder.
TimelyHolder ==
  Timely => \A w \in Workers :
    /\ HeldOnce(w)
    /\ \A m \in Held(w) : /\ msgState[m] = "out"
                          /\ \A v \in Workers \ {w} : m \notin Held(v)

\* A held message was delivered; if it was delivered once, it has one holder.
FirstHolder ==
  \A w \in Workers : \A m \in Held(w) :
    /\ deliveries[m] >= 1
    /\ deliveries[m] = 1 =>
         /\ cur[w] = m => m \notin inbox[w]
         /\ \A v \in Workers \ {w} : m \notin Held(v)

HolderInv == TimelyHolder /\ FirstHolder

(* Deliveries are handed out, worked on and given back so that nobody holds what
   another worker may still settle. *)
THEOREM HoldersCorrect == Spec => []HolderInv
<1> USE DEF HolderInv, TimelyHolder, FirstHolder, HeldOnce, Held
<1>1. Init => HolderInv
  BY MessageAssumption DEF Init, WorkerInit
<1>2. TypeInv /\ HolderInv /\ [Next]_vars => HolderInv'
  <2> SUFFICES ASSUME TypeInv, HolderInv, [Next]_vars PROVE HolderInv'
    OBVIOUS
  <2> USE MessageAssumption
  <2> USE DEF TypeInv, TypeOK, StreamTypeOK, streamVars, workerVars
  <2>1. ASSUME NEW w \in Workers, Fetch(w) PROVE HolderInv'
    <3>1. PICK batch \in SUBSET Deliverable :
            DeliverBatch(batch) /\ inbox' = [inbox EXCEPT ![w] = batch]
      BY <2>1 DEF Fetch
    <3>2. inbox[w] = {} /\ cur[w] = NoMessage /\ UNCHANGED cur
      BY <2>1 DEF Fetch, ProcessShape
    <3>3. Held(w) = {} /\ Held(w)' = batch
      BY <3>1, <3>2 DEF Deliverable
    <3>4. \A v \in Workers \ {w} :
            Held(v)' = Held(v) /\ inbox'[v] = inbox[v] /\ cur'[v] = cur[v]
      BY <3>1, <3>2
    <3>5. TimelyHolder'
      <4>1. \A v \in Workers \ {w} : Timely => Held(v) \cap batch = {}
        BY DEF Deliverable
      <4>2. \A m \in batch : m \in Messages /\ msgState'[m] = "out"
        BY <3>1 DEF DeliverBatch, Deliverable
      <4>3. \A m \in Messages : msgState[m] = "out" => msgState'[m] = "out"
        BY <3>1 DEF DeliverBatch
      <4>4. \A v \in Workers : Held(v) \subseteq Messages
        OBVIOUS
      <4> HIDE DEF Held
      <4>5. QED BY <3>1, <3>2, <3>3, <3>4, <4>1, <4>2, <4>3, <4>4
    <3>6. FirstHolder'
      <4>1. \A m \in Messages :
              deliveries'[m] = IF m \in batch THEN deliveries[m] + 1 ELSE deliveries[m]
        BY <3>1 DEF DeliverBatch
      <4>2. \A v \in Workers : Held(v) \subseteq Messages
        OBVIOUS
      <4>3. batch \subseteq Messages /\ \A m \in Messages : deliveries[m] \in Nat
        BY DEF Deliverable
      <4> HIDE DEF Held
      <4>4. ASSUME NEW v \in Workers, NEW m \in Held(v)'
            PROVE  /\ deliveries'[m] >= 1
                   /\ deliveries'[m] = 1 =>
                        /\ cur'[v] = m => m \notin inbox'[v]
                        /\ \A u \in Workers \ {v} : m \notin Held(u)'
        <5>1. CASE v = w
          <6>1. m \in batch /\ deliveries'[m] = deliveries[m] + 1 /\ cur'[v] # m
            BY <5>1, <3>2, <3>3, <4>1, <4>3
          <6>2. deliveries'[m] = 1 => \A u \in Workers \ {w} : m \notin Held(u)
            BY <6>1, <4>3
          <6>3. QED BY <5>1, <6>1, <6>2, <4>3, <3>4
        <5>2. CASE v # w
          <6>1. m \in Held(v) /\ m \in Messages /\ deliveries[m] >= 1
            BY <5>2, <3>4, <4>2
          <6>2. deliveries'[m] >= 1
                /\ (deliveries'[m] = 1 => m \notin batch /\ deliveries[m] = 1)
            BY <6>1, <4>1, <4>3
          <6>3. QED BY <5>2, <6>1, <6>2, <3>3, <3>4
        <5>3. QED BY <5>1, <5>2
      <4>5. QED BY <4>4
    <3>7. QED BY <3>5, <3>6
  <2>2. ASSUME NEW w \in Workers, FetchTimesOut(w) PROVE HolderInv'
    BY <2>2 DEF FetchTimesOut, vars
  <2>3. ASSUME NEW w \in Workers, TakeMessage(w) PROVE HolderInv'
    BY <2>3 DEF TakeMessage, ProcessShape
  <2>4. ASSUME NEW w \in Workers, EnterStep(w) PROVE HolderInv'
    BY <2>4 DEF EnterStep
  <2>5. ASSUME NEW w \in Workers, BreakOff(w) PROVE HolderInv'
    BY <2>5 DEF BreakOff
  <2>6. ASSUME NEW w \in Workers, Update(w) PROVE HolderInv'
    BY <2>6 DEF Update
  <2>7. ASSUME NEW w \in Workers, UpdateFails(w) PROVE HolderInv'
    BY <2>7 DEF UpdateFails
  <2>8. ASSUME NEW w \in Workers, Ack(w) PROVE HolderInv'
    BY <2>8 DEF Ack, SettleAck, FinishMessage, ProcessShape
  <2>9. ASSUME NEW w \in Workers, AckRaises(w) PROVE HolderInv'
    BY <2>9 DEF AckRaises
  <2>10. ASSUME NEW w \in Workers, Nak(w) PROVE HolderInv'
    BY <2>10 DEF Nak, SettleNak, FinishMessage, ProcessShape
  <2>11. ASSUME NEW w \in Workers, NakRaises(w) PROVE HolderInv'
    BY <2>11 DEF NakRaises, FinishMessage
  <2>12. ASSUME NEW w \in Workers, SettlementLost(w) PROVE HolderInv'
    BY <2>12 DEF SettlementLost, FinishMessage
  <2>13. ASSUME NEW w \in Workers, Stop(w) PROVE HolderInv'
    BY <2>13 DEF Stop
  <2>14. ASSUME NEW w \in Workers, DrainEnds(w) PROVE HolderInv'
    BY <2>14 DEF DrainEnds
  <2>15. ASSUME NEW w \in Workers, Exit(w) PROVE HolderInv'
    BY <2>15 DEF Exit, Die
  <2>16. ASSUME NEW w \in Workers, Crash(w) PROVE HolderInv'
    BY <2>16 DEF Crash, Die
  <2>17. ASSUME NEW w \in Workers, Restart(w) PROVE HolderInv'
    BY <2>17 DEF Restart
  <2>18. ASSUME NEW m \in Messages, AckWaitExpires(m) PROVE HolderInv'
    BY <2>18 DEF AckWaitExpires, AckWaitElapses
  <2>19. ASSUME NEW m \in Messages, NakDelayEnds(m) PROVE HolderInv'
    BY <2>19 DEF NakDelayEnds, BackoffElapses
  <2>20. ASSUME NEW m \in Messages, Drop(m) PROVE HolderInv'
    BY <2>20 DEF Drop, GiveUp
  <2>21. ASSUME NEW m \in Messages, Publish(m) PROVE HolderInv'
    BY <2>21 DEF Publish, StorePublished
  <2>22. ASSUME UNCHANGED vars PROVE HolderInv'
    BY <2>22 DEF vars
  <2>23. QED
    BY <2>1, <2>2, <2>3, <2>4, <2>5, <2>6, <2>7, <2>8, <2>9, <2>10, <2>11,
       <2>12, <2>13, <2>14, <2>15, <2>16, <2>17, <2>18, <2>19, <2>20, <2>21, <2>22
       DEF Next, WorkerStep, ProcessStep, ServerStep
<1>3. QED BY <1>1, <1>2, TypeCorrect, PTL DEF Spec

(* While ack_wait outlasts every batch, no two workers hold the same delivery. *)
THEOREM OneHolder == Spec => []SingleHolder
<1>1. HolderInv => SingleHolder
  BY DEF HolderInv, TimelyHolder, SingleHolder
<1>2. QED BY <1>1, HoldersCorrect, PTL
-----------------------------------------------------------------------------
\* Until some event of s is delivered again, the row of s is where the one delivery
\* left it: PLACED until a worker takes it up, then as far as that worker is.
FirstPass ==
  \A s \in Shipments : OneDelivery(s) =>
    /\ (\A m \in EventsOf(s) : deliveries[m] = 0) => row[s] = "PLACED"
    /\ \A w \in Workers : inbox[w] \cap EventsOf(s) # {} => row[s] = "PLACED"
    /\ \A w \in Workers : Progressing(w, s) => Rank(row[s]) = step[w]

\* While ack_wait outlasts every batch and each shipment has one event, the row of a
\* shipment in progress is the status its worker wrote last.
InStep ==
  Timely /\ OneEventPerShipment =>
    \A w \in Workers : \A s \in Shipments :
      Progressing(w, s) /\ step[w] > 1 => row[s] = STATUS_LIFECYCLE[step[w] - 1]

OrderInv == FirstPass /\ InStep

(* How far the status at position i of the lifecycle is. *)
LEMMA RankOfLifecycle ==
  ASSUME NEW i \in 1 .. 3
  PROVE  Rank(STATUS_LIFECYCLE[i]) = i + 1
<1>1. STATUS_LIFECYCLE[1] = "PROCESSING" /\ STATUS_LIFECYCLE[2] = "IN_TRANSIT"
      /\ STATUS_LIFECYCLE[3] = "DELIVERED"
  BY DEF STATUS_LIFECYCLE
<1>2. i = 1 \/ i = 2 \/ i = 3
  OBVIOUS
<1>3. QED BY <1>1, <1>2 DEF Rank

(* A worker in the lifecycle loop holds an event of the shipment. *)
LEMMA ProgressingHolds ==
  ASSUME TypeInv, NEW w \in Workers, NEW s \in Shipments, Progressing(w, s)
  PROVE  cur[w] \in EventsOf(s) /\ cur[w] \in Held(w) /\ step[w] \in 1 .. 3
  BY LifecycleLength, MessageAssumption
     DEF TypeInv, TypeOK, ProcessShape, Progressing, EventsOf, Held

(* On the first delivery of a shipment's events its worker is alone with it. *)
LEMMA FirstIsAlone ==
  ASSUME TypeInv, HolderInv, NEW w \in Workers, NEW s \in Shipments,
         Progressing(w, s), OneDelivery(s)
  PROVE  /\ ~ \A m \in EventsOf(s) : deliveries[m] = 0
         /\ \A v \in Workers : inbox[v] \cap EventsOf(s) = {}
         /\ \A v \in Workers \ {w} : ~Progressing(v, s)
<1>1. PICK m \in EventsOf(s) : /\ deliveries[m] <= 1
                              /\ \A n \in EventsOf(s) \ {m} : deliveries[n] = 0
  BY DEF OneDelivery
<1>2. \A v \in Workers : \A n \in Held(v) : deliveries[n] >= 1
  BY DEF HolderInv, FirstHolder
<1>3. cur[w] \in EventsOf(s) /\ cur[w] \in Held(w)
  BY ProgressingHolds
<1>4. m \in Messages /\ deliveries[m] \in Nat
  BY DEF EventsOf, TypeInv, TypeOK, StreamTypeOK
<1>5. cur[w] = m /\ deliveries[m] = 1
  BY <1>1, <1>2, <1>3, <1>4
<1>6. m \notin inbox[w] /\ \A v \in Workers \ {w} : m \notin Held(v)
  BY <1>3, <1>5 DEF HolderInv, FirstHolder
<1>7. \A v \in Workers : inbox[v] \subseteq Held(v)
  BY DEF Held
<1>8. \A v \in Workers : inbox[v] \cap EventsOf(s) = {}
  BY <1>1, <1>2, <1>6, <1>7
<1>9. ASSUME NEW v \in Workers \ {w}, Progressing(v, s) PROVE FALSE
  <2>1. cur[v] \in EventsOf(s) /\ cur[v] \in Held(v)
    BY <1>9, ProgressingHolds
  <2>2. QED BY <2>1, <1>1, <1>2, <1>6
<1>10. QED BY <1>3, <1>5, <1>8, <1>9

(* While ack_wait outlasts every batch, so is the worker of a shipment with a single
   event. *)
LEMMA TimelyIsAlone ==
  ASSUME TypeInv, HolderInv, Timely, OneEventPerShipment,
         NEW w \in Workers, NEW s \in Shipments, Progressing(w, s)
  PROVE  \A v \in Workers \ {w} : ~Progressing(v, s)
<1> SUFFICES ASSUME NEW v \in Workers \ {w}, Progressing(v, s) PROVE FALSE
  OBVIOUS
<1>1. cur[w] \in EventsOf(s) /\ cur[v] \in EventsOf(s)
  BY ProgressingHolds
<1>2. cur[w] = cur[v]
  BY <1>1 DEF OneEventPerShipment, EventsOf
<1>3. cur[w] \in Held(w) /\ cur[v] \in Held(v)
  BY ProgressingHolds
<1>4. QED BY <1>2, <1>3 DEF HolderInv, TimelyHolder

(* A step that writes no row, delivers nothing and starts no progression. *)
LEMMA QuietStep ==
  ASSUME OrderInv, UNCHANGED <<row, deliveries>>,
         \A v \in Workers : inbox'[v] \subseteq inbox[v],
         \A v \in Workers : \A s \in Shipments :
           Progressing(v, s)' => Progressing(v, s) /\ step'[v] = step[v]
  PROVE  OrderInv'
<1>1. \A s \in Shipments : OneDelivery(s)' <=> OneDelivery(s)
  BY DEF OneDelivery
<1>2. FirstPass'
  BY <1>1 DEF OrderInv, FirstPass
<1>3. InStep'
  BY DEF OrderInv, InStep
<1>4. QED BY <1>2, <1>3 DEF OrderInv

(* A worker commits the status it is at, and goes on to the next or gives up. *)
LEMMA WriteStep ==
  ASSUME IInv, HolderInv, OrderInv, NEW w \in Workers, pc[w] = "update",
         UpdateStatus(ShipmentOf[cur[w]], STATUS_LIFECYCLE[step[w]]),
         UNCHANGED <<deliveries, inbox, cur>>,
         \A v \in Workers \ {w} : pc'[v] = pc[v] /\ step'[v] = step[v],
         pc'[w] \in {"check", "update"} => step'[w] = step[w] + 1
  PROVE  OrderInv'
<1> DEFINE s0 == ShipmentOf[cur[w]]
<1>1. cur[w] \in Messages /\ step[w] \in 1 .. 3 /\ s0 \in Shipments
  BY LifecycleLength, MessageAssumption DEF IInv, TypeOK, ProcessShape
<1>2. /\ row'[s0] = STATUS_LIFECYCLE[step[w]]
      /\ \A s \in Shipments \ {s0} : row'[s] = row[s]
  BY <1>1, WrittenRow DEF IInv, TypeOK
<1>3. TypeInv
  BY DEF IInv, TypeInv
<1>4. Progressing(w, s0)
  BY <1>1 DEF Progressing
<1>5. \A s \in Shipments : OneDelivery(s)' <=> OneDelivery(s)
  BY DEF OneDelivery
<1>6. \A v \in Workers \ {w} : \A s \in Shipments :
        Progressing(v, s)' <=> Progressing(v, s)
  BY DEF Progressing
<1>7. \A s \in Shipments : Progressing(w, s)' => s = s0 /\ step'[w] = step[w] + 1
  BY DEF Progressing
<1>8. FirstPass'
  <2> SUFFICES ASSUME NEW s \in Shipments, OneDelivery(s)
               PROVE  /\ (\A m \in EventsOf(s) : deliveries[m] = 0) => row'[s] = "PLACED"
                      /\ \A v \in Workers :
                           inbox[v] \cap EventsOf(s) # {} => row'[s] = "PLACED"
                      /\ \A v \in Workers :
                           Progressing(v, s)' => Rank(row'[s]) = step'[v]
    BY <1>5 DEF FirstPass
  <2>1. CASE s = s0
    <3>1. /\ ~ \A m \in EventsOf(s) : deliveries[m] = 0
          /\ \A v \in Workers : inbox[v] \cap EventsOf(s) = {}
          /\ \A v \in Workers \ {w} : ~Progressing(v, s)
      BY <2>1, <1>3, <1>4, FirstIsAlone
    <3>2. Rank(row'[s]) = step[w] + 1
      BY <2>1, <1>1, <1>2, RankOfLifecycle
    <3>3. QED BY <3>1, <3>2, <1>6, <1>7
  <2>2. CASE s # s0
    BY <2>2, <1>2, <1>6, <1>7 DEF OrderInv, FirstPass
  <2>3. QED BY <2>1, <2>2
<1>9. InStep'
  <2> SUFFICES ASSUME Timely, OneEventPerShipment,
                      NEW v \in Workers, NEW s \in Shipments,
                      Progressing(v, s)', step'[v] > 1
               PROVE  row'[s] = STATUS_LIFECYCLE[step'[v] - 1]
    BY DEF InStep
  <2>1. CASE v = w
    BY <2>1, <1>1, <1>2, <1>7
  <2>2. CASE v # w
    <3>1. Progressing(v, s)
      BY <2>2, <1>6
    <3>2. s # s0
      BY <2>2, <3>1, <1>3, <1>4, TimelyIsAlone
    <3>3. QED BY <2>2, <3>1, <3>2, <1>2 DEF OrderInv, InStep
  <2>3. QED BY <2>1, <2>2
<1>10. QED BY <1>8, <1>9 DEF OrderInv

(* A fetch: an event delivered for the first time finds its row PLACED. *)
LEMMA FetchStep ==
  ASSUME TypeInv, HolderInv, OrderInv, NEW w \in Workers, Fetch(w)
  PROVE  OrderInv'
<1>1. PICK batch \in SUBSET Deliverable :
        DeliverBatch(batch) /\ inbox' = [inbox EXCEPT ![w] = batch]
  BY DEF Fetch
<1>2. UNCHANGED <<row, pc, cur, step>>
  BY DEF Fetch
<1>3. /\ \A v \in Workers \ {w} : inbox'[v] = inbox[v]
      /\ inbox'[w] = batch
  BY <1>1 DEF TypeInv, TypeOK
<1>4. \A v \in Workers : \A s \in Shipments : Progressing(v, s)' <=> Progressing(v, s)
  BY <1>2 DEF Progressing
<1>5. \A m \in Messages :
        /\ deliveries[m] \in Nat
        /\ deliveries'[m] = IF m \in batch THEN deliveries[m] + 1 ELSE deliveries[m]
  BY <1>1 DEF DeliverBatch, TypeInv, TypeOK, StreamTypeOK
<1>6. FirstPass'
  <2> SUFFICES ASSUME NEW s \in Shipments, OneDelivery(s)'
               PROVE  /\ (\A m \in EventsOf(s) : deliveries'[m] = 0) => row[s] = "PLACED"
                      /\ \A v \in Workers :
                           inbox'[v] \cap EventsOf(s) # {} => row[s] = "PLACED"
                      /\ \A v \in Workers : Progressing(v, s) => Rank(row[s]) = step[v]
    BY <1>2, <1>4 DEF FirstPass
  <2>1. PICK m \in EventsOf(s) : /\ deliveries'[m] <= 1
                                /\ \A n \in EventsOf(s) \ {m} : deliveries'[n] = 0
    BY DEF OneDelivery
  <2>2. EventsOf(s) \subseteq Messages
    BY DEF EventsOf
  <2>3. OneDelivery(s)
    BY <2>1, <2>2, <1>5 DEF OneDelivery
  <2>4. CASE batch \cap EventsOf(s) = {}
    <3>1. \A n \in EventsOf(s) : deliveries'[n] = deliveries[n]
      BY <2>2, <2>4, <1>5
    <3>2. QED BY <2>3, <2>4, <3>1, <1>3 DEF OrderInv, FirstPass
  <2>5. CASE batch \cap EventsOf(s) # {}
    <3>1. \A n \in EventsOf(s) : deliveries[n] = 0
      BY <2>1, <2>2, <2>5, <1>5
    <3>2. row[s] = "PLACED"
      BY <2>3, <3>1 DEF OrderInv, FirstPass
    <3>3. \A v \in Workers : ~Progressing(v, s)
      BY <3>1, ProgressingHolds DEF HolderInv, FirstHolder
    <3>4. QED BY <3>2, <3>3
  <2>6. QED BY <2>4, <2>5
<1>7. InStep'
  BY <1>2, <1>4 DEF OrderInv, InStep
<1>8. QED BY <1>6, <1>7 DEF OrderInv

(* A worker takes up a message: its first status is the next one due. *)
LEMMA TakeStep ==
  ASSUME TypeInv, HolderInv, OrderInv, NEW w \in Workers, TakeMessage(w)
  PROVE  OrderInv'
<1>1. PICK m \in inbox[w] : /\ inbox' = [inbox EXCEPT ![w] = @ \ {m}]
                           /\ cur' = [cur EXCEPT ![w] = m]
                           /\ pc' = [pc EXCEPT ![w] = AfterDecode(Kind[m])]
  BY DEF TakeMessage
<1>2. UNCHANGED <<row, deliveries>> /\ step' = [step EXCEPT ![w] = 1]
  BY DEF TakeMessage, streamVars
<1>3. m \in Messages /\ Kind[m] \in Kinds
  BY <1>1, MessageAssumption DEF TypeInv, TypeOK
<1>4. /\ \A v \in Workers : inbox'[v] \subseteq inbox[v]
      /\ step'[w] = 1 /\ cur'[w] = m /\ pc'[w] = AfterDecode(Kind[m])
  BY <1>1, <1>2 DEF TypeInv, TypeOK
<1>5. \A v \in Workers \ {w} : \A s \in Shipments :
        Progressing(v, s)' => Progressing(v, s) /\ step'[v] = step[v]
  BY <1>1, <1>2 DEF Progressing, TypeInv, TypeOK
<1>6. \A s \in Shipments : Progressing(w, s)' => m \in EventsOf(s)
  BY <1>3, <1>4 DEF Progressing, AfterDecode, Kinds, EventsOf
<1>7. \A s \in Shipments : OneDelivery(s)' <=> OneDelivery(s)
  BY <1>2 DEF OneDelivery
<1>8. FirstPass'
  <2> SUFFICES ASSUME NEW s \in Shipments, OneDelivery(s)
               PROVE  /\ (\A n \in EventsOf(s) : deliveries[n] = 0) => row[s] = "PLACED"
                      /\ \A v \in Workers :
                           inbox'[v] \cap EventsOf(s) # {} => row[s] = "PLACED"
                      /\ \A v \in Workers : Progressing(v, s)' => Rank(row[s]) = step'[v]
    BY <1>2, <1>7 DEF FirstPass
  <2>1. \A v \in Workers : inbox'[v] \cap EventsOf(s) # {} => row[s] = "PLACED"
    BY <1>4 DEF OrderInv, FirstPass
  <2>2. Progressing(w, s)' => Rank(row[s]) = step'[w]
    <3>1. m \in EventsOf(s) => row[s] = "PLACED"
      BY <1>1 DEF OrderInv, FirstPass
    <3>2. Rank("PLACED") = 1
      BY DEF Rank
    <3>3. QED BY <3>1, <3>2, <1>4, <1>6
  <2>3. \A v \in Workers \ {w} : Progressing(v, s)' => Rank(row[s]) = step'[v]
    BY <1>5 DEF OrderInv, FirstPass
  <2>4. QED BY <2>1, <2>2, <2>3 DEF OrderInv, FirstPass
<1>9. InStep'
  BY <1>2, <1>4, <1>5 DEF OrderInv, InStep
<1>10. QED BY <1>8, <1>9 DEF OrderInv

(* The row stays in step with its worker, on a first delivery always, and on every
   delivery while ack_wait outlasts the batches. *)
THEOREM OrderCorrect == Spec => []OrderInv
<1>1. Init => OrderInv
  BY DEF Init, WorkerInit, OrderInv, FirstPass, InStep, Progressing
<1>2. IInv /\ HolderInv /\ OrderInv /\ [Next]_vars => OrderInv'
  <2> SUFFICES ASSUME IInv, HolderInv, OrderInv, [Next]_vars PROVE OrderInv'
    OBVIOUS
  <2>t. TypeInv /\ TypeOK
    BY DEF IInv, TypeInv
  <2>1. ASSUME NEW w \in Workers, Fetch(w) PROVE OrderInv'
    BY <2>1, <2>t, FetchStep
  <2>2. ASSUME NEW w \in Workers, TakeMessage(w) PROVE OrderInv'
    BY <2>2, <2>t, TakeStep
  <2>3. ASSUME NEW w \in Workers, Update(w) PROVE OrderInv'
    <3>1. /\ \A v \in Workers \ {w} : pc'[v] = pc[v] /\ step'[v] = step[v]
          /\ step'[w] = step[w] + 1
      BY <2>3, <2>t DEF Update, TypeOK
    <3>2. /\ pc[w] = "update" /\ UNCHANGED <<deliveries, inbox, cur>>
          /\ UpdateStatus(ShipmentOf[cur[w]], STATUS_LIFECYCLE[step[w]])
      BY <2>3 DEF Update, streamVars
    <3>3. QED BY <3>1, <3>2, WriteStep
  <2>4. ASSUME NEW w \in Workers, UpdateFails(w) PROVE OrderInv'
    <3>1. /\ \A v \in Workers \ {w} : pc'[v] = pc[v]
          /\ pc'[w] = "nak"
          /\ pc[w] = "update" /\ UNCHANGED <<deliveries, inbox, cur, step>>
      BY <2>4, <2>t DEF UpdateFails, TypeOK, streamVars
    <3>2. CASE UpdateStatus(ShipmentOf[cur[w]], STATUS_LIFECYCLE[step[w]])
      BY <3>1, <3>2, WriteStep
    <3>3. CASE UNCHANGED row
      <4>1. \A v \in Workers : \A s \in Shipments :
              Progressing(v, s)' => Progressing(v, s) /\ step'[v] = step[v]
        BY <3>1 DEF Progressing
      <4>2. QED BY <3>1, <3>3, <4>1, QuietStep
    <3>4. QED BY <2>4, <3>2, <3>3 DEF UpdateFails
  <2> DEFINE Quiet == /\ UNCHANGED <<row, deliveries>>
                      /\ \A v \in Workers : inbox'[v] \subseteq inbox[v]
                      /\ \A v \in Workers : \A s \in Shipments :
                           Progressing(v, s)' => Progressing(v, s) /\ step'[v] = step[v]
  <2>5. Quiet => OrderInv'
    BY QuietStep
  <2> USE DEF TypeOK, StreamTypeOK, streamVars, workerVars
  <2>6. ASSUME NEW w \in Workers, FetchTimesOut(w) PROVE Quiet
    BY <2>6, <2>t, MessageAssumption DEF FetchTimesOut, vars, Progressing
  <2>7. ASSUME NEW w \in Workers, EnterStep(w) PROVE Quiet
    BY <2>7, <2>t, MessageAssumption DEF EnterStep, Progressing
  <2>8. ASSUME NEW w \in Workers, BreakOff(w) PROVE Quiet
    BY <2>8, <2>t, MessageAssumption DEF BreakOff, Progressing
  <2>9. ASSUME NEW w \in Workers, Ack(w) PROVE Quiet
    BY <2>9, <2>t, MessageAssumption DEF Ack, SettleAck, FinishMessage, Progressing
  <2>10. ASSUME NEW w \in Workers, AckRaises(w) PROVE Quiet
    BY <2>10, <2>t, MessageAssumption DEF AckRaises, Progressing
  <2>11. ASSUME NEW w \in Workers, Nak(w) PROVE Quiet
    BY <2>11, <2>t, MessageAssumption DEF Nak, SettleNak, FinishMessage, Progressing
  <2>12. ASSUME NEW w \in Workers, NakRaises(w) PROVE Quiet
    BY <2>12, <2>t, MessageAssumption DEF NakRaises, FinishMessage, Progressing
  <2>13. ASSUME NEW w \in Workers, SettlementLost(w) PROVE Quiet
    BY <2>13, <2>t, MessageAssumption DEF SettlementLost, FinishMessage, Progressing
  <2>14. ASSUME NEW w \in Workers, Stop(w) PROVE Quiet
    BY <2>14, <2>t, MessageAssumption DEF Stop, Progressing
  <2>15. ASSUME NEW w \in Workers, DrainEnds(w) PROVE Quiet
    BY <2>15, <2>t, MessageAssumption DEF DrainEnds, Progressing
  <2>16. ASSUME NEW w \in Workers, Exit(w) PROVE Quiet
    BY <2>16, <2>t, MessageAssumption DEF Exit, Die, Progressing
  <2>17. ASSUME NEW w \in Workers, Crash(w) PROVE Quiet
    BY <2>17, <2>t, MessageAssumption DEF Crash, Die, Progressing
  <2>18. ASSUME NEW w \in Workers, Restart(w) PROVE Quiet
    BY <2>18, <2>t, MessageAssumption DEF Restart, Progressing
  <2>19. ASSUME NEW m \in Messages, AckWaitExpires(m) PROVE Quiet
    BY <2>19 DEF AckWaitExpires, AckWaitElapses, Progressing
  <2>20. ASSUME NEW m \in Messages, NakDelayEnds(m) PROVE Quiet
    BY <2>20 DEF NakDelayEnds, BackoffElapses, Progressing
  <2>21. ASSUME NEW m \in Messages, Drop(m) PROVE Quiet
    BY <2>21 DEF Drop, GiveUp, Progressing
  <2>22. ASSUME NEW m \in Messages, Publish(m) PROVE Quiet
    BY <2>22 DEF Publish, StorePublished, Progressing
  <2>23. ASSUME UNCHANGED vars PROVE Quiet
    BY <2>23 DEF vars, Progressing
  <2> HIDE DEF Quiet
  <2>24. QED
    BY <2>1, <2>2, <2>3, <2>4, <2>5, <2>6, <2>7, <2>8, <2>9, <2>10, <2>11,
       <2>12, <2>13, <2>14, <2>15, <2>16, <2>17, <2>18, <2>19, <2>20, <2>21, <2>22, <2>23
       DEF Next, WorkerStep, ProcessStep, ServerStep
<1>3. QED BY <1>1, <1>2, SafetyInvariant, HoldersCorrect, PTL DEF Spec
-----------------------------------------------------------------------------
(* A row changes only by the update of a worker in the lifecycle loop. *)
LEMMA WhoWrites ==
  ASSUME IInv, [Next]_vars, NEW s \in Shipments, row'[s] # row[s]
  PROVE  \E w \in Workers : /\ Progressing(w, s) /\ step[w] \in 1 .. 3
                            /\ row'[s] = STATUS_LIFECYCLE[step[w]]
<1>1. PICK w \in Workers :
        /\ pc[w] = "update"
        /\ UpdateStatus(ShipmentOf[cur[w]], STATUS_LIFECYCLE[step[w]])
  BY DEF Next, WorkerStep, ProcessStep, ServerStep, Fetch, FetchTimesOut,
         TakeMessage, EnterStep, BreakOff, Update, UpdateFails, Ack, AckRaises, Nak,
         NakRaises, SettlementLost, FinishMessage, Stop, DrainEnds, Exit, Crash, Die,
         Restart, AckWaitExpires, NakDelayEnds, Drop, Publish, vars
<1>2. cur[w] \in Messages /\ step[w] \in 1 .. 3 /\ ShipmentOf[cur[w]] \in Shipments
  BY <1>1, LifecycleLength, MessageAssumption DEF IInv, TypeOK, ProcessShape
<1>3. s = ShipmentOf[cur[w]] /\ row'[s] = STATUS_LIFECYCLE[step[w]]
  BY <1>1, <1>2, WrittenRow DEF IInv, TypeOK
<1>4. QED BY <1>1, <1>2, <1>3 DEF Progressing

(* A first delivery never takes a shipment back. *)
THEOREM FirstDeliveryMonotone == Spec => FirstDeliveryIsMonotone
<1>1. IInv /\ OrderInv /\ [Next]_vars =>
        [\A s \in Shipments :
           OneDelivery(s) => Rank(row'[s]) >= Rank(row[s])]_vars
  <2> SUFFICES ASSUME IInv, OrderInv, [Next]_vars, NEW s \in Shipments,
                      OneDelivery(s)
               PROVE  Rank(row'[s]) >= Rank(row[s])
    OBVIOUS
  <2>1. CASE row'[s] = row[s]
    <3>1. row[s] \in Statuses
      BY DEF IInv, TypeOK, StoreTypeOK
    <3>2. Rank(row[s]) \in Nat
      BY <3>1 DEF Rank, Statuses
    <3>3. QED BY <2>1, <3>2
  <2>2. CASE row'[s] # row[s]
    <3>1. PICK w \in Workers : /\ Progressing(w, s) /\ step[w] \in 1 .. 3
                              /\ row'[s] = STATUS_LIFECYCLE[step[w]]
      BY <2>2, WhoWrites
    <3>2. Rank(row[s]) = step[w] /\ Rank(row'[s]) = step[w] + 1
      BY <3>1, RankOfLifecycle DEF OrderInv, FirstPass
    <3>3. QED BY <3>1, <3>2
  <2>3. QED BY <2>1, <2>2
<1>2. QED BY <1>1, SafetyInvariant, OrderCorrect, PTL
          DEF Spec, FirstDeliveryIsMonotone

(* While ack_wait outlasts every batch and each shipment has one event, a status moves
   to the next of the lifecycle or starts over. *)
THEOREM OrderlyUpdates == Spec => OrderlyProgression
<1>1. IInv /\ OrderInv /\ [Next]_vars =>
        [Timely /\ OneEventPerShipment =>
           \A s \in Shipments : row'[s] # row[s] =>
             row'[s] = "PROCESSING" \/ Rank(row'[s]) = Rank(row[s]) + 1]_vars
  <2> SUFFICES ASSUME IInv, OrderInv, [Next]_vars, Timely, OneEventPerShipment,
                      NEW s \in Shipments, row'[s] # row[s]
               PROVE  row'[s] = "PROCESSING" \/ Rank(row'[s]) = Rank(row[s]) + 1
    OBVIOUS
  <2>1. PICK w \in Workers : /\ Progressing(w, s) /\ step[w] \in 1 .. 3
                            /\ row'[s] = STATUS_LIFECYCLE[step[w]]
    BY WhoWrites
  <2>2. CASE step[w] = 1
    BY <2>1, <2>2 DEF STATUS_LIFECYCLE
  <2>3. CASE step[w] > 1
    <3>1. row[s] = STATUS_LIFECYCLE[step[w] - 1] /\ step[w] - 1 \in 1 .. 3
      BY <2>1, <2>3 DEF OrderInv, InStep
    <3>2. QED BY <2>1, <3>1, RankOfLifecycle
  <2>4. QED BY <2>1, <2>2, <2>3
<1>2. QED BY <1>1, SafetyInvariant, OrderCorrect, PTL DEF Spec, OrderlyProgression
=============================================================================
