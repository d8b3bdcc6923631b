------------------------ MODULE TrackingWorkerProofs ------------------------
(***************************************************************************)
(* Proofs about TrackingWorker, for every number of workers, messages and  *)
(* shipments, every assignment of events to shipments, every batch size    *)
(* and max_deliver, and any number of disruptions and shutdowns.           *)
(***************************************************************************)
EXTENDS TrackingWorker, TLAPS

TypeInv == TypeOK /\ FreshIsUndelivered /\ ProcessShape

LEMMA LifecycleLength == Len(STATUS_LIFECYCLE) = 3
  BY DEF STATUS_LIFECYCLE

(* The statuses the worker writes, and which of them are part-way. *)
LEMMA LifecycleStatus ==
  ASSUME NEW i \in 1 .. 3
  PROVE  /\ STATUS_LIFECYCLE[i] \in {"PROCESSING", "IN_TRANSIT", "DELIVERED"}
         /\ STATUS_LIFECYCLE[i] \in PartWay <=> i # 3
<1>1. STATUS_LIFECYCLE[1] = "PROCESSING" /\ STATUS_LIFECYCLE[2] = "IN_TRANSIT"
      /\ STATUS_LIFECYCLE[3] = "DELIVERED"
  BY DEF STATUS_LIFECYCLE
<1>2. i = 1 \/ i = 2 \/ i = 3
  OBVIOUS
<1>3. QED BY <1>1, <1>2 DEF PartWay

(* A pull request never takes a message past max_deliver. *)
LEMMA DeliverBatchType ==
  ASSUME StreamTypeOK, FreshIsUndelivered,
         NEW batch \in SUBSET Deliverable, DeliverBatch(batch)
  PROVE  StreamTypeOK' /\ FreshIsUndelivered'
  BY MaxDeliverAssumption
     DEF FreshIsUndelivered, StreamTypeOK, MsgStates, Deliverable, DeliverBatch

(* Every other step of the server leaves the stream well typed. *)
LEMMA StreamStepType ==
  ASSUME StreamTypeOK, FreshIsUndelivered,
         \/ UNCHANGED streamVars
         \/ \E m \in Messages :
              \/ StorePublished(m) \/ SettleAck(m) \/ SettleNak(m)
              \/ BackoffElapses(m) \/ AckWaitElapses(m) \/ GiveUp(m)
  PROVE  StreamTypeOK' /\ FreshIsUndelivered'
  BY DEF FreshIsUndelivered, StreamTypeOK, MsgStates, streamVars,
         StorePublished, SettleAck, SettleNak, BackoffElapses,
         AckWaitElapses, GiveUp

(* A status written by the worker keeps the table well typed. *)
LEMMA UpdateType ==
  ASSUME StoreTypeOK, NEW s \in Shipments, NEW i \in 1 .. 3,
         UpdateStatus(s, STATUS_LIFECYCLE[i])
  PROVE  StoreTypeOK'
  BY LifecycleStatus DEF StoreTypeOK, Statuses, UpdateStatus

(* What a worker and the server may do keeps every variable in its type - no
   delivery beyond max_deliver, no step beyond the end of the lifecycle - and the
   program counter in agreement with the message in hand. *)
THEOREM TypeCorrect == Spec => []TypeInv
<1> USE LifecycleLength, MessageAssumption, BoundAssumption
<1>1. Init => TypeInv
  BY MaxDeliverAssumption
     DEF Init, TypeInv, TypeOK, FreshIsUndelivered, ProcessShape, StreamInit,
         StreamTypeOK, MsgStates, StoreTypeOK, Statuses, WorkerInit
<1>2. TypeInv /\ [Next]_vars => TypeInv'
  <2> SUFFICES ASSUME TypeInv, [Next]_vars PROVE TypeInv'
    OBVIOUS
  <2> USE DEF TypeInv, TypeOK, ProcessShape
  <2>1. ASSUME NEW w \in Workers, Fetch(w) PROVE TypeInv'
    <3>1. PICK batch \in SUBSET Deliverable :
            DeliverBatch(batch) /\ inbox' = [inbox EXCEPT ![w] = batch]
      BY <2>1 DEF Fetch
    <3>2. StreamTypeOK' /\ FreshIsUndelivered'
      BY <3>1, DeliverBatchType
    <3>3. batch \subseteq Messages
      BY DEF Deliverable
    <3>4. QED BY <2>1, <3>1, <3>2, <3>3 DEF Fetch, StoreTypeOK
  <2>2. ASSUME NEW w \in Workers, FetchTimesOut(w) PROVE TypeInv'
    BY <2>2 DEF FetchTimesOut, vars, workerVars, StoreTypeOK, FreshIsUndelivered, StreamTypeOK, streamVars
  <2>3. ASSUME NEW w \in Workers, TakeMessage(w) PROVE TypeInv'
    <3>1. PICK m \in inbox[w] :
            /\ inbox' = [inbox EXCEPT ![w] = @ \ {m}]
            /\ cur' = [cur EXCEPT ![w] = m]
            /\ pc' = [pc EXCEPT ![w] = AfterDecode(Kind[m])]
      BY <2>3 DEF TakeMessage
    <3>2. m \in Messages /\ Kind[m] \in Kinds
      BY <3>1
    <3>3. /\ AfterDecode(Kind[m]) \in {"update", "ack", "nak"}
          /\ AfterDecode(Kind[m]) = "update" <=> Kind[m] = "valid"
      BY <3>2 DEF AfterDecode, Kinds
    <3>4. QED BY <2>3, <3>1, <3>2, <3>3 DEF TakeMessage, StoreTypeOK, FreshIsUndelivered, StreamTypeOK, streamVars
  <2>4. ASSUME NEW w \in Workers, EnterStep(w) PROVE TypeInv'
    BY <2>4 DEF EnterStep, StoreTypeOK, FreshIsUndelivered, StreamTypeOK, streamVars
  <2>5. ASSUME NEW w \in Workers, BreakOff(w) PROVE TypeInv'
    BY <2>5 DEF BreakOff, PartDone, StoreTypeOK, FreshIsUndelivered, StreamTypeOK, streamVars
  <2>6. ASSUME NEW w \in Workers, Update(w) PROVE TypeInv'
    <3>1. cur[w] \in Messages /\ step[w] \in 1 .. 3
      BY <2>6 DEF Update
    <3>2. StoreTypeOK'
      BY <2>6, <3>1, UpdateType DEF Update
    <3>3. QED BY <2>6, <3>1, <3>2
             DEF Update, AfterUpdate, FreshIsUndelivered, StreamTypeOK, streamVars
  <2>7. ASSUME NEW w \in Workers, UpdateFails(w) PROVE TypeInv'
    <3>1. cur[w] \in Messages /\ step[w] \in 1 .. 3
      BY <2>7 DEF UpdateFails
    <3>2. StoreTypeOK'
      BY <2>7, <3>1, UpdateType DEF UpdateFails, StoreTypeOK
    <3>3. cut' \subseteq Shipments
      BY <2>7, <3>1 DEF UpdateFails, PartDone
    <3>4. QED BY <2>7, <3>1, <3>2, <3>3
             DEF UpdateFails, FreshIsUndelivered, StreamTypeOK, streamVars
  <2>8. ASSUME NEW w \in Workers, Ack(w) PROVE TypeInv'
    <3>1. cur[w] \in Messages
      BY <2>8 DEF Ack
    <3>2. StreamTypeOK' /\ FreshIsUndelivered'
      BY <2>8, <3>1, StreamStepType DEF Ack
    <3>3. QED BY <2>8, <3>1, <3>2 DEF Ack, FinishMessage, StoreTypeOK
  <2>9. ASSUME NEW w \in Workers, AckRaises(w) PROVE TypeInv'
    BY <2>9 DEF AckRaises, Publishable, StoreTypeOK, FreshIsUndelivered, StreamTypeOK, streamVars
  <2>10. ASSUME NEW w \in Workers, Nak(w) PROVE TypeInv'
    <3>1. cur[w] \in Messages
      BY <2>10 DEF Nak
    <3>2. StreamTypeOK' /\ FreshIsUndelivered'
      BY <2>10, <3>1, StreamStepType DEF Nak
    <3>3. QED BY <2>10, <3>1, <3>2 DEF Nak, FinishMessage, StoreTypeOK
  <2>11. ASSUME NEW w \in Workers, NakRaises(w) PROVE TypeInv'
    BY <2>11 DEF NakRaises, FinishMessage, StoreTypeOK, FreshIsUndelivered, StreamTypeOK, streamVars
  <2>12. ASSUME NEW w \in Workers, SettlementLost(w) PROVE TypeInv'
    BY <2>12 DEF SettlementLost, FinishMessage, StoreTypeOK, FreshIsUndelivered, StreamTypeOK, streamVars
  <2>13. ASSUME NEW w \in Workers, Stop(w) PROVE TypeInv'
    BY <2>13 DEF Stop, StoreTypeOK, FreshIsUndelivered, StreamTypeOK, streamVars
  <2>14. ASSUME NEW w \in Workers, DrainEnds(w) PROVE TypeInv'
    BY <2>14 DEF DrainEnds, StoreTypeOK, FreshIsUndelivered, StreamTypeOK, streamVars
  <2>15. ASSUME NEW w \in Workers, Exit(w) PROVE TypeInv'
    BY <2>15 DEF Exit, Die, PartDone, StoreTypeOK, FreshIsUndelivered, StreamTypeOK, streamVars
  <2>16. ASSUME NEW w \in Workers, Crash(w) PROVE TypeInv'
    BY <2>16 DEF Crash, Die, PartDone, StoreTypeOK, FreshIsUndelivered, StreamTypeOK, streamVars
  <2>17. ASSUME NEW w \in Workers, Restart(w) PROVE TypeInv'
    BY <2>17 DEF Restart, StoreTypeOK, FreshIsUndelivered, StreamTypeOK, streamVars
  <2>18. ASSUME NEW m \in Messages, ServerStep(m) \/ Publish(m)
         PROVE  TypeInv'
    <3>1. StreamTypeOK' /\ FreshIsUndelivered'
      BY <2>18, StreamStepType
         DEF ServerStep, AckWaitExpires, NakDelayEnds, Drop, Publish
    <3>2. UNCHANGED <<row, workerVars>>
      BY <2>18 DEF ServerStep, AckWaitExpires, NakDelayEnds, Drop, Publish
    <3>3. QED BY <3>1, <3>2 DEF workerVars, StoreTypeOK
  <2>19. ASSUME UNCHANGED vars PROVE TypeInv'
    BY <2>19 DEF vars, workerVars, StoreTypeOK, FreshIsUndelivered, StreamTypeOK, streamVars
  <2>20. QED
    BY <2>1, <2>2, <2>3, <2>4, <2>5, <2>6, <2>7, <2>8, <2>9, <2>10, <2>11,
       <2>12, <2>13, <2>14, <2>15, <2>16, <2>17, <2>18, <2>19
       DEF Next, WorkerStep, ProcessStep
<1>3. QED BY <1>1, <1>2, PTL DEF Spec
-----------------------------------------------------------------------------
SafetyInv == RowsExist /\ BegunIsWritten /\ AckedIsWritten /\ PartWayIsInFlight

(* Steps that write no row.  The safety invariant survives them if every worker
   that is about to write the next status stays so, unless its shipment joins cut;
   no worker appears past the first update from nowhere; and whoever acks had
   finished the loop. *)
LEMMA StepWithoutWrite ==
  ASSUME TypeInv, TypeInv', SafetyInv,
         UNCHANGED row, cut \subseteq cut', brokenOff \subseteq brokenOff',
         \A v \in Workers : \A s \in Shipments \ cut' :
           Progressing(v, s) /\ step[v] > 1 =>
             Progressing(v, s)' /\ step'[v] = step[v],
         \A v \in Workers :
           pc'[v] \in {"check", "update", "ack"} /\ step'[v] > 1 =>
             /\ pc[v] \in {"check", "update", "ack"}
             /\ cur'[v] = cur[v] /\ step'[v] = step[v],
         \A m \in Messages : msgState'[m] = "acked" =>
           msgState[m] = "acked" \/ \E v \in Workers : cur[v] = m /\ pc[v] = "ack"
  PROVE  SafetyInv'
<1> USE DEF SafetyInv
<1>1. RowsExist'
  BY DEF RowsExist
<1>2. BegunIsWritten'
  BY DEF BegunIsWritten
<1>3. AckedIsWritten'
  <2> SUFFICES ASSUME NEW m \in Messages, Kind[m] = "valid",
                      msgState'[m] = "acked", m \notin brokenOff'
               PROVE  row'[ShipmentOf[m]] # "PLACED"
    BY DEF AckedIsWritten
  <2>1. CASE msgState[m] = "acked"
    BY <2>1 DEF AckedIsWritten
  <2>2. CASE \E v \in Workers : cur[v] = m /\ pc[v] = "ack"
    <3>1. PICK v \in Workers : cur[v] = m /\ pc[v] = "ack"
      BY <2>2
    <3>2. step[v] = 4
      BY <3>1, LifecycleLength DEF TypeInv, ProcessShape
    <3>3. QED BY <3>1, <3>2 DEF BegunIsWritten
  <2>3. QED BY <2>1, <2>2
<1>4. PartWayIsInFlight'
  BY DEF PartWayIsInFlight
<1>5. QED BY <1>1, <1>2, <1>3, <1>4

(* The row of s takes the status at position i of the lifecycle. *)
LEMMA WrittenRow ==
  ASSUME StoreTypeOK, RowsExist, NEW s \in Shipments, NEW i \in 1 .. 3,
         UpdateStatus(s, STATUS_LIFECYCLE[i])
  PROVE  /\ row'[s] = STATUS_LIFECYCLE[i]
         /\ row'[s] \notin {"ABSENT", "PLACED"}
         /\ row'[s] \in PartWay <=> i # 3
         /\ \A t \in Shipments \ {s} : row'[t] = row[t]
  BY LifecycleStatus DEF StoreTypeOK, RowsExist, UpdateStatus

(* The core of the argument.  Whatever the other workers of the same shipment have
   written or are about to write, the worker that commits a status becomes the one
   that is about to write the next. *)
LEMMA UpdateIsSafe ==
  ASSUME TypeInv, TypeInv', SafetyInv, NEW w \in Workers, Update(w)
  PROVE  SafetyInv'
<1> USE DEF SafetyInv
<1> DEFINE s == ShipmentOf[cur[w]]
<1>1. cur[w] \in Messages /\ Kind[cur[w]] = "valid" /\ step[w] \in 1 .. 3
      /\ s \in Shipments /\ pc[w] = "update"
  BY LifecycleLength, MessageAssumption
     DEF Update, TypeInv, TypeOK, ProcessShape
<1>2. /\ row'[s] = STATUS_LIFECYCLE[step[w]]
      /\ row'[s] \notin {"ABSENT", "PLACED"}
      /\ row'[s] \in PartWay <=> step[w] # 3
      /\ \A t \in Shipments \ {s} : row'[t] = row[t]
  BY <1>1, WrittenRow DEF Update, TypeInv, TypeOK
<1>3. /\ step' = [step EXCEPT ![w] = @ + 1]
      /\ pc' = [pc EXCEPT ![w] = AfterUpdate(step[w])]
      /\ cut' = IF step[w] = 3 THEN cut \ {s} ELSE cut
      /\ UNCHANGED <<msgState, cur, brokenOff>>
  BY LifecycleLength DEF Update, streamVars
<1>4. /\ step'[w] = step[w] + 1
      /\ \A v \in Workers \ {w} : step'[v] = step[v] /\ pc'[v] = pc[v]
  BY <1>3 DEF TypeInv, TypeOK
<1>5. RowsExist'
  BY <1>2 DEF RowsExist
<1>6. BegunIsWritten'
  <2> SUFFICES ASSUME NEW v \in Workers, pc'[v] \in {"check", "update", "ack"},
                      Kind[cur'[v]] = "valid", step'[v] > 1
               PROVE  row'[ShipmentOf[cur'[v]]] # "PLACED"
    BY DEF BegunIsWritten
  <2>1. CASE v = w
    BY <2>1, <1>2, <1>3
  <2>2. CASE v # w
    <3>1. cur[v] \in Messages /\ row[ShipmentOf[cur[v]]] # "PLACED"
      BY <2>2, <1>3, <1>4 DEF BegunIsWritten, TypeInv, TypeOK, ProcessShape
    <3>2. ShipmentOf[cur[v]] \in Shipments
      BY <3>1, MessageAssumption
    <3>3. QED BY <3>1, <3>2, <1>2, <1>3
  <2>3. QED BY <2>1, <2>2
<1>7. AckedIsWritten'
  BY <1>1, <1>2, <1>3, MessageAssumption DEF AckedIsWritten
<1>8. PartWayIsInFlight'
  <2> SUFFICES ASSUME NEW t \in Shipments, row'[t] \in PartWay, t \notin cut'
               PROVE  \E v \in Workers : /\ Progressing(v, t)'
                                         /\ step'[v] > 1
                                         /\ row'[t] = STATUS_LIFECYCLE[step'[v] - 1]
    BY DEF PartWayIsInFlight
  <2>1. CASE t = s
    <3>1. step[w] \in 1 .. 2 /\ pc'[w] = "check"
      BY <2>1, <1>1, <1>2, <1>3, LifecycleLength DEF AfterUpdate, TypeInv, TypeOK
    <3>2. Progressing(w, t)'
      BY <2>1, <3>1, <1>1, <1>3 DEF Progressing
    <3>3. row'[t] = STATUS_LIFECYCLE[step'[w] - 1] /\ step'[w] > 1
      BY <2>1, <3>1, <1>2, <1>4
    <3>4. QED BY <3>2, <3>3
  <2>2. CASE t # s
    <3>1. row[t] \in PartWay /\ t \notin cut /\ row'[t] = row[t]
      BY <2>2, <1>2, <1>3
    <3>2. PICK v \in Workers : /\ Progressing(v, t)
                              /\ step[v] > 1
                              /\ row[t] = STATUS_LIFECYCLE[step[v] - 1]
      BY <3>1 DEF PartWayIsInFlight
    <3>3. v # w
      BY <2>2, <3>2 DEF Progressing
    <3>4. QED BY <3>1, <3>2, <3>3, <1>3, <1>4 DEF Progressing
  <2>3. QED BY <2>1, <2>2
<1>9. QED BY <1>5, <1>6, <1>7, <1>8

(* A statement that raises, whether or not it committed, leaves the loop of its
   shipment cut. *)
LEMMA UpdateFailsIsSafe ==
  ASSUME TypeInv, TypeInv', SafetyInv, NEW w \in Workers, UpdateFails(w)
  PROVE  SafetyInv'
<1> USE DEF SafetyInv
<1> DEFINE s == ShipmentOf[cur[w]]
<1>1. cur[w] \in Messages /\ Kind[cur[w]] = "valid" /\ step[w] \in 1 .. 3
      /\ s \in Shipments /\ pc[w] = "update"
  BY LifecycleLength, MessageAssumption
     DEF UpdateFails, TypeInv, TypeOK, ProcessShape
<1>2. /\ pc' = [pc EXCEPT ![w] = "nak"]
      /\ UNCHANGED <<msgState, cur, step, brokenOff>>
  BY DEF UpdateFails, streamVars
<1>3. /\ pc'[w] = "nak"
      /\ \A v \in Workers \ {w} : pc'[v] = pc[v]
  BY <1>2 DEF TypeInv, TypeOK
<1>4. CASE UNCHANGED row /\ cut' = cut \cup PartDone(w)
  <2>1. \A v \in Workers : \A t \in Shipments \ cut' :
          Progressing(v, t) /\ step[v] > 1 => Progressing(v, t)'
    BY <1>2, <1>3, <1>4 DEF Progressing, PartDone
  <2>2. QED BY <1>2, <1>3, <1>4, <2>1, StepWithoutWrite DEF SafetyInv
<1>5. CASE /\ UpdateStatus(s, STATUS_LIFECYCLE[step[w]])
           /\ cut' = cut \cup {s}
  <2>1. /\ row'[s] \notin {"ABSENT", "PLACED"}
        /\ \A t \in Shipments \ {s} : row'[t] = row[t]
    BY <1>1, <1>5, WrittenRow DEF TypeInv, TypeOK
  <2>2. RowsExist'
    BY <2>1 DEF RowsExist
  <2>3. BegunIsWritten'
    <3> SUFFICES ASSUME NEW v \in Workers, pc'[v] \in {"check", "update", "ack"},
                        Kind[cur'[v]] = "valid", step'[v] > 1
                 PROVE  row'[ShipmentOf[cur'[v]]] # "PLACED"
      BY DEF BegunIsWritten
    <3>1. v # w /\ pc'[v] = pc[v] /\ cur'[v] = cur[v] /\ step'[v] = step[v]
      BY <1>2, <1>3
    <3>2. cur[v] \in Messages /\ row[ShipmentOf[cur[v]]] # "PLACED"
      BY <3>1 DEF BegunIsWritten, TypeInv, TypeOK, ProcessShape
    <3>3. ShipmentOf[cur[v]] \in Shipments
      BY <3>2, MessageAssumption
    <3>4. QED BY <3>1, <3>2, <3>3, <2>1
  <2>4. AckedIsWritten'
    BY <2>1, <1>1, <1>2, MessageAssumption DEF AckedIsWritten
  <2>5. PartWayIsInFlight'
    BY <2>1, <1>1, <1>2, <1>3, <1>5 DEF PartWayIsInFlight, Progressing
  <2>6. QED BY <2>2, <2>3, <2>4, <2>5
<1>6. QED BY <1>4, <1>5 DEF UpdateFails

(* No other step of a worker writes a row. *)
LEMMA OtherStepIsSafe ==
  ASSUME TypeInv, TypeInv', SafetyInv, NEW w \in Workers, WorkerStep(w),
         ~Update(w), ~UpdateFails(w)
  PROVE  SafetyInv'
<1> USE DEF TypeInv, TypeOK, ProcessShape, streamVars, Progressing
<1>1. CASE Fetch(w)
  BY <1>1, StepWithoutWrite DEF Fetch, DeliverBatch
<1>2. CASE FetchTimesOut(w)
  BY <1>2, StepWithoutWrite DEF FetchTimesOut, vars, workerVars
<1>3. CASE TakeMessage(w)
  BY <1>3, StepWithoutWrite DEF TakeMessage
<1>4. CASE EnterStep(w)
  BY <1>4, StepWithoutWrite DEF EnterStep
<1>5. CASE BreakOff(w)
  BY <1>5, StepWithoutWrite DEF BreakOff, PartDone
<1>6. CASE Ack(w)
  BY <1>6, StepWithoutWrite DEF Ack, SettleAck, FinishMessage
<1>7. CASE AckRaises(w)
  BY <1>7, StepWithoutWrite DEF AckRaises
<1>8. CASE Nak(w)
  BY <1>8, StepWithoutWrite DEF Nak, SettleNak, FinishMessage
<1>9. CASE NakRaises(w)
  BY <1>9, StepWithoutWrite DEF NakRaises, FinishMessage
<1>10. CASE SettlementLost(w)
  BY <1>10, StepWithoutWrite DEF SettlementLost, FinishMessage
<1>11. CASE Stop(w)
  BY <1>11, StepWithoutWrite DEF Stop
<1>12. CASE DrainEnds(w)
  BY <1>12, StepWithoutWrite DEF DrainEnds
<1>13. CASE Exit(w)
  BY <1>13, StepWithoutWrite DEF Exit, Die, PartDone
<1>14. CASE Crash(w)
  BY <1>14, StepWithoutWrite DEF Crash, Die, PartDone
<1>15. CASE Restart(w)
  BY <1>15, StepWithoutWrite DEF Restart
<1>16. QED
  BY <1>1, <1>2, <1>3, <1>4, <1>5, <1>6, <1>7, <1>8, <1>9, <1>10, <1>11, <1>12,
     <1>13, <1>14, <1>15 DEF WorkerStep, ProcessStep

(* Neither does the server or the publisher. *)
LEMMA ServerStepIsSafe ==
  ASSUME TypeInv, TypeInv', SafetyInv, NEW m \in Messages,
         ServerStep(m) \/ Publish(m)
  PROVE  SafetyInv'
<1>1. UNCHANGED <<row, workerVars>>
  BY DEF ServerStep, AckWaitExpires, NakDelayEnds, Drop, Publish
<1>2. \A n \in Messages : msgState'[n] = "acked" => msgState[n] = "acked"
  BY DEF ServerStep, AckWaitExpires, NakDelayEnds, Drop, Publish, AckWaitElapses,
         BackoffElapses, GiveUp, StorePublished, TypeInv, TypeOK, StreamTypeOK
<1>3. QED BY <1>1, <1>2, StepWithoutWrite DEF workerVars, Progressing

(* Every variable stays in its type, and no message is delivered more than
   max_deliver times. *)
THEOREM WellTyped == Spec => []TypeOK
<1>1. TypeInv => TypeOK
  BY DEF TypeInv
<1>2. QED BY TypeCorrect, <1>1, PTL

(* The inductive invariant. *)
THEOREM SafetyInvariant == Spec => []IInv
<1>1. Init => SafetyInv
  BY MessageAssumption
     DEF Init, SafetyInv, RowsExist, BegunIsWritten, AckedIsWritten,
         PartWayIsInFlight, PartWay, StreamInit, WorkerInit
<1>2. TypeInv /\ TypeInv' /\ SafetyInv /\ [Next]_vars => SafetyInv'
  <2> SUFFICES ASSUME TypeInv, TypeInv', SafetyInv, [Next]_vars PROVE SafetyInv'
    OBVIOUS
  <2>1. CASE \E w \in Workers : WorkerStep(w)
    BY <2>1, UpdateIsSafe, UpdateFailsIsSafe, OtherStepIsSafe
  <2>2. CASE \E m \in Messages : ServerStep(m) \/ Publish(m)
    BY <2>2, ServerStepIsSafe
  <2>3. CASE UNCHANGED vars
    BY <2>3, StepWithoutWrite DEF vars, workerVars, streamVars, Progressing
  <2>4. QED BY <2>1, <2>2, <2>3 DEF Next
<1>3. TypeInv /\ SafetyInv => IInv
  BY DEF TypeInv, SafetyInv, IInv
<1>4. QED BY TypeCorrect, <1>1, <1>2, <1>3, PTL DEF Spec

(* A shipment is part-way only while its last writer is still at work or after a
   progression was broken off, for any interleaving of overlapping deliveries. *)
THEOREM PartWayOnlyInFlight == Spec => []PartWayIsInFlight
<1>1. IInv => PartWayIsInFlight
  BY DEF IInv
<1>2. QED BY SafetyInvariant, <1>1, PTL

(* The ack of a whole progression is never ahead of the database. *)
THEOREM AckedMeansDelivered == Spec => []AckedIsDelivered
<1>1. IInv => AckedIsDelivered
  <2> SUFFICES ASSUME IInv, NEW m \in Messages, Kind[m] = "valid",
                      msgState[m] = "acked", m \notin brokenOff,
                      ShipmentOf[m] \notin cut
               PROVE  \/ row[ShipmentOf[m]] = "DELIVERED"
                      \/ \E w \in Workers : Progressing(w, ShipmentOf[m])
    BY DEF AckedIsDelivered
  <2>1. ShipmentOf[m] \in Shipments /\ row[ShipmentOf[m]] \in Statuses
    BY MessageAssumption DEF IInv, TypeOK, StoreTypeOK
  <2>2. row[ShipmentOf[m]] \notin {"ABSENT", "PLACED"}
    BY <2>1 DEF IInv, RowsExist, AckedIsWritten
  <2>3. CASE row[ShipmentOf[m]] \in PartWay
    BY <2>1, <2>3 DEF IInv, PartWayIsInFlight
  <2>4. QED BY <2>1, <2>2, <2>3 DEF Statuses, PartWay
<1>2. QED BY SafetyInvariant, <1>1, PTL
=============================================================================
