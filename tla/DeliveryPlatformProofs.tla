------------------------ MODULE DeliveryPlatformProofs ------------------------
(***************************************************************************)
(* Proofs about the two services together, for every number of requests,   *)
(* replicas and workers and every number of faults, stops and deliveries.  *)
(* A step of one service is summarised by what it does to the table and    *)
(* the stream, and the invariants of the other are shown to survive that.  *)
(***************************************************************************)
EXTENDS DeliveryPlatform, TLAPS

\* The request that drew an event is unique, and so is its shipment.
LEMMA EventNamesShipment ==
  ASSUME NEW r \in Requests
  PROVE  /\ NewEvent[r] \in Messages /\ NewShipment[r] \in Shipments
         /\ ShipmentOfEvent[NewEvent[r]] = NewShipment[r]
<1>1. NewEvent[r] \in Messages /\ NewShipment[r] \in Shipments
  BY DrawnAssumption
<1>2. (CHOOSE q \in Requests : NewEvent[q] = NewEvent[r]) = r
  BY DrawnAssumption
<1>3. QED BY <1>1, <1>2 DEF ShipmentOfEvent

LEMMA EventDrawn ==
  ASSUME NEW m \in Messages
  PROVE  /\ ShipmentOfEvent[m] \in Shipments
         /\ \E r \in Requests : NewEvent[r] = m /\ NewShipment[r] = ShipmentOfEvent[m]
  BY DrawnAssumption, EventNamesShipment

LEMMA OneEventEach ==
  ASSUME NEW m \in Messages, NEW n \in Messages, m # n
  PROVE  ShipmentOfEvent[m] # ShipmentOfEvent[n]
  BY DrawnAssumption, EventNamesShipment, EventDrawn

LEMMA LifecycleValues ==
  /\ STATUS_LIFECYCLE[1] = "PROCESSING" /\ STATUS_LIFECYCLE[2] = "IN_TRANSIT"
  /\ STATUS_LIFECYCLE[3] = "DELIVERED" /\ Len(STATUS_LIFECYCLE) = 3
  /\ Worker!STATUS_LIFECYCLE = STATUS_LIFECYCLE
  BY DEF STATUS_LIFECYCLE, Worker!STATUS_LIFECYCLE
-----------------------------------------------------------------------------
\* All that a step of shipment-api does to the table and the stream: at most one
\* insert by a handler that waits for it, at most one event of a row that exists.
ApiEffect ==
  /\ \/ UNCHANGED row
     \/ \E r \in Requests : /\ handler[r] = "insert"
                            /\ row' = [row EXCEPT ![NewShipment[r]] = "PLACED"]
  /\ \/ UNCHANGED msgState
     \/ \E r \in Requests : /\ msgState[NewEvent[r]] = "absent"
                            /\ msgState' = [msgState EXCEPT ![NewEvent[r]] = "stored"]

\* An API step keeps the request side and touches the rest as ApiEffect says.
LEMMA ApiKeeps ==
  ASSUME ShapeOK, RequestInv, ApiStep
  PROVE  ShapeOK' /\ RequestInv' /\ ApiEffect
<1> DEFINE Goal == ShapeOK' /\ RequestInv' /\ ApiEffect
<1> USE DrawnAssumption
<1> USE DEF ShapeOK, Statuses, MsgStates, RequestInv, Api!RequestShape,
            Api!EventHasRow, FailedInsertIsSilent, Api!Stored, Published,
            Api!Published, ApiEffect
<1> USE DEF Api!Respond, Api!GoTo, Api!InsertRow, Api!StorePublished,
            Api!EndProcess, Api!InFlightAt, Api!streamVars
<1>u. UNCHANGED <<pc, inbox, cur, step>>
  BY DEF ApiStep, workerVars
<1>1. ASSUME NEW r \in Requests, Api!Receive(r) PROVE Goal
  BY <1>u, <1>1 DEF Api!Receive
<1>2. ASSUME NEW r \in Requests, Api!Refuse(r) PROVE Goal
  BY <1>u, <1>2 DEF Api!Refuse, Api!RefusalCode
<1>3. ASSUME NEW r \in Requests, Api!Accept(r) PROVE Goal
  BY <1>u, <1>3 DEF Api!Accept
<1>4. ASSUME NEW r \in Requests, Api!Insert(r) PROVE Goal
  <2>1. handler[r] = "insert" /\ row' = [row EXCEPT ![NewShipment[r]] = "PLACED"]
        /\ UNCHANGED msgState
    BY <1>4 DEF Api!Insert
  <2>2. \A q \in Requests \ {r} : row'[NewShipment[q]] = row[NewShipment[q]]
    BY <2>1
  <2>3. ShapeOK' /\ row'[NewShipment[r]] = "PLACED"
    BY <1>u, <1>4, <2>1 DEF Api!Insert
  <2>4. RequestInv'
    BY <1>4, <2>1, <2>2, <2>3 DEF Api!Insert
  <2>5. QED BY <2>1, <2>3, <2>4
<1>5. ASSUME NEW r \in Requests, Api!InsertFails(r) PROVE Goal
  BY <1>u, <1>5 DEF Api!InsertFails
<1>6. ASSUME NEW r \in Requests, Api!Publish(r) PROVE Goal
  <2>1. msgState[NewEvent[r]] = "absent" /\ UNCHANGED row
        /\ msgState' = [msgState EXCEPT ![NewEvent[r]] = "stored"]
    BY <1>6 DEF Api!Publish
  <2>2. \A q \in Requests \ {r} : msgState'[NewEvent[q]] = msgState[NewEvent[q]]
    BY <2>1
  <2>3. ShapeOK' /\ msgState'[NewEvent[r]] = "stored"
    BY <1>u, <1>6, <2>1 DEF Api!Publish
  <2>4. RequestInv'
    BY <1>6, <2>1, <2>2, <2>3 DEF Api!Publish
  <2>5. QED BY <2>1, <2>3, <2>4
<1>7. ASSUME NEW r \in Requests, Api!Confirm(r) PROVE Goal
  BY <1>u, <1>7 DEF Api!Confirm
<1>8. ASSUME NEW r \in Requests, Api!PublishFails(r) PROVE Goal
  BY <1>u, <1>8 DEF Api!PublishFails
<1>9. ASSUME NEW r \in Requests, Api!FlushBuffered(r) PROVE Goal
  <2>1. msgState[NewEvent[r]] = "absent" /\ UNCHANGED row
        /\ msgState' = [msgState EXCEPT ![NewEvent[r]] = "stored"]
    BY <1>9 DEF Api!FlushBuffered
  <2>2. \A q \in Requests \ {r} : msgState'[NewEvent[q]] = msgState[NewEvent[q]]
    BY <2>1
  <2>3. ShapeOK' /\ msgState'[NewEvent[r]] = "stored"
    BY <1>u, <1>9, <2>1 DEF Api!FlushBuffered
  <2>4. RequestInv'
    BY <1>9, <2>1, <2>2, <2>3 DEF Api!FlushBuffered
  <2>5. QED BY <2>1, <2>3, <2>4
<1>10. ASSUME NEW r \in Requests, Api!HangUp(r) PROVE Goal
  BY <1>u, <1>10 DEF Api!HangUp
<1>11. ASSUME NEW v \in Servers, Api!Shutdown(v) PROVE Goal
  BY <1>u, <1>11 DEF Api!Shutdown
<1>12. ASSUME NEW v \in Servers, Api!ShutdownEnds(v) PROVE Goal
  BY <1>u, <1>12 DEF Api!ShutdownEnds
<1>13. ASSUME NEW v \in Servers, Api!Crash(v) PROVE Goal
  BY <1>u, <1>13 DEF Api!Crash
<1>14. ASSUME NEW v \in Servers, Api!Restart(v) PROVE Goal
  BY <1>u, <1>14 DEF Api!Restart
<1> HIDE DEF Goal
<1>15. Goal
  BY <1>1, <1>2, <1>3, <1>4, <1>5, <1>6, <1>7, <1>8, <1>9, <1>10, <1>11, <1>12, <1>13, <1>14
     DEF ApiStep, Api!RequestStep, Api!HandlerStep, Api!ServerStep
<1>16. QED BY <1>15 DEF Goal
-----------------------------------------------------------------------------
\* What the workers never do: delete or create a row, unpublish or publish an event.
WorkerEffect ==
  /\ \A s \in Shipments : row'[s] = "ABSENT" <=> row[s] = "ABSENT"
  /\ \A m \in Messages : Published(m)' <=> Published(m)

\* A worker step keeps the shape of the state and has that effect only.
LEMMA WorkerKeeps ==
  ASSUME ShapeOK, HandInv, WorkerStep
  PROVE  ShapeOK' /\ WorkerEffect
<1> DEFINE Goal == ShapeOK' /\ WorkerEffect
<1> USE NoMessageAssumption, EventDrawn, LifecycleValues
<1> USE DEF ShapeOK, Statuses, MsgStates, HandInv, Published, WorkerEffect
<1> USE DEF Worker!UpdateStatus, Worker!FinishMessage, Worker!Die,
            Worker!streamVars, Worker!workerVars
<1>u. UNCHANGED <<handler, response, buffered>>
  BY DEF WorkerStep, apiVars
<1>1. ASSUME NEW w \in Workers, Worker!Fetch(w) PROVE Goal
  BY <1>u, <1>1 DEF Worker!Fetch, Worker!Deliverable, Worker!DeliverBatch
<1>2. ASSUME NEW w \in Workers, Worker!FetchTimesOut(w) PROVE Goal
  BY <1>u, <1>2 DEF Worker!FetchTimesOut, Worker!vars
<1>3. ASSUME NEW w \in Workers, Worker!TakeMessage(w) PROVE Goal
  BY <1>u, <1>3 DEF Worker!TakeMessage, Worker!AfterDecode, KindOfEvent
<1>4. ASSUME NEW w \in Workers, Worker!EnterStep(w) PROVE Goal
  BY <1>u, <1>4 DEF Worker!EnterStep
<1>5. ASSUME NEW w \in Workers, Worker!BreakOff(w) PROVE Goal
  BY <1>u, <1>5 DEF Worker!BreakOff
<1>6. ASSUME NEW w \in Workers, Worker!Update(w) PROVE Goal
  BY <1>u, <1>6 DEF Worker!Update, Worker!AfterUpdate
<1>7. ASSUME NEW w \in Workers, Worker!UpdateFails(w) PROVE Goal
  BY <1>u, <1>7 DEF Worker!UpdateFails
<1>8. ASSUME NEW w \in Workers, Worker!Ack(w) PROVE Goal
  BY <1>u, <1>8 DEF Worker!Ack, Worker!SettleAck
<1>9. ASSUME NEW w \in Workers, Worker!AckRaises(w) PROVE Goal
  BY <1>u, <1>9 DEF Worker!AckRaises
<1>10. ASSUME NEW w \in Workers, Worker!Nak(w) PROVE Goal
  BY <1>u, <1>10 DEF Worker!Nak, Worker!SettleNak
<1>11. ASSUME NEW w \in Workers, Worker!NakRaises(w) PROVE Goal
  BY <1>u, <1>11 DEF Worker!NakRaises
<1>12. ASSUME NEW w \in Workers, Worker!SettlementLost(w) PROVE Goal
  BY <1>u, <1>12 DEF Worker!SettlementLost
<1>13. ASSUME NEW w \in Workers, Worker!Stop(w) PROVE Goal
  BY <1>u, <1>13 DEF Worker!Stop
<1>14. ASSUME NEW w \in Workers, Worker!DrainEnds(w) PROVE Goal
  BY <1>u, <1>14 DEF Worker!DrainEnds
<1>15. ASSUME NEW w \in Workers, Worker!Exit(w) PROVE Goal
  BY <1>u, <1>15 DEF Worker!Exit
<1>16. ASSUME NEW w \in Workers, Worker!Crash(w) PROVE Goal
  BY <1>u, <1>16 DEF Worker!Crash
<1>17. ASSUME NEW w \in Workers, Worker!Restart(w) PROVE Goal
  BY <1>u, <1>17 DEF Worker!Restart
<1>18. ASSUME NEW m \in Messages, Worker!AckWaitExpires(m) PROVE Goal
  BY <1>u, <1>18 DEF Worker!AckWaitExpires, Worker!AckWaitElapses
<1>19. ASSUME NEW m \in Messages, Worker!NakDelayEnds(m) PROVE Goal
  BY <1>u, <1>19 DEF Worker!NakDelayEnds, Worker!BackoffElapses
<1>20. ASSUME NEW m \in Messages, Worker!Drop(m) PROVE Goal
  BY <1>u, <1>20 DEF Worker!Drop, Worker!GiveUp
<1> HIDE DEF Goal
<1>21. Goal
  BY <1>1, <1>2, <1>3, <1>4, <1>5, <1>6, <1>7, <1>8, <1>9, <1>10, <1>11,
     <1>12, <1>13, <1>14, <1>15, <1>16, <1>17, <1>18, <1>19, <1>20
     DEF WorkerStep, Worker!WorkerStep, Worker!ProcessStep, Worker!ServerStep
<1>22. QED BY <1>21 DEF Goal
-----------------------------------------------------------------------------
\* A worker in the lifecycle loop has an event in hand that was published, so its
\* shipment has a row.
LEMMA ProgressHasRow ==
  ASSUME ShapeOK, RequestInv, HandInv, NEW w \in Workers, NEW s \in Shipments,
         Worker!Progressing(w, s)
  PROVE  /\ row[s] # "ABSENT"
         /\ cur[w] \in Worker!Held(w) /\ Published(cur[w])
<1>1. cur[w] \in Messages /\ s = ShipmentOfEvent[cur[w]] /\ cur[w] # NoMessage
  BY NoMessageAssumption DEF Worker!Progressing
<1>2. cur[w] \in Worker!Held(w)
  BY <1>1 DEF Worker!Held
<1>3. Published(cur[w])
  BY <1>2 DEF HandInv
<1>4. PICK r \in Requests : NewEvent[r] = cur[w] /\ NewShipment[r] = s
  BY <1>1, EventDrawn
<1>5. row[s] # "ABSENT"
  BY <1>3, <1>4 DEF RequestInv, Api!EventHasRow, Api!Stored, Api!Published, Published
<1>6. QED BY <1>2, <1>3, <1>5

\* While ack_wait outlasts every batch, it is the only one in the loop of its shipment.
LEMMA ProgressIsAlone ==
  ASSUME ShapeOK, OneHand, Timely, NEW w \in Workers, NEW v \in Workers \ {w},
         NEW s \in Shipments, Worker!Progressing(w, s)
  PROVE  ~Worker!Progressing(v, s)
<1> SUFFICES ASSUME Worker!Progressing(v, s) PROVE FALSE
  OBVIOUS
<1>1. cur[w] \in Messages /\ cur[v] \in Messages
  BY DEF Worker!Progressing
<1>2. cur[w] = cur[v]
  BY <1>1, OneEventEach DEF Worker!Progressing
<1>3. cur[w] \in Worker!Held(w) /\ cur[w] \in Worker!Held(v)
  BY <1>1, <1>2, NoMessageAssumption DEF Worker!Held
<1>4. QED BY <1>3 DEF OneHand

\* Where the updating worker is, and what its statement writes.
LEMMA UpdateTarget ==
  ASSUME ShapeOK, RequestInv, HandInv, NEW w \in Workers, pc[w] = "update",
         NEW s, s = ShipmentOfEvent[cur[w]]
  PROVE  /\ s \in Shipments /\ step[w] \in 1 .. 3 /\ Worker!Progressing(w, s)
         /\ Worker!UpdateStatus(s, Worker!STATUS_LIFECYCLE[step[w]]) =>
              row' = [row EXCEPT ![s] = STATUS_LIFECYCLE[step[w]]]
<1>1. cur[w] \in Messages /\ step[w] \in 1 .. 3
  BY DEF ShapeOK, HandInv
<1>2. s \in Shipments /\ Worker!Progressing(w, s)
  BY <1>1, EventDrawn DEF Worker!Progressing
<1>3. row[s] # "ABSENT"
  BY <1>2, ProgressHasRow
<1>4. QED BY <1>1, <1>2, <1>3, LifecycleValues DEF Worker!UpdateStatus, ShapeOK
-----------------------------------------------------------------------------
\* Hands that only let go keep what is known of held events.
LEMMA LettingGo ==
  ASSUME ShapeOK, ShapeOK', HandInv, OneHand,
         \A v \in Workers : inbox'[v] \subseteq inbox[v] /\ cur'[v] \in {cur[v], NoMessage},
         \A m \in Messages : Published(m) => Published(m)',
         Timely => \A v \in Workers : \A m \in Worker!Held(v)' : msgState'[m] = msgState[m]
  PROVE  OneHand' /\ \A w \in Workers : \A m \in Worker!Held(w)' : Published(m)'
<1>1. \A w \in Workers : Worker!Held(w)' \subseteq Worker!Held(w)
  BY DEF Worker!Held
<1>2. \A w \in Workers : Worker!Held(w) \subseteq Messages
  BY DEF Worker!Held, ShapeOK
<1>3. \A w \in Workers : \A m \in Worker!Held(w)' : Published(m)'
  BY <1>1, <1>2 DEF HandInv
<1>4. ASSUME Timely, NEW w \in Workers PROVE cur'[w] \notin inbox'[w]
  BY <1>4, NoMessageAssumption DEF OneHand, ShapeOK
<1>5. ASSUME Timely, NEW w \in Workers, NEW m \in Worker!Held(w)'
      PROVE  /\ msgState'[m] = "out"
             /\ \A v \in Workers \ {w} : m \notin Worker!Held(v)'
  BY <1>1, <1>5 DEF OneHand
<1>6. QED BY <1>3, <1>4, <1>5 DEF OneHand

\* Loops that only go on where they were, or are left, keep what is known of rows.
LEMMA LeavingRows ==
  ASSUME BegunIsPublished, RowFollows, UNCHANGED row,
         \A m \in Messages : Published(m) => Published(m)',
         \A v \in Workers : \A s \in Shipments :
           Worker!Progressing(v, s)' /\ step'[v] > 1 =>
             Worker!Progressing(v, s) /\ step'[v] = step[v]
  PROVE  BegunIsPublished' /\ RowFollows'
<1>1. BegunIsPublished'
  BY EventNamesShipment DEF BegunIsPublished
<1>2. RowFollows'
  <2> SUFFICES ASSUME Timely, NEW w \in Workers, NEW s \in Shipments,
                      Worker!Progressing(w, s)', step'[w] > 1
               PROVE  row'[s] = STATUS_LIFECYCLE[step'[w] - 1]
    BY DEF RowFollows
  <2>1. Worker!Progressing(w, s) /\ step'[w] = step[w]
    OBVIOUS
  <2>2. row[s] = STATUS_LIFECYCLE[step[w] - 1]
    BY <2>1 DEF RowFollows
  <2>3. QED BY <2>1, <2>2 DEF STATUS_LIFECYCLE
<1>3. QED BY <1>1, <1>2

\* An update writes the status its worker is at, with nobody else in that loop.
LEMMA WritingRow ==
  ASSUME ShapeOK, RequestInv, BegunIsPublished, HandInv, OneHand, RowFollows,
         \A m \in Messages : Published(m) => Published(m)',
         NEW w \in Workers, pc[w] = "update",
         Worker!UpdateStatus(ShipmentOfEvent[cur[w]], Worker!STATUS_LIFECYCLE[step[w]]),
         UNCHANGED cur,
         \A v \in Workers \ {w} : pc'[v] = pc[v] /\ step'[v] = step[v],
         pc'[w] \in {"check", "update"} => step'[w] = step[w] + 1
  PROVE  BegunIsPublished' /\ RowFollows'
<1> DEFINE s0 == ShipmentOfEvent[cur[w]]
<1>1. /\ s0 \in Shipments /\ step[w] \in 1 .. 3 /\ Worker!Progressing(w, s0)
      /\ row' = [row EXCEPT ![s0] = STATUS_LIFECYCLE[step[w]]]
  BY UpdateTarget
<1>2. row'[s0] = STATUS_LIFECYCLE[step[w]] /\ \A s \in Shipments \ {s0} : row'[s] = row[s]
  BY <1>1 DEF ShapeOK
<1>3. cur[w] \in Messages /\ Published(cur[w])'
  BY <1>1, ProgressHasRow DEF Worker!Progressing
<1>4. BegunIsPublished'
  <2> SUFFICES ASSUME NEW r \in Requests, row'[NewShipment[r]] \notin {"ABSENT", "PLACED"}
               PROVE  Published(NewEvent[r])'
    BY DEF BegunIsPublished
  <2>1. CASE NewShipment[r] = s0
    <3>1. NewEvent[r] = cur[w]
      BY <1>3, <2>1, EventNamesShipment, OneEventEach
    <3>2. QED BY <1>3, <3>1
  <2>2. CASE NewShipment[r] # s0
    BY <1>2, <2>2, EventNamesShipment DEF BegunIsPublished
  <2>3. QED BY <2>1, <2>2
<1>5. RowFollows'
  <2> SUFFICES ASSUME Timely, NEW v \in Workers, NEW s \in Shipments,
                      Worker!Progressing(v, s)', step'[v] > 1
               PROVE  row'[s] = STATUS_LIFECYCLE[step'[v] - 1]
    BY DEF RowFollows
  <2>1. CASE v = w
    <3>1. s = s0 /\ step'[w] = step[w] + 1
      BY <2>1 DEF Worker!Progressing
    <3>2. step'[w] - 1 = step[w]
      BY <1>1, <3>1
    <3>3. QED BY <1>2, <2>1, <3>1, <3>2
  <2>2. CASE v # w
    <3>1. Worker!Progressing(v, s) /\ step'[v] = step[v]
      BY <2>2 DEF Worker!Progressing
    <3>2. s # s0
      BY <1>1, <2>2, <3>1, ProgressIsAlone
    <3>3. row[s] = STATUS_LIFECYCLE[step[v] - 1]
      BY <3>1 DEF RowFollows
    <3>4. QED BY <1>2, <3>1, <3>2, <3>3
  <2>3. QED BY <2>1, <2>2
<1>6. QED BY <1>4, <1>5
-----------------------------------------------------------------------------
\* An API step inserts only rows no worker has an event of.
LEMMA ApiKeepsHands ==
  ASSUME IInv, ApiStep
  PROVE  IInv'
<1> USE DEF IInv
<1>1. ShapeOK' /\ RequestInv' /\ ApiEffect
  BY ApiKeeps
<1>2. UNCHANGED <<pc, inbox, cur, step>>
  BY DEF ApiStep, workerVars
<1>3. \A m \in Messages : Published(m) => msgState'[m] = msgState[m] /\ Published(m)'
  BY <1>1, EventNamesShipment DEF ApiEffect, Published, ShapeOK
<1>4. HandInv' /\ OneHand'
  <2>1. \A w \in Workers : \A m \in Worker!Held(w) : m \in Messages /\ Published(m)
    BY DEF HandInv, ShapeOK, Worker!Held
  <2>2. \A w \in Workers : Worker!Held(w)' = Worker!Held(w)
    BY <1>2 DEF Worker!Held
  <2>3. OneHand' /\ \A w \in Workers : \A m \in Worker!Held(w)' : Published(m)'
    BY <1>1, <1>2, <1>3, <2>1, <2>2, LettingGo
  <2>4. QED BY <1>2, <2>3 DEF HandInv
<1>5. CASE UNCHANGED row
  BY <1>1, <1>2, <1>3, <1>4, <1>5, LeavingRows DEF Worker!Progressing
<1>6. CASE \E r \in Requests : /\ handler[r] = "insert"
                               /\ row' = [row EXCEPT ![NewShipment[r]] = "PLACED"]
  <2>1. PICK r \in Requests : /\ handler[r] = "insert"
                              /\ row' = [row EXCEPT ![NewShipment[r]] = "PLACED"]
    BY <1>6
  <2> DEFINE s0 == NewShipment[r]
  <2>2. s0 \in Shipments /\ row[s0] = "ABSENT"
    BY <2>1, EventNamesShipment DEF RequestInv, Api!RequestShape, Api!Stored
  <2>3. row'[s0] = "PLACED" /\ \A s \in Shipments \ {s0} : row'[s] = row[s]
    BY <2>1, <2>2 DEF ShapeOK
  <2>4. BegunIsPublished'
    BY <1>3, <2>3, EventNamesShipment DEF BegunIsPublished
  <2>5. \A w \in Workers : ~Worker!Progressing(w, s0)
    BY <2>2, ProgressHasRow
  <2>6. RowFollows'
    <3> SUFFICES ASSUME Timely, NEW w \in Workers, NEW s \in Shipments,
                        Worker!Progressing(w, s), step[w] > 1
                 PROVE  row'[s] = STATUS_LIFECYCLE[step[w] - 1]
      BY <1>2 DEF RowFollows, Worker!Progressing
    <3>1. row[s] = STATUS_LIFECYCLE[step[w] - 1]
      BY DEF RowFollows
    <3>2. QED BY <2>3, <2>5, <3>1
  <2>7. QED BY <1>1, <1>4, <2>4, <2>6
<1>7. QED BY <1>1, <1>5, <1>6 DEF ApiEffect

\* A worker step keeps its own side, and leaves the requests' as WorkerEffect says.
LEMMA WorkerKeepsRequests ==
  ASSUME ShapeOK, HandInv, RequestInv, WorkerStep
  PROVE  RequestInv'
<1>1. WorkerEffect /\ UNCHANGED apiVars
  BY WorkerKeeps DEF WorkerStep
<1>2. \A r \in Requests : /\ Api!Stored(r)' <=> Api!Stored(r)
                          /\ Published(NewEvent[r])' <=> Published(NewEvent[r])
                          /\ Api!Published(NewEvent[r]) <=> Published(NewEvent[r])
                          /\ Api!Published(NewEvent[r])' <=> Published(NewEvent[r])'
  BY <1>1, EventNamesShipment
     DEF WorkerEffect, Api!Stored, Api!Published, Published
<1>3. QED
  BY <1>1, <1>2
     DEF RequestInv, Api!RequestShape, Api!EventHasRow, FailedInsertIsSilent, apiVars
-----------------------------------------------------------------------------
\* A worker step keeps what is known of hands and rows: apart from the fetch, the next
\* message and the update, it only lets go of what it holds.
LEMMA WorkerKeepsHands ==
  ASSUME IInv, WorkerStep
  PROVE  IInv'
<1> DEFINE Hands == HandInv' /\ OneHand'
           Rows == BegunIsPublished' /\ RowFollows'
<1> USE DEF IInv
<1>s. ShapeOK' /\ WorkerEffect /\ RequestInv'
  BY WorkerKeeps, WorkerKeepsRequests
<1>p. \A m \in Messages : Published(m) => Published(m)'
  BY <1>s DEF WorkerEffect
\* What most steps do: let go of what is held, go on in no loop but their own.
<1> DEFINE LetGo ==
             /\ \A v \in Workers :
                  inbox'[v] \subseteq inbox[v] /\ cur'[v] \in {cur[v], NoMessage}
             /\ Timely => \A v \in Workers : \A m \in Worker!Held(v)' :
                            msgState'[m] = msgState[m]
             /\ \A v \in Workers :
                  /\ pc'[v] = "fetch" <=> cur'[v] = NoMessage
                  /\ pc'[v] \in {"check", "update"} => step'[v] \in 1 .. 3
           Stay ==
             /\ UNCHANGED row
             /\ \A v \in Workers : pc'[v] \in {"check", "update"} =>
                  pc[v] \in {"check", "update"} /\ cur'[v] = cur[v] /\ step'[v] = step[v]
<1>l. LetGo => Hands
  BY <1>s, <1>p, LettingGo DEF HandInv
<1>t. Stay => Rows
  BY <1>p, LeavingRows DEF Worker!Progressing
<1> HIDE DEF Hands, Rows
<1> USE NoMessageAssumption
<1> USE DEF ShapeOK, HandInv
<1> USE DEF Worker!FinishMessage, Worker!Die, Worker!streamVars, Worker!workerVars
<1>1. ASSUME NEW w \in Workers, Worker!FetchTimesOut(w) PROVE LetGo /\ Stay
  BY <1>s, <1>1 DEF Worker!FetchTimesOut, Worker!vars
<1>2. ASSUME NEW w \in Workers, Worker!EnterStep(w) PROVE LetGo /\ Stay
  BY <1>s, <1>2 DEF Worker!EnterStep
<1>3. ASSUME NEW w \in Workers, Worker!BreakOff(w) PROVE LetGo /\ Stay
  BY <1>s, <1>3 DEF Worker!BreakOff
<1>4. ASSUME NEW w \in Workers, Worker!AckRaises(w) PROVE LetGo /\ Stay
  BY <1>s, <1>4 DEF Worker!AckRaises
<1>5. ASSUME NEW w \in Workers, Worker!NakRaises(w) PROVE LetGo /\ Stay
  BY <1>s, <1>5 DEF Worker!NakRaises
<1>6. ASSUME NEW w \in Workers, Worker!SettlementLost(w) PROVE LetGo /\ Stay
  BY <1>s, <1>6 DEF Worker!SettlementLost
<1>7. ASSUME NEW w \in Workers, Worker!Stop(w) PROVE LetGo /\ Stay
  BY <1>s, <1>7 DEF Worker!Stop
<1>8. ASSUME NEW w \in Workers, Worker!DrainEnds(w) PROVE LetGo /\ Stay
  BY <1>s, <1>8 DEF Worker!DrainEnds
<1>9. ASSUME NEW w \in Workers, Worker!Exit(w) PROVE LetGo /\ Stay
  BY <1>s, <1>9 DEF Worker!Exit
<1>10. ASSUME NEW w \in Workers, Worker!Crash(w) PROVE LetGo /\ Stay
  BY <1>s, <1>10 DEF Worker!Crash
<1>11. ASSUME NEW w \in Workers, Worker!Restart(w) PROVE LetGo /\ Stay
  BY <1>s, <1>11 DEF Worker!Restart
<1>12. ASSUME NEW m \in Messages, Worker!AckWaitExpires(m) PROVE LetGo /\ Stay
  BY <1>12 DEF Worker!AckWaitExpires, Worker!AckWaitElapses, Worker!Held
<1>13. ASSUME NEW m \in Messages, Worker!NakDelayEnds(m) \/ Worker!Drop(m)
       PROVE  LetGo /\ Stay
  BY <1>13 DEF Worker!NakDelayEnds, Worker!BackoffElapses, Worker!Drop, Worker!GiveUp,
               Worker!Held, OneHand
<1>14. ASSUME NEW w \in Workers, Worker!Ack(w) \/ Worker!Nak(w) PROVE LetGo /\ Stay
  <2>1. /\ cur[w] \in Messages /\ cur[w] \in Worker!Held(w)
        /\ \A m \in Messages \ {cur[w]} : msgState'[m] = msgState[m]
    BY <1>14 DEF Worker!Ack, Worker!Nak, Worker!SettleAck, Worker!SettleNak, Worker!Held
  <2>2. /\ cur' = [cur EXCEPT ![w] = NoMessage] /\ pc' = [pc EXCEPT ![w] = "fetch"]
        /\ UNCHANGED <<row, inbox, step>>
    BY <1>14 DEF Worker!Ack, Worker!Nak
  <2>3. ASSUME Timely, NEW v \in Workers, NEW m \in Worker!Held(v)'
        PROVE  msgState'[m] = msgState[m]
    <3>1. m \in Messages /\ m \in Worker!Held(v)
      BY <2>2 DEF Worker!Held
    <3>2. m # cur[w]
      <4>1. CASE v = w
        BY <2>2, <2>3, <4>1, <3>1 DEF Worker!Held, OneHand
      <4>2. CASE v # w
        BY <2>1, <2>3, <3>1, <4>2 DEF OneHand
      <4>3. QED BY <4>1, <4>2
    <3>3. QED BY <2>1, <3>1, <3>2
  <2>4. QED BY <2>2, <2>3
<1>15. ASSUME NEW w \in Workers, Worker!Update(w) \/ Worker!UpdateFails(w)
       PROVE  Hands /\ Rows
  <2>1. /\ pc[w] = "update" /\ UNCHANGED <<msgState, inbox, cur>>
        /\ pc' = [pc EXCEPT ![w] = pc'[w]] /\ step' = [step EXCEPT ![w] = step'[w]]
        /\ pc'[w] \in {"check", "ack", "nak"}
        /\ pc'[w] = "check" => step'[w] = step[w] + 1 /\ step[w] # 3
    BY <1>15, LifecycleValues
       DEF Worker!Update, Worker!UpdateFails, Worker!AfterUpdate
  <2>2. LetGo
    BY <2>1
  <2>3. \/ UNCHANGED row /\ pc'[w] = "nak"
        \/ Worker!UpdateStatus(ShipmentOfEvent[cur[w]], Worker!STATUS_LIFECYCLE[step[w]])
    BY <1>15 DEF Worker!Update, Worker!UpdateFails
  <2>4. CASE UNCHANGED row /\ pc'[w] = "nak"
    BY <1>l, <1>t, <2>1, <2>2, <2>4
  <2>5. CASE Worker!UpdateStatus(ShipmentOfEvent[cur[w]], Worker!STATUS_LIFECYCLE[step[w]])
    BY <1>l, <1>p, <2>1, <2>2, <2>5, WritingRow DEF Rows
  <2>6. QED BY <2>3, <2>4, <2>5
<1>16. ASSUME NEW w \in Workers, Worker!TakeMessage(w) PROVE Hands /\ Rows
  <2>1. PICK m \in inbox[w] : /\ inbox' = [inbox EXCEPT ![w] = @ \ {m}]
                              /\ cur' = [cur EXCEPT ![w] = m]
                              /\ pc' = [pc EXCEPT ![w] = "update"]
    BY <1>16 DEF Worker!TakeMessage, Worker!AfterDecode, KindOfEvent
  <2>2. /\ m \in Messages /\ cur[w] = NoMessage /\ UNCHANGED <<row, msgState>>
        /\ step' = [step EXCEPT ![w] = 1]
    BY <1>16 DEF Worker!TakeMessage
  <2>3. \A v \in Workers : Worker!Held(v)' = Worker!Held(v)
    BY <2>1, <2>2 DEF Worker!Held
  <2>4. HandInv'
    BY <1>p, <2>1, <2>2, <2>3 DEF Published
  <2>5. OneHand'
    BY <2>1, <2>2, <2>3 DEF OneHand
  <2>6. BegunIsPublished' /\ RowFollows'
    BY <1>p, <2>1, <2>2, LeavingRows DEF Worker!Progressing
  <2>7. QED BY <2>4, <2>5, <2>6 DEF Hands, Rows
<1>17. ASSUME NEW w \in Workers, Worker!Fetch(w) PROVE Hands /\ Rows
  <2>1. PICK batch \in SUBSET Worker!Deliverable :
          Worker!DeliverBatch(batch) /\ inbox' = [inbox EXCEPT ![w] = batch]
    BY <1>17 DEF Worker!Fetch
  <2>2. /\ cur[w] = NoMessage /\ inbox[w] = {} /\ UNCHANGED <<row, pc, cur, step>>
        /\ batch \subseteq Messages
    BY <1>17 DEF Worker!Fetch, Worker!Deliverable
  <2>3. Worker!Held(w)' = batch /\ \A v \in Workers \ {w} : Worker!Held(v)' = Worker!Held(v)
    BY <2>1, <2>2 DEF Worker!Held
  <2>4. /\ \A m \in batch : msgState'[m] = "out" /\ msgState[m] # "out"
        /\ \A m \in Messages \ batch : msgState'[m] = msgState[m]
    BY <2>1, <2>2 DEF Worker!DeliverBatch, Worker!Deliverable
  <2>5. HandInv'
    <3>1. \A v \in Workers : \A m \in Worker!Held(v)' : Published(m)'
      BY <1>p, <2>3, <2>4 DEF Published, Worker!Held
    <3>2. QED BY <2>2, <3>1
  <2>6. OneHand'
    <3> SUFFICES ASSUME Timely, NEW v \in Workers
                 PROVE  /\ cur'[v] \notin inbox'[v]
                        /\ \A m \in Worker!Held(v)' :
                             /\ msgState'[m] = "out"
                             /\ \A u \in Workers \ {v} : m \notin Worker!Held(u)'
      BY DEF OneHand
    <3>1. cur'[v] \notin inbox'[v]
      BY <2>1, <2>2 DEF OneHand
    <3>2. \A u \in Workers \ {w} : \A m \in Worker!Held(u) : m \notin batch /\ m \in Messages
      BY <2>4 DEF OneHand, Worker!Held
    <3>3. QED BY <2>3, <2>4, <3>1, <3>2 DEF OneHand
  <2>7. BegunIsPublished' /\ RowFollows'
    BY <1>p, <2>2, LeavingRows DEF Worker!Progressing
  <2>8. QED BY <2>5, <2>6, <2>7 DEF Hands, Rows
<1> HIDE DEF LetGo, Stay
<1>18. Hands /\ Rows
  BY <1>l, <1>t, <1>1, <1>2, <1>3, <1>4, <1>5, <1>6, <1>7, <1>8, <1>9, <1>10, <1>11,
     <1>12, <1>13, <1>14, <1>15, <1>16, <1>17
     DEF WorkerStep, Worker!WorkerStep, Worker!ProcessStep, Worker!ServerStep
<1>19. QED BY <1>s, <1>18 DEF Hands, Rows
-----------------------------------------------------------------------------
(* The inductive invariant, for any number of replicas, workers, requests, faults and
   shutdowns, whether or not ack_wait outlasts the batches. *)
THEOREM SafetyInvariant == Spec => []IInv
<1>1. Init => IInv
  <2> SUFFICES ASSUME Init PROVE IInv
    OBVIOUS
  <2> USE DEF Init, Api!Init, Api!StreamInit, Api!ApiInit, Worker!WorkerInit
  <2>1. ShapeOK
    BY DEF ShapeOK, Statuses, MsgStates
  <2>2. RequestInv /\ BegunIsPublished
    BY EventNamesShipment
       DEF RequestInv, Api!RequestShape, Api!EventHasRow, FailedInsertIsSilent,
           BegunIsPublished, Api!Stored, Api!Published, Published
  <2>3. HandInv /\ OneHand /\ RowFollows
    BY DEF HandInv, OneHand, RowFollows, Worker!Held, Worker!Progressing
  <2>4. QED BY <2>1, <2>2, <2>3 DEF IInv
<1>2. IInv /\ [Next]_vars => IInv'
  <2>1. IInv /\ UNCHANGED vars => IInv'
    <3> SUFFICES ASSUME IInv, UNCHANGED vars PROVE IInv'
      OBVIOUS
    <3> USE DEF vars, streamVars, apiVars, workerVars, IInv
    <3>1. ShapeOK'
      BY DEF ShapeOK
    <3>2. RequestInv' /\ BegunIsPublished'
      BY DEF RequestInv, Api!RequestShape, Api!EventHasRow, FailedInsertIsSilent,
             BegunIsPublished, Api!Stored, Api!Published, Published
    <3>3. HandInv' /\ OneHand' /\ RowFollows'
      BY DEF HandInv, OneHand, RowFollows, Worker!Held, Worker!Progressing, Published
    <3>4. QED BY <3>1, <3>2, <3>3
  <2>2. QED BY <2>1, ApiKeepsHands, WorkerKeepsHands DEF Next
<1>3. QED BY <1>1, <1>2, PTL DEF Spec

(* No worker is ever in the lifecycle loop of a shipment without a row, so no update
   falls through WHERE id = $1 unnoticed.  (createShipment inserts before it publishes;
   update_shipment_status) *)
THEOREM UpdatesFindTheirRow == Spec => []NoUpdateWithoutRow
<1>1. IInv => NoUpdateWithoutRow
  BY ProgressHasRow DEF IInv, NoUpdateWithoutRow
<1>2. QED BY <1>1, SafetyInvariant, PTL

(* A shipment leaves PLACED only through its event, and then its client was not told
   that the request was refused or that the insert failed. *)
THEOREM ProgressIsCaused == Spec => []ProgressHasCause
<1>1. IInv => ProgressHasCause
  <2> SUFFICES ASSUME IInv, NEW r \in Requests,
                      row[NewShipment[r]] \notin {"ABSENT", "PLACED"}
               PROVE  Published(NewEvent[r]) /\ response[r] \notin {400, 422, 500}
    BY DEF ProgressHasCause
  <2>1. Published(NewEvent[r])
    BY DEF IInv, BegunIsPublished
  <2>2. response[r] \notin {400, 422}
    BY DEF IInv, RequestInv, Api!RequestShape, Api!Stored
  <2>3. response[r] # 500
    BY <2>1 DEF IInv, RequestInv, FailedInsertIsSilent
  <2>4. QED BY <2>1, <2>2, <2>3
<1>2. QED BY <1>1, SafetyInvariant, PTL
-----------------------------------------------------------------------------
LEMMA Outcomes ==
  /\ Outcome(201) = "created" /\ Outcome(0) = "none"
  /\ \A code \in {400, 422, 500, 503} : Outcome(code) = "failed"
  BY DEF Outcome

\* An answer to one request changes what one client was told, and nothing else; there
\* is none if the client hung up.
LEMMA Answered ==
  ASSUME ShapeOK, NEW r \in Requests, response[r] = 0, NEW code,
         response' = response \/ response' = [response EXCEPT ![r] = code]
  PROVE  \/ UNCHANGED Told
         \/ /\ Told[NewShipment[r]] = "none"
            /\ Told' = [Told EXCEPT ![NewShipment[r]] = Outcome(code)]
<1> DEFINE who(s) == CHOOSE q \in Requests : NewShipment[q] = s
<1>1. NewShipment[r] \in Shipments /\ \A s \in Shipments : who(s) \in Requests
  BY DrawnAssumption
<1>2. \A s \in Shipments : NewShipment[who(s)] = s
  BY DrawnAssumption
<1>3. who(NewShipment[r]) = r
  BY DrawnAssumption
<1>4. Told = [s \in Shipments |-> Outcome(response[who(s)])]
      /\ Told' = [s \in Shipments |-> Outcome(response'[who(s)])]
  BY DEF Told
<1> HIDE DEF who
<1>5. CASE response' = response
  BY <1>4, <1>5
<1>6. CASE response' = [response EXCEPT ![r] = code]
  <2>1. \A s \in Shipments :
          response'[who(s)] = IF s = NewShipment[r] THEN code ELSE response[who(s)]
    BY <1>1, <1>2, <1>3, <1>6 DEF ShapeOK
  <2>2. Told' = [Told EXCEPT ![NewShipment[r]] = Outcome(code)]
    BY <1>4, <2>1
  <2>3. Told[NewShipment[r]] = "none"
    BY <1>1, <1>3, <1>4, Outcomes
  <2>4. QED BY <2>2, <2>3
<1>7. QED BY <1>5, <1>6

\* A handler that returns answers its client, or nobody if the client hung up.
LEMMA Returns ==
  ASSUME ShapeOK, NEW r \in Requests, response[r] = 0, NEW code, Api!Respond(r, code)
  PROVE  response' = response \/ response' = [response EXCEPT ![r] = code]
<1>1. CASE clientWaits[r]
  BY <1>1 DEF Api!Respond
<1>2. CASE ~clientWaits[r]
  <2>1. response' = [response EXCEPT ![r] = 0]
    BY <1>2 DEF Api!Respond
  <2>2. QED BY <2>1 DEF ShapeOK
<1>3. QED BY <1>1, <1>2

\* An API step creates a row, answers one client, does both at once, or stutters.
LEMMA ApiRefines ==
  ASSUME IInv, ApiStep
  PROVE  [Lifecycle!Next]_<<row, Told>>
<1> DEFINE Goal == [Lifecycle!Next]_<<row, Told>>
<1>q. UNCHANGED <<row, response>> => Goal
  BY DEF Told
<1>n. \A r \in Requests : NewShipment[r] \in Shipments
  BY DrawnAssumption
<1> USE DEF IInv, RequestInv, Api!RequestShape, Api!Stored
<1> USE DEF Lifecycle!Next, Lifecycle!Create, Lifecycle!SetStatus,
            Lifecycle!ConfirmCreated, Lifecycle!ReportFailure
<1>1. ASSUME NEW r \in Requests, Api!Refuse(r) PROVE Goal
  <2>1. /\ UNCHANGED row /\ response[r] = 0
        /\ \E code \in {400, 422} :
             response' = response \/ response' = [response EXCEPT ![r] = code]
    BY <1>1, Returns DEF Api!Refuse, Api!RefusalCode
  <2>2. QED BY <1>n, <2>1, Answered, Outcomes
<1>2. ASSUME NEW r \in Requests, Api!Insert(r) PROVE Goal
  <2>1. /\ row[NewShipment[r]] = "ABSENT"
        /\ row' = [row EXCEPT ![NewShipment[r]] = "PLACED"] /\ UNCHANGED response
    BY <1>2 DEF Api!Insert, Api!InsertRow, Api!GoTo
  <2>2. UNCHANGED Told
    BY <2>1 DEF Told
  <2>3. QED BY <1>n, <2>1, <2>2
<1>3. ASSUME NEW r \in Requests, Api!InsertFails(r) PROVE Goal
  <2>1. /\ row[NewShipment[r]] = "ABSENT" /\ response[r] = 0
        /\ UNCHANGED row \/ row' = [row EXCEPT ![NewShipment[r]] = "PLACED"]
        /\ response' = response \/ response' = [response EXCEPT ![r] = 500]
    BY <1>3, Returns DEF Api!InsertFails, Api!InsertRow
  <2>2. \/ UNCHANGED Told
        \/ /\ Told[NewShipment[r]] = "none"
           /\ Told' = [Told EXCEPT ![NewShipment[r]] = "failed"]
    BY <2>1, Answered, Outcomes
  <2>3. QED BY <1>n, <2>1, <2>2
<1>4. ASSUME NEW r \in Requests, Api!Confirm(r) PROVE Goal
  <2>1. /\ UNCHANGED row /\ row[NewShipment[r]] # "ABSENT" /\ response[r] = 0
        /\ response' = response \/ response' = [response EXCEPT ![r] = 201]
    BY <1>4, Returns DEF Api!Confirm
  <2>2. \/ UNCHANGED Told
        \/ /\ Told[NewShipment[r]] = "none"
           /\ Told' = [Told EXCEPT ![NewShipment[r]] = "created"]
    BY <2>1, Answered, Outcomes
  <2>3. QED BY <1>n, <2>1, <2>2
<1>5. ASSUME NEW r \in Requests, Api!PublishFails(r) PROVE Goal
  <2>1. /\ UNCHANGED row /\ response[r] = 0
        /\ response' = response \/ response' = [response EXCEPT ![r] = 503]
    BY <1>5, Returns DEF Api!PublishFails
  <2>2. QED BY <1>n, <2>1, Answered, Outcomes
<1>6. ASSUME NEW r \in Requests,
             \/ Api!Receive(r) \/ Api!Accept(r) \/ Api!Publish(r)
             \/ Api!FlushBuffered(r) \/ Api!HangUp(r)
      PROVE  UNCHANGED <<row, response>>
  BY <1>6 DEF Api!Receive, Api!Accept, Api!Publish, Api!FlushBuffered, Api!HangUp, Api!GoTo
<1>7. ASSUME NEW v \in Servers, Api!ServerStep(v) PROVE UNCHANGED <<row, response>>
  BY <1>7 DEF Api!ServerStep, Api!Shutdown, Api!ShutdownEnds, Api!Crash, Api!Restart,
              Api!EndProcess
<1> HIDE DEF Goal
<1>8. Goal
  BY <1>q, <1>1, <1>2, <1>3, <1>4, <1>5, <1>6, <1>7
     DEF ApiStep, Api!RequestStep, Api!HandlerStep
<1>9. QED BY <1>8 DEF Goal

\* Only an update writes the table.
LEMMA WhoWrites ==
  ASSUME ShapeOK, WorkerStep
  PROVE  \/ UNCHANGED row
         \/ \E w \in Workers :
              /\ pc[w] = "update"
              /\ Worker!UpdateStatus(ShipmentOfEvent[cur[w]],
                                     Worker!STATUS_LIFECYCLE[step[w]])
<1>1. ASSUME NEW w \in Workers, Worker!Update(w) \/ Worker!UpdateFails(w)
      PROVE  \/ UNCHANGED row
             \/ /\ pc[w] = "update"
                /\ Worker!UpdateStatus(ShipmentOfEvent[cur[w]],
                                       Worker!STATUS_LIFECYCLE[step[w]])
  BY <1>1 DEF Worker!Update, Worker!UpdateFails
<1>2. ASSUME NEW w \in Workers, Worker!WorkerStep(w),
             ~Worker!Update(w), ~Worker!UpdateFails(w)
      PROVE  UNCHANGED row
  BY <1>2
     DEF Worker!WorkerStep, Worker!ProcessStep, Worker!Fetch, Worker!FetchTimesOut,
         Worker!TakeMessage, Worker!EnterStep, Worker!BreakOff, Worker!Ack,
         Worker!AckRaises, Worker!Nak, Worker!NakRaises, Worker!SettlementLost,
         Worker!Stop, Worker!DrainEnds, Worker!Exit, Worker!Crash, Worker!Restart,
         Worker!FinishMessage, Worker!Die, Worker!vars
<1>3. ASSUME NEW m \in Messages, Worker!ServerStep(m) PROVE UNCHANGED row
  BY <1>3 DEF Worker!ServerStep, Worker!AckWaitExpires, Worker!NakDelayEnds, Worker!Drop
<1>4. QED BY <1>1, <1>2, <1>3 DEF WorkerStep

\* While ack_wait outlasts every batch, an update advances its shipment by one status,
\* starts it over from PROCESSING, or writes what is there already.
LEMMA WorkerRefines ==
  ASSUME IInv, Timely, WorkerStep
  PROVE  [Lifecycle!Next]_<<row, Told>>
<1> USE DEF IInv
<1>1. UNCHANGED Told
  BY DEF WorkerStep, apiVars, Told
<1>2. CASE UNCHANGED row
  BY <1>1, <1>2
<1>3. CASE \E w \in Workers :
             /\ pc[w] = "update"
             /\ Worker!UpdateStatus(ShipmentOfEvent[cur[w]],
                                    Worker!STATUS_LIFECYCLE[step[w]])
  <2>1. PICK w \in Workers :
          /\ pc[w] = "update"
          /\ Worker!UpdateStatus(ShipmentOfEvent[cur[w]], Worker!STATUS_LIFECYCLE[step[w]])
    BY <1>3
  <2> DEFINE s == ShipmentOfEvent[cur[w]]
  <2>2. /\ s \in Shipments /\ step[w] \in 1 .. 3 /\ Worker!Progressing(w, s)
        /\ row' = [row EXCEPT ![s] = STATUS_LIFECYCLE[step[w]]]
    BY <2>1, UpdateTarget
  <2>3. row \in [Shipments -> Statuses] /\ row[s] # "ABSENT"
    BY <2>2, ProgressHasRow DEF ShapeOK
  <2>4. step[w] > 1 => row[s] = STATUS_LIFECYCLE[step[w] - 1]
    BY <2>2 DEF RowFollows
  <2> HIDE DEF s
  <2>5. CASE step[w] = 1
    <3>1. row' = [row EXCEPT ![s] = "PROCESSING"]
      BY <2>2, <2>5, LifecycleValues
    <3>2. CASE row[s] = "PROCESSING"
      <4>1. row' = row
        BY <2>3, <3>1, <3>2
      <4>2. QED BY <1>1, <4>1
    <3>3. CASE row[s] = "PLACED"
      BY <1>1, <2>2, <3>1, <3>3 DEF Lifecycle!Next, Lifecycle!Advance, Lifecycle!SetStatus
    <3>4. CASE row[s] \in {"IN_TRANSIT", "DELIVERED"}
      BY <1>1, <2>2, <3>1, <3>4 DEF Lifecycle!Next, Lifecycle!StartOver, Lifecycle!SetStatus
    <3>5. QED BY <2>2, <2>3, <3>2, <3>3, <3>4 DEF Statuses
  <2>6. CASE step[w] = 2
    <3>1. row[s] = "PROCESSING" /\ row' = [row EXCEPT ![s] = "IN_TRANSIT"]
      BY <2>2, <2>4, <2>6, LifecycleValues
    <3>2. QED BY <1>1, <2>2, <3>1 DEF Lifecycle!Next, Lifecycle!Advance, Lifecycle!SetStatus
  <2>7. CASE step[w] = 3
    <3>1. row[s] = "IN_TRANSIT" /\ row' = [row EXCEPT ![s] = "DELIVERED"]
      BY <2>2, <2>4, <2>7, LifecycleValues
    <3>2. QED BY <1>1, <2>2, <3>1 DEF Lifecycle!Next, Lifecycle!Advance, Lifecycle!SetStatus
  <2>8. QED BY <2>2, <2>5, <2>6, <2>7
<1>4. QED BY <1>2, <1>3, WhoWrites

(* As long as ack_wait outlasts every batch, the two services implement the abstract
   lifecycle: whatever fails, stops or is redelivered, a shipment is created once, walks
   its statuses without skipping one, and its client is told one outcome, success only
   of a shipment that exists. *)
THEOREM PlatformImplementsLifecycle ==
  ASSUME Timely
  PROVE  Spec => ImplementsLifecycle
<1>1. Init => Lifecycle!Init
  BY DrawnAssumption, Outcomes DEF Init, Api!Init, Api!ApiInit, Lifecycle!Init, Told
<1>2. IInv /\ [Next]_vars => [Lifecycle!Next]_<<row, Told>>
  <2>1. UNCHANGED vars => UNCHANGED <<row, Told>>
    BY DEF vars, apiVars, Told
  <2>2. QED BY <2>1, ApiRefines, WorkerRefines DEF Next
<1>3. QED
  BY <1>1, <1>2, SafetyInvariant, PTL
     DEF Spec, ImplementsLifecycle, Lifecycle!Spec, Lifecycle!abstractVars
=============================================================================
