-------------------------- MODULE ShipmentApiProofs --------------------------
(***************************************************************************)
(* Proofs about ShipmentApi, for every number of requests and replicas,    *)
(* whatever their bodies, and any number of faults.                        *)
(***************************************************************************)
EXTENDS ShipmentApi, TLAPS

(* A request is only ever answered with the codes of the handler, and every variable
   stays in its type.  (createShipment, Shutdown) *)
THEOREM TypeCorrect == Spec => []TypeOK
<1> USE RequestAssumption
<1> USE DEF TypeOK, ApiTypeOK, StreamTypeOK, MsgStates, StoreTypeOK, Statuses
<1>1. Init => TypeOK
  BY MaxDeliverAssumption DEF Init, StreamInit, ApiInit
<1>2. TypeOK /\ [Next]_vars => TypeOK'
  <2> SUFFICES ASSUME TypeOK, [Next]_vars PROVE TypeOK'
    OBVIOUS
  <2> USE DEF Respond, GoTo, Fault, InsertRow, StorePublished, EndProcess,
              InFlightAt, streamVars
  <2>1. ASSUME NEW r \in Requests, Receive(r) PROVE TypeOK'
    BY <2>1 DEF Receive
  <2>2. ASSUME NEW r \in Requests, Refuse(r) PROVE TypeOK'
    BY <2>2 DEF Refuse, RefusalCode
  <2>3. ASSUME NEW r \in Requests, Accept(r) PROVE TypeOK'
    BY <2>3 DEF Accept
  <2>4. ASSUME NEW r \in Requests, Insert(r) PROVE TypeOK'
    BY <2>4 DEF Insert
  <2>5. ASSUME NEW r \in Requests, InsertFails(r) PROVE TypeOK'
    BY <2>5 DEF InsertFails
  <2>6. ASSUME NEW r \in Requests, Publish(r) PROVE TypeOK'
    BY <2>6 DEF Publish
  <2>7. ASSUME NEW r \in Requests, Confirm(r) PROVE TypeOK'
    BY <2>7 DEF Confirm
  <2>8. ASSUME NEW r \in Requests, PublishFails(r) PROVE TypeOK'
    BY <2>8 DEF PublishFails
  <2>9. ASSUME NEW r \in Requests, FlushBuffered(r) PROVE TypeOK'
    BY <2>9 DEF FlushBuffered
  <2>10. ASSUME NEW r \in Requests, HangUp(r) PROVE TypeOK'
    BY <2>10 DEF HangUp
  <2>11. ASSUME NEW v \in Servers, Shutdown(v) PROVE TypeOK'
    BY <2>11 DEF Shutdown
  <2>12. ASSUME NEW v \in Servers, ShutdownEnds(v) PROVE TypeOK'
    BY <2>12 DEF ShutdownEnds
  <2>13. ASSUME NEW v \in Servers, Crash(v) PROVE TypeOK'
    BY <2>13 DEF Crash
  <2>14. ASSUME NEW v \in Servers, Restart(v) PROVE TypeOK'
    BY <2>14 DEF Restart
  <2>15. ASSUME UNCHANGED vars PROVE TypeOK'
    BY <2>15 DEF vars, apiVars
  <2>16. QED
    BY <2>1, <2>2, <2>3, <2>4, <2>5, <2>6, <2>7, <2>8, <2>9, <2>10, <2>11, <2>12, <2>13, <2>14, <2>15
       DEF Next, RequestStep, HandlerStep, ServerStep
<1>3. QED BY <1>1, <1>2, PTL DEF Spec
-----------------------------------------------------------------------------
(* The inductive invariant: a request's place, row, event and answer agree, through
   every failure of either write, every hang-up, shutdown and crash. *)
THEOREM SafetyInvariant == Spec => []IInv
<1> USE RequestAssumption
<1> DEFINE Safe == /\ RequestShape /\ CreatedIsStoredAndPublished
                   /\ EventHasRow /\ OrphanIsReported
<1>1. Init => Safe
  BY DEF Init, StreamInit, ApiInit, RequestShape, CreatedIsStoredAndPublished,
         EventHasRow, OrphanIsReported, Stored, Published
<1>2. TypeOK /\ Safe /\ [Next]_vars => Safe'
  <2> SUFFICES ASSUME TypeOK, Safe, [Next]_vars PROVE Safe'
    OBVIOUS
  <2> USE DEF TypeOK, ApiTypeOK, StreamTypeOK, StoreTypeOK, RequestShape,
              CreatedIsStoredAndPublished, EventHasRow, OrphanIsReported,
              Stored, Published
  <2> USE DEF Respond, GoTo, InsertRow, StorePublished, EndProcess, InFlightAt,
              streamVars
  <2>1. ASSUME NEW r \in Requests, Receive(r) PROVE Safe'
    BY <2>1 DEF Receive
  <2>2. ASSUME NEW r \in Requests, Refuse(r) PROVE Safe'
    BY <2>2 DEF Refuse, RefusalCode
  <2>3. ASSUME NEW r \in Requests, Accept(r) PROVE Safe'
    BY <2>3 DEF Accept
  <2>4. ASSUME NEW r \in Requests, Insert(r) PROVE Safe'
    BY <2>4 DEF Insert
  <2>5. ASSUME NEW r \in Requests, InsertFails(r) PROVE Safe'
    BY <2>5 DEF InsertFails
  <2>6. ASSUME NEW r \in Requests, Publish(r) PROVE Safe'
    BY <2>6 DEF Publish
  <2>7. ASSUME NEW r \in Requests, Confirm(r) PROVE Safe'
    BY <2>7 DEF Confirm
  <2>8. ASSUME NEW r \in Requests, PublishFails(r) PROVE Safe'
    BY <2>8 DEF PublishFails
  <2>9. ASSUME NEW r \in Requests, FlushBuffered(r) PROVE Safe'
    BY <2>9 DEF FlushBuffered
  <2>10. ASSUME NEW r \in Requests, HangUp(r) PROVE Safe'
    BY <2>10 DEF HangUp
  <2>11. ASSUME NEW v \in Servers, Shutdown(v) PROVE Safe'
    BY <2>11 DEF Shutdown
  <2>12. ASSUME NEW v \in Servers, ShutdownEnds(v) PROVE Safe'
    BY <2>12 DEF ShutdownEnds
  <2>13. ASSUME NEW v \in Servers, Crash(v) PROVE Safe'
    BY <2>13 DEF Crash
  <2>14. ASSUME NEW v \in Servers, Restart(v) PROVE Safe'
    BY <2>14 DEF Restart
  <2>15. ASSUME UNCHANGED vars PROVE Safe'
    BY <2>15 DEF vars, apiVars
  <2>16. QED
    BY <2>1, <2>2, <2>3, <2>4, <2>5, <2>6, <2>7, <2>8, <2>9, <2>10, <2>11, <2>12, <2>13, <2>14, <2>15
       DEF Next, RequestStep, HandlerStep, ServerStep
<1>3. QED BY <1>1, <1>2, TypeCorrect, PTL DEF Spec, IInv
-----------------------------------------------------------------------------
(* A client told 201 has its shipment in the table and its event in the stream. *)
THEOREM CreatedMeansStoredAndPublished == Spec => []CreatedIsStoredAndPublished
<1>1. IInv => CreatedIsStoredAndPublished
  BY DEF IInv
<1>2. QED BY <1>1, SafetyInvariant, PTL

(* No event names a shipment without a row, however late it reaches the stream. *)
THEOREM EventFollowsRow == Spec => []EventHasRow
<1>1. IInv => EventHasRow
  BY DEF IInv
<1>2. QED BY <1>1, SafetyInvariant, PTL

(* A row without an event is never reported as success. *)
THEOREM OrphansAreReported == Spec => []OrphanIsReported
<1>1. IInv => OrphanIsReported
  BY DEF IInv
<1>2. QED BY <1>1, SafetyInvariant, PTL
=============================================================================
