------------------------- MODULE WorkerProcessProofs -------------------------
(***************************************************************************)
(* Proofs about WorkerProcess, for any number of database and broker       *)
(* outages, shutdowns and kills.                                           *)
(***************************************************************************)
EXTENDS WorkerProcess, TLAPS

(* What the steps of the two parts keep, wherever the process takes them. *)
DatabaseInv == DatabaseTypeOK /\ NoPoolDroppedInUse

SessionInv == SessionTypeOK /\ SubscribedStays

LEMMA DatabaseStays ==
  ASSUME DatabaseInv, UNCHANGED databaseVars
  PROVE  DatabaseInv'
  BY DEF DatabaseInv, DatabaseTypeOK, NoPoolDroppedInUse, databaseVars

LEMMA SessionStays ==
  ASSUME SessionInv, UNCHANGED sessionVars
  PROVE  SessionInv'
  BY DEF SessionInv, SessionTypeOK, SubscribedStays, sessionVars

(* The monitor drops the pool only once close() has waited for the statement. *)
LEMMA MonitorKeeps ==
  ASSUME DatabaseInv, MonitorStep
  PROVE  DatabaseInv'
<1> USE DEF DatabaseInv, DatabaseTypeOK, NoPoolDroppedInUse
<1>1. CASE Connect
  BY <1>1 DEF Connect
<1>2. CASE WakeUp \/ PingHangs
  BY <1>2 DEF WakeUp, PingHangs
<1>3. CASE PingSucceeds
  BY <1>3 DEF PingSucceeds
<1>4. CASE PingFails \/ PingTimesOut
  BY <1>4 DEF PingFails, PingTimesOut
<1>5. CASE CloseEnds \/ CloseRaises
  BY <1>5 DEF CloseEnds, CloseRaises
<1>6. QED BY <1>1, <1>2, <1>3, <1>4, <1>5 DEF MonitorStep

(* A statement starts only in a pool, and ends in its own time. *)
LEMMA StatementKeeps ==
  ASSUME DatabaseInv, StatementStarts \/ StatementStep
  PROVE  DatabaseInv'
  BY DEF DatabaseInv, DatabaseTypeOK, NoPoolDroppedInUse, StatementStarts, StatementStep,
         StatementEnds, StatementTimesOut

LEMMA OutageKeeps ==
  ASSUME DatabaseInv, DbFails \/ DbRecovers
  PROVE  DatabaseInv'
  BY OutageAssumption
     DEF DatabaseInv, DatabaseTypeOK, NoPoolDroppedInUse, DbFails, DbRecovers

(* The consumer connects only without a subscription, and the loop leaves a
   subscription alone. *)
LEMMA ConsumerKeeps ==
  ASSUME SessionInv,
         ConnectStep \/ DialFails \/ TopOfLoop \/ SleepEnds \/ FetchEnds
  PROVE  SessionInv'
<1> USE SessionAssumption DEF SessionInv, SessionTypeOK, SubscribedStays
<1>1. CASE Dial
  BY <1>1 DEF Dial
<1>2. CASE Subscribe \/ SubscribeFails \/ DialFails
  BY <1>2 DEF Subscribe, SubscribeFails, DialFails
<1>3. CASE TopOfLoop \/ SleepEnds \/ FetchEnds
  BY <1>3 DEF TopOfLoop, SleepEnds, FetchEnds
<1>4. QED BY <1>1, <1>2, <1>3 DEF ConnectStep

LEMMA BrokerKeeps ==
  ASSUME SessionInv, BrokerStep
  PROVE  SessionInv'
<1> USE SessionAssumption DEF SessionInv, SessionTypeOK, SubscribedStays
<1>1. CASE BrokerFails
  BY <1>1 DEF BrokerFails
<1>2. CASE BrokerRecovers
  BY <1>2 DEF BrokerRecovers
<1>3. CASE StreamAppears
  BY <1>3 DEF StreamAppears
<1>4. CASE ClientNotices \/ Reconnects
  BY <1>4 DEF ClientNotices, Reconnects
<1>5. QED BY <1>1, <1>2, <1>3, <1>4 DEF BrokerStep, ClientStep

(* Nothing of a process outlives it. *)
LEMMA GoneKeeps ==
  ASSUME DatabaseInv, SessionInv, Gone
  PROVE  DatabaseInv' /\ SessionInv'
<1>1. DatabaseInv'
  BY DEF Gone, DatabaseInv, DatabaseTypeOK, NoPoolDroppedInUse
<1>2. ~psub' /\ psub' \in BOOLEAN /\ running' \in BOOLEAN
  BY Zenon DEF Gone
<1>3. SessionInv'
  BY <1>2, SessionAssumption DEF Gone, SessionInv, SessionTypeOK, SubscribedStays
<1>4. QED BY <1>1, <1>3

ProcessTypeOK ==
  /\ ends \in 0 .. MaxEnds
  /\ phase \in {"database", "session", "serving", "stopping", "closing", "exited"}

(* The inductive invariant, through outages of both dependencies, signals and kills at
   any point of the two tasks. *)
LEMMA SafetyInvariant == Spec => []IInv
<1> USE EndAssumption
<1> DEFINE Inv == DatabaseInv /\ SessionInv /\ ProcessTypeOK
<1>1. Init => Inv
  <2> SUFFICES ASSUME Init PROVE Inv
    OBVIOUS
  <2>1. /\ healthy \in BOOLEAN /\ stream \in BOOLEAN /\ running \in BOOLEAN
        /\ psub \in BOOLEAN /\ ~psub
    BY Zenon DEF Init, DatabaseInit, NoPool, SessionInit, NoSession
  <2>2. DatabaseInv
    BY <2>1, OutageAssumption
       DEF Init, DatabaseInit, NoPool, DatabaseInv, DatabaseTypeOK, NoPoolDroppedInUse
  <2>3. SessionInv
    BY <2>1, SessionAssumption
       DEF Init, SessionInit, NoSession, SessionInv, SessionTypeOK, SubscribedStays
  <2>4. QED BY <2>2, <2>3 DEF Init, ProcessTypeOK
<1>2. Inv /\ [Next]_vars => Inv'
  <2> SUFFICES ASSUME Inv, [Next]_vars PROVE Inv'
    OBVIOUS
  <2> USE DEF processVars
  <2>0. UNCHANGED processVars => ProcessTypeOK'
    BY DEF ProcessTypeOK
  <2>1. CASE ConnectDatabase
    <3>1. DatabaseInv'
      BY <2>1, MonitorKeeps DEF ConnectDatabase, MonitorStep
    <3>2. QED BY <2>1, <3>1, SessionStays DEF ConnectDatabase, ProcessTypeOK
  <2>2. CASE ConnectSession \/ ConnectRaises
    BY <2>2, <2>0, DatabaseStays, ConsumerKeeps DEF ConnectSession, ConnectRaises
  <2>3. CASE StartTasks
    <3>1. SessionInv'
      BY <2>3 DEF StartTasks, SessionInv, SessionTypeOK, SubscribedStays
    <3>2. QED BY <2>3, <3>1, DatabaseStays DEF StartTasks, ProcessTypeOK
  <2>4. CASE MonitorRuns
    BY <2>4, <2>0, MonitorKeeps, SessionStays DEF MonitorRuns
  <2>5. CASE ConsumerRuns \/ ReconnectRaises
    BY <2>5, <2>0, DatabaseStays, ConsumerKeeps DEF ConsumerRuns, ReconnectRaises
  <2>6. CASE ConsumerUpdates \/ StatementRuns
    BY <2>6, <2>0, StatementKeeps, SessionStays DEF ConsumerUpdates, StatementRuns
  <2>7. CASE Signal
    <3>1. SessionInv'
      BY <2>7 DEF Signal, SessionInv, SessionTypeOK, SubscribedStays
    <3>2. QED BY <2>7, <3>1, DatabaseStays DEF Signal, End, ProcessTypeOK
  <2>8. CASE DrainEnds
    <3>1. DatabaseInv'
      BY <2>8 DEF DrainEnds, DatabaseInv, DatabaseTypeOK, NoPoolDroppedInUse
    <3>2. SessionInv'
      BY <2>8 DEF DrainEnds, SessionInv, SessionTypeOK, SubscribedStays
    <3>3. QED BY <2>8, <3>1, <3>2 DEF DrainEnds, ProcessTypeOK
  <2>9. CASE DrainRaises \/ CloseAndExit \/ Kill
    <3>1. Gone /\ ends' \in 0 .. MaxEnds
      BY <2>9 DEF DrainRaises, CloseAndExit, Kill, End, ProcessTypeOK
    <3>2. QED BY <3>1, GoneKeeps DEF Gone, ProcessTypeOK
  <2>10. CASE Restart
    BY <2>10, DatabaseStays, SessionStays DEF Restart, ProcessTypeOK
  <2>11. CASE Environment
    BY <2>11, <2>0, OutageKeeps, BrokerKeeps, DatabaseStays, SessionStays DEF Environment
  <2>12. CASE UNCHANGED vars
    BY <2>12, <2>0, DatabaseStays, SessionStays DEF vars
  <2>13. QED
    BY <2>1, <2>2, <2>3, <2>4, <2>5, <2>6, <2>7, <2>8, <2>9, <2>10, <2>11, <2>12
       DEF Next, MainStep
<1>3. Inv => IInv
  BY DEF DatabaseInv, SessionInv, ProcessTypeOK, IInv, TypeOK
<1>4. QED BY <1>1, <1>2, <1>3, PTL DEF Spec

(* Every variable of the process keeps its type.  (main, repository, consumer) *)
THEOREM TypeCorrect == Spec => []TypeOK
<1>1. IInv => TypeOK
  BY DEF IInv
<1>2. QED BY <1>1, SafetyInvariant, PTL

(* Neither the monitor, a shutdown nor a crash leaves a statement without its pool.
   (close against update_shipment_status) *)
THEOREM PoolOutlivesStatements == Spec => []NoPoolDroppedInUse
<1>1. IInv => NoPoolDroppedInUse
  BY DEF IInv
<1>2. QED BY <1>1, SafetyInvariant, PTL

(* A subscribed worker opens no further connection.  (connect, start) *)
THEOREM ConnectionsAreKept == Spec => NoConnectionForgotten
<1>1. IInv /\ [Next]_vars => [psub /\ psub' => forgotten' = forgotten]_vars
  <2> SUFFICES ASSUME IInv, [Next]_vars, psub, psub' PROVE forgotten' = forgotten
    OBVIOUS
  <2> USE DEF sessionVars
  <2>1. ~Dial
    BY DEF Dial, IInv, SubscribedStays
  <2>2. ~Gone
    BY Zenon DEF Gone
  <2>3. ConnectStep => forgotten' = forgotten
    BY <2>1 DEF ConnectStep, Subscribe, SubscribeFails
  <2>4. CASE MainStep
    BY <2>2, <2>3, <2>4
       DEF MainStep, ConnectDatabase, ConnectSession, StartTasks, DrainEnds, DrainRaises,
           CloseAndExit
  <2>5. CASE ConnectRaises \/ MonitorRuns \/ ReconnectRaises \/ ConsumerUpdates
             \/ StatementRuns \/ Signal \/ Kill \/ Restart
    BY <2>2, <2>5
       DEF ConnectRaises, DialFails, MonitorRuns, ReconnectRaises, ConsumerUpdates,
           StatementRuns, Signal, Kill, Restart
  <2>6. CASE ConsumerRuns
    BY <2>3, <2>6 DEF ConsumerRuns, TopOfLoop, SleepEnds, FetchEnds
  <2>7. CASE Environment
    BY <2>7
       DEF Environment, BrokerStep, BrokerFails, BrokerRecovers, StreamAppears, ClientStep,
           ClientNotices, Reconnects
  <2>8. CASE UNCHANGED vars
    BY <2>8 DEF vars
  <2>9. QED BY <2>4, <2>5, <2>6, <2>7, <2>8 DEF Next
<1>2. QED BY <1>1, SafetyInvariant, PTL DEF Spec, NoConnectionForgotten
=============================================================================
