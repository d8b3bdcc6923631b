---------------------------- MODULE WorkerProcess ----------------------------
(***************************************************************************)
(* One tracking-worker process (main of src/main.py): it connects to the   *)
(* database, then to NATS, starts the consumer and the monitor task, and   *)
(* on a signal stops the consumer, cancels both tasks and closes the pool. *)
(* The health server answers from the first moment on.                     *)
(*                                                                         *)
(* A process that ended loses its pool and session; the kubelet starts     *)
(* another.                                                                *)
(***************************************************************************)
EXTENDS WorkerDatabase, WorkerSession

CONSTANT MaxEnds   \* bound on signals and kills

ASSUME EndAssumption == MaxEnds \in Nat

VARIABLES
  phase,   \* database, session, serving, stopping (drain), closing (pool), exited
  ends     \* signals and kills so far

processVars == <<phase, ends>>
vars == <<databaseVars, sessionVars, processVars>>

TypeOK ==
  /\ DatabaseTypeOK /\ SessionTypeOK /\ ends \in 0 .. MaxEnds
  /\ phase \in {"database", "session", "serving", "stopping", "closing", "exited"}

Init == DatabaseInit /\ SessionInit /\ phase = "database" /\ ends = 0

DependenciesReady == DatabaseReady /\ SessionReady

\* GET /ready answers 200; otherwise 503, or nobody answers.
Ready == phase # "exited" /\ DependenciesReady

\* The tasks that main starts exist and were not cancelled.
TasksRun == phase \in {"serving", "stopping"}

\* An end the environment brings about.
End == ends < MaxEnds /\ ends' = ends + 1

\* The process is gone and its state with it.
Gone ==
  /\ phase' = "exited"
  /\ pool' = "none" /\ healthy' = FALSE /\ monitor' = "connect" /\ statement' = "idle"
  /\ running' = FALSE /\ nc' = "none" /\ psub' = FALSE
  /\ forgotten' = 0 /\ consumer' = "dial"
  /\ UNCHANGED <<db, outages, broker, brokerOutages, stream>>
-----------------------------------------------------------------------------
\* main returns from connect_database_with_retry.
ConnectDatabase ==
  /\ phase = "database" /\ Connect
  /\ phase' = "session" /\ UNCHANGED <<sessionVars, ends>>

\* main waits for consumer.connect(); nobody watches the database meanwhile.
ConnectSession ==
  /\ phase = "session" /\ ConnectStep
  /\ UNCHANGED <<databaseVars, processVars>>

ConnectRaises ==
  /\ phase = "session" /\ DialFails
  /\ UNCHANGED <<databaseVars, processVars>>

\* connect() returned or raised: the two tasks are created either way.
StartTasks ==
  /\ phase = "session" /\ consumer = "turn"
  /\ phase' = "serving" /\ running' = TRUE
  /\ UNCHANGED <<databaseVars, broker, brokerOutages, stream, nc, psub, forgotten,
                 consumer, ends>>

MonitorRuns ==
  /\ TasksRun /\ MonitorStep
  /\ UNCHANGED <<sessionVars, processVars>>

\* start(); a fetched message is done before the next turn.
ConsumerRuns ==
  /\ TasksRun
  /\ ConnectStep \/ TopOfLoop \/ SleepEnds \/ (statement = "idle" /\ FetchEnds)
  /\ UNCHANGED <<databaseVars, processVars>>

ReconnectRaises ==
  /\ TasksRun /\ DialFails
  /\ UNCHANGED <<databaseVars, processVars>>

ConsumerUpdates ==
  /\ TasksRun /\ consumer = "consume" /\ StatementStarts
  /\ UNCHANGED <<sessionVars, processVars>>

\* A cancelled statement, too, ends only with its connection.
StatementRuns == StatementStep /\ UNCHANGED <<sessionVars, processVars>>
-----------------------------------------------------------------------------
\* SIGTERM or SIGINT sets stop_event; main goes on to consumer.stop().
Signal ==
  /\ phase = "serving" /\ End
  /\ phase' = "stopping" /\ running' = FALSE
  /\ UNCHANGED <<databaseVars, broker, brokerOutages, stream, nc, psub, forgotten,
                 consumer>>

\* Mutant: main waits for the consumer task instead of cancelling it.
DrainAndJoin ==
  /\ phase = "stopping" /\ nc # "broken" /\ consumer = "ended"
  /\ nc' = IF nc = "none" THEN "none" ELSE "closed"
  /\ pool' = IF pool = "none" THEN "none" ELSE "closing"
  /\ phase' = "closing"
  /\ UNCHANGED <<db, outages, healthy, monitor, statement, broker, brokerOutages,
                 stream, running, psub, forgotten, consumer, ends>>

\* drain() and close() return, the tasks are cancelled, and main begins to close the
\* pool, whatever the monitor was doing with it.
DrainEnds ==
  /\ phase = "stopping" /\ nc # "broken"
  /\ nc' = IF nc = "none" THEN "none" ELSE "closed"
  /\ pool' = IF pool = "none" THEN "none" ELSE "closing"
  /\ phase' = "closing" /\ consumer' = "ended"
  /\ UNCHANGED <<db, outages, healthy, monitor, statement, broker, brokerOutages,
                 stream, running, psub, forgotten, ends>>

\* drain() raises while the client is reconnecting, or its last flush gets no answer;
\* main ends with the exception.
DrainRaises ==
  /\ phase = "stopping"
  /\ nc = "broken" \/ (nc = "open" /\ broker = "down")
  /\ Gone /\ UNCHANGED ends

\* repo.close() returns or raises, and main with it.
CloseAndExit == phase = "closing" /\ statement = "idle" /\ Gone /\ UNCHANGED ends

\* A signal before main handles signals, the end of the grace period, a crash.
Kill == phase # "exited" /\ Gone /\ End

Restart ==
  /\ phase = "exited" /\ phase' = "database"
  /\ UNCHANGED <<databaseVars, sessionVars, ends>>

MainStep == ConnectDatabase \/ ConnectSession \/ StartTasks \/ DrainEnds \/ DrainRaises
              \/ CloseAndExit

Environment ==
  \/ (DbFails \/ DbRecovers) /\ UNCHANGED <<sessionVars, processVars>>
  \/ BrokerStep /\ UNCHANGED <<databaseVars, processVars>>

Next ==
  \/ MainStep \/ ConnectRaises \/ MonitorRuns
  \/ ConsumerRuns \/ ReconnectRaises \/ ConsumerUpdates \/ StatementRuns
  \/ Signal \/ Kill \/ Restart \/ Environment

\* The event loop runs what is ready, a statement ends, by TCP's timers if by nothing
\* else, the NATS client notices a dead connection and reconnects, and the kubelet
\* restarts the container.  Nothing makes the database, the broker or the stream come
\* back, and nothing makes nats.connect give up.
Fairness ==
  /\ WF_vars(MainStep) /\ WF_vars(MonitorRuns) /\ WF_vars(ConsumerRuns)
  /\ WF_vars(StatementRuns) /\ WF_vars(Restart)
  /\ WF_vars(ClientStep /\ UNCHANGED <<databaseVars, processVars>>)

Spec == Init /\ [][Next]_vars /\ Fairness
-----------------------------------------------------------------------------
(* The pool is never dropped, and so never replaced, under a statement in flight.
   (close against update_shipment_status) *)
NoPoolDroppedInUse == pool = "none" => statement = "idle"

(* Once the worker is subscribed it never again loses track of an open connection:
   it leaves an outage to the client's own reconnect.  (connect, start) *)
NoConnectionForgotten == [][psub /\ psub' => forgotten' = forgotten]_vars

(* A worker whose database is gone for good ends up not ready and stays so, although
   the flag only remembers the last probe and nobody probes while main waits for NATS.
   (monitor_database, ping, is_connected) *)
OutageIsNoticed == <>[](db = "down") => <>[]~Ready

(* The same for the broker, which nobody probes at all.  (is_connected) *)
BrokerOutageIsNoticed == <>[](broker = "down") => <>[]~Ready

(* Once database, broker and stream stay, the worker becomes ready and stays so, and
   the answer is right: broken connections are replaced whatever the consumer was
   doing with the old pool, a subscription that failed is made up for, and the process
   that ended in between has a successor.  One thing is in the way: an exception out of
   close() ends the monitor, and then nothing short of the end of the process brings
   readiness back.  (monitor_database, connect, start) *)
ReadyAgain ==
  <>[](db = "up" /\ broker = "up" /\ stream)
    => \/ <>[](Ready /\ pool = "live" /\ consumer \in {"turn", "consume"})
       \/ <>[](monitor = "dead" /\ ~Ready)

(* A shutdown that began comes to an end with either dependency gone, a silent
   database connection or a consumer in the middle of connecting.  (main, stop) *)
ShutdownEnds == phase \in {"stopping", "closing"} ~> phase = "exited"
-----------------------------------------------------------------------------
(* The inductive invariant behind the safety properties: the consumer only connects
   while there is no subscription, which is all that start() looks at. *)
SubscribedStays == psub => consumer \in {"turn", "consume", "ended"}

IInv == TypeOK /\ NoPoolDroppedInUse /\ SubscribedStays
=============================================================================
