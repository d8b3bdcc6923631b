---------------------------- MODULE WorkerDatabase ----------------------------
(***************************************************************************)
(* The connection pool of one tracking-worker (src/repository.py), the     *)
(* monitor task that probes and rebuilds it, the consumer task that uses   *)
(* it and the flag the health server thread reads (src/main.py).           *)
(*                                                                         *)
(* The pool is shared by the two tasks without a lock: close() waits for   *)
(* the statement in flight while new statements already fail, and the flag *)
(* is the memory of the last probe.  What an asyncpg pool does is modelled *)
(* from how repository.py uses it.  When the tasks run is for the process  *)
(* to say (WorkerProcess).                                                 *)
(***************************************************************************)
EXTENDS Naturals

CONSTANT MaxOutages   \* bound on database outages

ASSUME OutageAssumption == MaxOutages \in Nat

VARIABLES
  db,          \* up or down
  outages,     \* outages so far
  pool,        \* none, live, stale (its connections broke), silent (they no
               \* longer answer, and nobody has noticed), closing (or closed and
               \* not dropped: it takes no statement either way)
  healthy,     \* repo._healthy
  monitor,     \* connect, sleep, ping, waiting (for a reply), close, dead (the
               \* task ended with an exception)
  statement    \* the consumer's update: idle, running or waiting for a reply
               \* that does not come

databaseVars == <<db, outages, pool, healthy, monitor, statement>>

DatabaseTypeOK ==
  /\ db \in {"up", "down"} /\ outages \in 0 .. MaxOutages
  /\ pool \in {"none", "live", "stale", "silent", "closing"}
  /\ healthy \in BOOLEAN
  /\ monitor \in {"connect", "sleep", "ping", "waiting", "close", "dead"}
  /\ statement \in {"idle", "running", "waiting"}

\* What a new process starts from: main connects first, through the same
\* connect_database_with_retry the monitor uses.
NoPool ==
  /\ pool = "none" /\ healthy = FALSE
  /\ monitor = "connect" /\ statement = "idle"

DatabaseInit == db \in {"up", "down"} /\ outages = 0 /\ NoPool

\* repo.is_connected, the database half of dependencies_ready.
DatabaseReady == pool # "none" /\ healthy

\* The database goes away.  The pool's connections break, or go silent: no
\* statement has a timeout, so only the kernel's TCP timers end the wait then.
DbFails ==
  /\ db = "up" /\ outages < MaxOutages
  /\ db' = "down" /\ outages' = outages + 1
  /\ IF pool \in {"live", "stale"}
       THEN pool' \in {"stale", "silent"}
       ELSE UNCHANGED pool
  /\ UNCHANGED <<healthy, monitor, statement>>

DbRecovers ==
  /\ db = "down" /\ db' = "up"
  /\ UNCHANGED <<outages, pool, healthy, monitor, statement>>

\* repo.connect() creates a pool; otherwise connect_database_with_retry sleeps and
\* tries again.
Connect ==
  /\ monitor = "connect" /\ db = "up" /\ pool = "none"
  /\ pool' = "live" /\ healthy' = TRUE /\ monitor' = "sleep"
  /\ UNCHANGED <<db, outages, statement>>

WakeUp ==
  /\ monitor = "sleep"
  /\ monitor' = "ping"
  /\ UNCHANGED <<db, outages, pool, healthy, statement>>

\* SELECT 1 answers.  A pool replaces a connection it knows to be closed.
PingSucceeds ==
  /\ monitor = "ping" /\ db = "up" /\ pool \in {"live", "stale"}
  /\ pool' = "live" /\ healthy' = TRUE /\ monitor' = "sleep"
  /\ UNCHANGED <<db, outages, statement>>

\* Mutant: a failed ping is logged and tried again.
PingFailureIgnored ==
  /\ monitor = "ping" /\ (pool = "stale" \/ (pool = "live" /\ db = "down"))
  /\ monitor' = "sleep"
  /\ UNCHANGED <<db, outages, pool, healthy, statement>>

\* SELECT 1 raises: not healthy, and the monitor goes on to close the pool.
PingFails ==
  /\ monitor = "ping" /\ (pool = "stale" \/ (pool = "live" /\ db = "down"))
  /\ healthy' = FALSE
  /\ pool' = "closing" /\ monitor' = "close"
  /\ UNCHANGED <<db, outages, statement>>

\* SELECT 1 was sent on a silent connection.
PingHangs ==
  /\ monitor = "ping" /\ pool = "silent"
  /\ monitor' = "waiting"
  /\ UNCHANGED <<db, outages, pool, healthy, statement>>

\* The kernel gives the connection up: the ping fails at last.
PingTimesOut ==
  /\ monitor = "waiting"
  /\ healthy' = FALSE
  /\ pool' = "closing" /\ monitor' = "close"
  /\ UNCHANGED <<db, outages, statement>>

\* Mutant: the pool is dropped while close() still waits.
CloseWithoutWaiting ==
  /\ monitor = "close"
  /\ pool' = "none" /\ healthy' = FALSE /\ monitor' = "connect"
  /\ UNCHANGED <<db, outages, statement>>

\* Mutant: the monitor returns after it closed the pool.
CloseAndReturn ==
  /\ monitor = "close" /\ statement = "idle"
  /\ pool' = "none" /\ healthy' = FALSE /\ monitor' = "returned"
  /\ UNCHANGED <<db, outages, statement>>

\* pool.close() returns once no statement holds a connection.
CloseEnds ==
  /\ monitor = "close" /\ statement = "idle"
  /\ pool' = "none" /\ healthy' = FALSE /\ monitor' = "connect"
  /\ UNCHANGED <<db, outages, statement>>

\* A connection fails while pool.close() closes it, and the exception leaves close(),
\* which drops nothing then, and monitor_database, which catches nothing.
CloseRaises ==
  /\ monitor = "close" /\ statement = "idle"
  /\ monitor' = "dead"
  /\ UNCHANGED <<db, outages, pool, healthy, statement>>

\* update_shipment_status acquires a connection.  Without a pool, or with one that
\* is closing, it raises at once and nothing changes here.
StatementStarts ==
  /\ statement = "idle" /\ pool \in {"live", "stale", "silent"}
  /\ statement' = IF pool = "silent" THEN "waiting" ELSE "running"
  /\ UNCHANGED <<db, outages, pool, healthy, monitor>>

\* The statement returns or raises, unless its connection went silent under it.
StatementEnds ==
  /\ statement = "running"
  /\ statement' = IF pool = "silent" THEN "waiting" ELSE "idle"
  /\ UNCHANGED <<db, outages, pool, healthy, monitor>>

\* The kernel gives the connection up under the consumer's statement.
StatementTimesOut ==
  /\ statement = "waiting"
  /\ statement' = "idle"
  /\ UNCHANGED <<db, outages, pool, healthy, monitor>>

MonitorStep ==
  \/ Connect \/ WakeUp \/ PingSucceeds \/ PingFails \/ PingHangs \/ PingTimesOut
  \/ CloseEnds \/ CloseRaises

StatementStep == StatementEnds \/ StatementTimesOut
=============================================================================
