---------------------------- MODULE ShipmentStore ----------------------------
(***************************************************************************)
(* The shipments table both services share, reduced to the status column:  *)
(* inserted by shipment-api (internal/repository/postgres.go) and updated  *)
(* by tracking-worker (src/repository.py).  Each statement is one          *)
(* PostgreSQL transaction, so each operator is one atomic step.            *)
(***************************************************************************)
EXTENDS Naturals, Sequences

CONSTANT Shipments

VARIABLE row    \* status of each shipment, or "ABSENT" before the insert

\* The progression the worker applies, in its order.
STATUS_LIFECYCLE == <<"PROCESSING", "IN_TRANSIT", "DELIVERED">>

Statuses == {"ABSENT", "PLACED", "PROCESSING", "IN_TRANSIT", "DELIVERED"}

StoreTypeOK == row \in [Shipments -> Statuses]

\* INSERT INTO shipments: the id is a fresh UUID.
InsertRow(s) == row' = [row EXCEPT ![s] = "PLACED"]

\* UPDATE shipments SET status = $2 WHERE id = $1 AND status != $2: any existing
\* row takes the new status, whatever its status was; a missing row is not an
\* error.
UpdateStatus(s, status) ==
  row' = [row EXCEPT ![s] = IF @ = "ABSENT" THEN @ ELSE status]
=============================================================================
