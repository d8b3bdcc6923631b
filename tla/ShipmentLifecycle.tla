-------------------------- MODULE ShipmentLifecycle --------------------------
(***************************************************************************)
(* What the platform promises about a shipment, without handlers, events   *)
(* or workers: a shipment is created once, its client is told at most one  *)
(* outcome, success only for a shipment that exists, and its status walks  *)
(* PLACED -> PROCESSING -> IN_TRANSIT -> DELIVERED without skipping, where *)
(* a walk that began may start over from PROCESSING.                       *)
(*                                                                         *)
(* Starting over is what internal/domain/shipment.go's status order and    *)
(* the worker's STATUS_LIFECYCLE leave room for: process_message replays   *)
(* the whole list on every redelivery.                                     *)
(***************************************************************************)
CONSTANT Shipments

VARIABLES status,   \* of each shipment, "ABSENT" before it is created
          told      \* the outcome its client was told: none, created or failed

abstractVars == <<status, told>>

Init ==
  /\ status = [s \in Shipments |-> "ABSENT"]
  /\ told = [s \in Shipments |-> "none"]

SetStatus(s, new) ==
  /\ status' = [status EXCEPT ![s] = new]
  /\ UNCHANGED told

Create(s) == status[s] = "ABSENT" /\ SetStatus(s, "PLACED")

Advance(s) ==
  \/ status[s] = "PLACED" /\ SetStatus(s, "PROCESSING")
  \/ status[s] = "PROCESSING" /\ SetStatus(s, "IN_TRANSIT")
  \/ status[s] = "IN_TRANSIT" /\ SetStatus(s, "DELIVERED")

StartOver(s) ==
  /\ status[s] \in {"IN_TRANSIT", "DELIVERED"}
  /\ SetStatus(s, "PROCESSING")

\* The client is told of a shipment that exists.
ConfirmCreated(s) ==
  /\ told[s] = "none" /\ status[s] # "ABSENT"
  /\ told' = [told EXCEPT ![s] = "created"]
  /\ UNCHANGED status

\* The client is told of a failure; the insert may have been committed with it.
ReportFailure(s) ==
  /\ told[s] = "none"
  /\ told' = [told EXCEPT ![s] = "failed"]
  /\ \/ UNCHANGED status
     \/ status[s] = "ABSENT" /\ status' = [status EXCEPT ![s] = "PLACED"]

Next ==
  \E s \in Shipments :
    Create(s) \/ Advance(s) \/ StartOver(s) \/ ConfirmCreated(s) \/ ReportFailure(s)

\* A shipment the client was told of is DELIVERED for good in the end.
CreatedIsDelivered ==
  \A s \in Shipments : told[s] = "created" ~> [](status[s] = "DELIVERED")

Spec == Init /\ [][Next]_abstractVars

LiveSpec == Spec /\ CreatedIsDelivered
=============================================================================
