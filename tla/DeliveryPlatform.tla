--------------------------- MODULE DeliveryPlatform ---------------------------
(***************************************************************************)
(* shipment-api and tracking-worker together: replicas of the API insert   *)
(* rows and publish events, workers consume the events and update the      *)
(* rows, over one table and one stream.  Every step is a step of one of    *)
(* the two, and the publisher that TrackingWorker leaves to its            *)
(* environment is the handler of ShipmentApi.                              *)
(***************************************************************************)
EXTENDS DeliveryStream, ShipmentStore

CONSTANTS Requests, Servers, Body, NewShipment, NewEvent, NoServer, MaxApiFaults,
          Workers, NoMessage, BatchSize, Timely, MaxDisruptions, MaxStops

VARIABLES
  handler, servedBy, clientWaits, response, buffered, server, apiFaults,
  mode, pc, inbox, cur, step, disruptions, stops, cut, brokenOff

\* Identifiers are fresh, and nothing but the handler draws any: a row and an event
\* belong to one request each.
ASSUME DrawnAssumption ==
  /\ NewShipment \in [Requests -> Shipments]
  /\ NewEvent \in [Requests -> Messages]
  /\ \A r, q \in Requests : r # q => /\ NewShipment[r] # NewShipment[q]
                                     /\ NewEvent[r] # NewEvent[q]
  /\ \A s \in Shipments : \E r \in Requests : NewShipment[r] = s
  /\ \A m \in Messages : \E r \in Requests : NewEvent[r] = m

ASSUME NoMessageAssumption == NoMessage \notin Messages

Api == INSTANCE ShipmentApi

\* Every event comes from the handler: its payload decodes and names the shipment
\* of its request.
KindOfEvent == [m \in Messages |-> "valid"]

ShipmentOfEvent ==
  [m \in Messages |-> NewShipment[CHOOSE r \in Requests : NewEvent[r] = m]]

Worker == INSTANCE TrackingWorker WITH
  Kind <- KindOfEvent, ShipmentOf <- ShipmentOfEvent

apiVars == <<handler, servedBy, clientWaits, response, buffered, server, apiFaults>>
workerVars == <<mode, pc, inbox, cur, step, disruptions, stops, cut, brokenOff>>
vars == <<streamVars, row, apiVars, workerVars>>

Init == Api!Init /\ Worker!WorkerInit

ApiStep ==
  /\ \/ \E r \in Requests : Api!RequestStep(r)
     \/ \E v \in Servers : Api!ServerStep(v)
  /\ UNCHANGED workerVars

WorkerStep ==
  /\ \/ \E w \in Workers : Worker!WorkerStep(w)
     \/ \E m \in Messages : Worker!ServerStep(m)
  /\ UNCHANGED apiVars

Next == ApiStep \/ WorkerStep

Spec == Init /\ [][Next]_vars

FairSpec == Spec /\ Api!Fairness /\ Worker!Fairness
-----------------------------------------------------------------------------
(* A worker never works on a shipment that has no row yet, so no update falls
   through WHERE id = $1 unnoticed - although event and row travel through two
   systems and the event may be consumed before the client has its answer.
   (createShipment inserts before it publishes; update_shipment_status) *)
NoUpdateWithoutRow ==
  \A w \in Workers : \A s \in Shipments : Worker!Progressing(w, s) => row[s] # "ABSENT"

(* A shipment leaves PLACED only if its event reached the stream, and the client of
   a shipment that is DELIVERED was never told its request was refused.  (create
   responses against background progression) *)
ProgressHasCause ==
  \A r \in Requests :
    row[NewShipment[r]] \notin {"ABSENT", "PLACED"} =>
      Published(NewEvent[r]) /\ response[r] \notin {400, 422, 500}

(* The outcome each client was told. *)
Outcome(code) ==
  CASE code = 201 -> "created" [] code = 0 -> "none" [] OTHER -> "failed"

Told ==
  [s \in Shipments |-> Outcome(response[CHOOSE r \in Requests : NewShipment[r] = s])]

Lifecycle == INSTANCE ShipmentLifecycle WITH status <- row, told <- Told

(* The two services implement the abstract lifecycle: no skipped status, no success
   for a shipment that does not exist, one outcome per client. *)
ImplementsLifecycle == Lifecycle!Spec

(* With its liveness: a shipment the client got a 201 for ends DELIVERED for good,
   through worker crashes, failed updates and lost acks, as long as they are fewer
   than max_deliver, no worker is shut down and ack_wait outlasts the batches. *)
CreatedIsDelivered == Lifecycle!CreatedIsDelivered
-----------------------------------------------------------------------------
(* The inductive invariant behind the two safety properties and the refinement: *)

\* What the steps below need of the types.
ShapeOK ==
  /\ row \in [Shipments -> Statuses]
  /\ msgState \in [Messages -> MsgStates]
  /\ handler \in [Requests -> {"idle", "decode", "insert", "publish", "confirm",
                              "done"}]
  /\ response \in [Requests -> {0, 201, 400, 422, 500, 503}]
  /\ buffered \subseteq Requests
  /\ pc \in [Workers -> {"fetch", "check", "update", "ack", "nak"}]
  /\ inbox \in [Workers -> SUBSET Messages]
  /\ cur \in [Workers -> Messages \cup {NoMessage}]
  /\ step \in [Workers -> 1 .. 4]

\* A client told 500 has no event on its way.
FailedInsertIsSilent ==
  \A r \in Requests : response[r] = 500 =>
    ~Published(NewEvent[r]) /\ r \notin buffered

\* Place, row, event and answer of a request agree, whatever the workers do.
RequestInv == Api!RequestShape /\ Api!EventHasRow /\ FailedInsertIsSilent

\* A row leaves PLACED through its event.
BegunIsPublished ==
  \A r \in Requests :
    row[NewShipment[r]] \notin {"ABSENT", "PLACED"} => Published(NewEvent[r])

\* The program counter agrees with the message in hand; what is held was published.
HandInv ==
  \A w \in Workers :
    /\ pc[w] = "fetch" <=> cur[w] = NoMessage
    /\ pc[w] \in {"check", "update"} => step[w] \in 1 .. 3
    /\ \A m \in Worker!Held(w) : Published(m)

\* While ack_wait outlasts every batch, a held event is out, in one place of one
\* worker ...
OneHand ==
  Timely => \A w \in Workers :
    /\ cur[w] \notin inbox[w]
    /\ \A m \in Worker!Held(w) :
         /\ msgState[m] = "out"
         /\ \A v \in Workers \ {w} : m \notin Worker!Held(v)

\* ... which finds the row as its previous update left it.
RowFollows ==
  Timely => \A w \in Workers : \A s \in Shipments :
    Worker!Progressing(w, s) /\ step[w] > 1 => row[s] = STATUS_LIFECYCLE[step[w] - 1]

IInv ==
  /\ ShapeOK /\ RequestInv /\ BegunIsPublished /\ HandInv
  /\ OneHand /\ RowFollows
=============================================================================
