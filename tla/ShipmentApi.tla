----------------------------- MODULE ShipmentApi -----------------------------
(***************************************************************************)
(* The create operation of shipment-api (services/shipment-api): the       *)
(* handler createShipment, the insert of PostgresRepository.Create, the    *)
(* publish of NatsPublisher.PublishShipmentCreated, and the life of the    *)
(* replicas that run it (cmd/server/main.go).  The table is ShipmentStore, *)
(* the stream DeliveryStream.                                              *)
(*                                                                         *)
(* Every POST is one goroutine; its steps are the stretches between the    *)
(* decode, the result of the insert and the result of the publish, so any  *)
(* number of requests, clients that hang up, shutdowns and crashes         *)
(* interleave with them.  The insert and the publish go to two systems and *)
(* nothing ties them together: that is what the properties are about.      *)
(*                                                                         *)
(* A request draws fresh identifiers: NewShipment and NewEvent name the    *)
(* ones it would draw.  The check for missing dependencies is left out,    *)
(* main never builds a server without both.                                *)
(***************************************************************************)
EXTENDS DeliveryStream, ShipmentStore

CONSTANTS Requests,      \* POST requests that may arrive
          Servers,       \* replicas of shipment-api
          Body,          \* what decoding and Validate make of each body
          NewShipment,   \* the shipment id a request draws
          NewEvent,      \* the event it publishes
          NoServer,
          MaxApiFaults   \* bound on database and broker errors and on crashes

ASSUME RequestAssumption ==
  /\ Body \in [Requests -> {"ok", "malformed", "invalid"}]
  /\ NewShipment \in [Requests -> Shipments]
  /\ NewEvent \in [Requests -> Messages]
  /\ \A r, q \in Requests : r # q => /\ NewShipment[r] # NewShipment[q]
                                     /\ NewEvent[r] # NewEvent[q]
  /\ NoServer \notin Servers
  /\ MaxApiFaults \in Nat

VARIABLES
  handler,      \* where each request's goroutine is
  servedBy,     \* the replica that runs it
  clientWaits,  \* the client has not hung up
  response,     \* status code sent, 0 while there is none
  buffered,     \* publishes that failed for the handler but sit in the
                \* reconnect buffer of the replica's NATS connection
  server,       \* serving, stopping (http.Server.Shutdown) or down
  apiFaults     \* faults so far

apiVars == <<handler, servedBy, clientWaits, response, buffered, server, apiFaults>>
vars == <<streamVars, row, apiVars>>

ApiTypeOK ==
  /\ handler \in [Requests -> {"idle", "decode", "insert", "publish", "confirm",
                           "done"}]
  /\ servedBy \in [Requests -> Servers \cup {NoServer}]
  /\ clientWaits \in [Requests -> BOOLEAN]
  /\ response \in [Requests -> {0, 201, 400, 422, 500, 503}]
  /\ buffered \subseteq Requests
  /\ server \in [Servers -> {"serving", "stopping", "down"}]
  /\ apiFaults \in 0 .. MaxApiFaults

TypeOK == StreamTypeOK /\ StoreTypeOK /\ ApiTypeOK

ApiInit ==
  /\ handler = [r \in Requests |-> "idle"]
  /\ servedBy = [r \in Requests |-> NoServer]
  /\ clientWaits = [r \in Requests |-> TRUE]
  /\ response = [r \in Requests |-> 0]
  /\ buffered = {}
  /\ server = [v \in Servers |-> "serving"]
  /\ apiFaults = 0

Init ==
  /\ StreamInit
  /\ row = [s \in Shipments |-> "ABSENT"]
  /\ ApiInit

Fault == apiFaults < MaxApiFaults /\ apiFaults' = apiFaults + 1

\* Mutant: the body is written before WriteHeader, which makes every success a 200.
RespondImplicitly(r, code) ==
  /\ handler' = [handler EXCEPT ![r] = "done"]
  /\ response' = [response EXCEPT ![r] = IF code = 201 THEN 200 ELSE code]
  /\ UNCHANGED <<servedBy, clientWaits, server>>

\* The handler returns; the code reaches the client if it still waits.
Respond(r, code) ==
  /\ handler' = [handler EXCEPT ![r] = "done"]
  /\ response' = [response EXCEPT ![r] = IF clientWaits[r] THEN code ELSE 0]
  /\ UNCHANGED <<servedBy, clientWaits, server>>

GoTo(r, place) ==
  /\ handler' = [handler EXCEPT ![r] = place]
  /\ UNCHANGED <<servedBy, clientWaits, response, server>>
-----------------------------------------------------------------------------
\* The service routes a request to a replica that accepts connections.
Receive(r) ==
  /\ handler[r] = "idle"
  /\ \E v \in Servers :
       /\ server[v] = "serving"
       /\ servedBy' = [servedBy EXCEPT ![r] = v]
  /\ handler' = [handler EXCEPT ![r] = "decode"]
  /\ UNCHANGED <<streamVars, row, clientWaits, response, buffered, server, apiFaults>>

\* Mutant: a body that does not decode is never answered.
RefuseInvalidOnly(r) ==
  /\ handler[r] = "decode" /\ Body[r] = "invalid"
  /\ Respond(r, 422)
  /\ UNCHANGED <<streamVars, row, buffered, apiFaults>>

\* A body that does not decode, or one Validate finds a field missing in.
RefusalCode(body) == IF body = "malformed" THEN 400 ELSE 422

\* Decode or Validate refuses the body.
Refuse(r) ==
  /\ handler[r] = "decode" /\ Body[r] # "ok"
  /\ Respond(r, RefusalCode(Body[r]))
  /\ UNCHANGED <<streamVars, row, buffered, apiFaults>>

\* The body is good: draw the identifiers.
Accept(r) ==
  /\ handler[r] = "decode" /\ Body[r] = "ok"
  /\ GoTo(r, "insert")
  /\ UNCHANGED <<streamVars, row, buffered, apiFaults>>

\* Create returns: the row is committed.
Insert(r) ==
  /\ handler[r] = "insert"
  /\ InsertRow(NewShipment[r])
  /\ GoTo(r, "publish")
  /\ UNCHANGED <<streamVars, buffered, apiFaults>>

\* Mutant: the error of Create is logged and the handler goes on.
InsertErrorIgnored(r) ==
  /\ handler[r] = "insert"
  /\ Fault
  /\ GoTo(r, "publish")
  /\ UNCHANGED <<streamVars, row, buffered>>

\* Mutant: the return after writeError(500) is missing.
InsertFailsWithoutReturn(r) ==
  /\ handler[r] = "insert"
  /\ Fault
  /\ InsertRow(NewShipment[r]) \/ UNCHANGED row
  /\ handler' = [handler EXCEPT ![r] = "publish"]
  /\ response' = [response EXCEPT ![r] = 500]
  /\ UNCHANGED <<streamVars, servedBy, clientWaits, buffered, server>>

\* Create fails: a database error, or the request context cancelled because the
\* client hung up.  The row may be committed all the same.
InsertFails(r) ==
  /\ handler[r] = "insert"
  /\ Fault \/ (~clientWaits[r] /\ UNCHANGED apiFaults)
  /\ InsertRow(NewShipment[r]) \/ UNCHANGED row
  /\ Respond(r, 500)
  /\ UNCHANGED <<streamVars, buffered>>

\* Mutant: an asynchronous publish, answered before the PubAck.
PublishAsync(r) ==
  /\ handler[r] = "publish"
  /\ buffered' = buffered \cup {r}
  /\ Respond(r, 201)
  /\ UNCHANGED <<streamVars, row, apiFaults>>

\* The event of PublishMsg is stored; consumers may see it from here on.
Publish(r) ==
  /\ handler[r] = "publish"
  /\ StorePublished(NewEvent[r])
  /\ GoTo(r, "confirm")
  /\ UNCHANGED <<row, buffered, apiFaults>>

\* PublishMsg returns the server's PubAck.
Confirm(r) ==
  /\ handler[r] = "confirm"
  /\ Respond(r, 201)
  /\ UNCHANGED <<streamVars, row, buffered, apiFaults>>

\* Mutant: the error of PublishShipmentCreated is logged and the shipment returned.
PublishErrorIgnored(r) ==
  /\ handler[r] \in {"publish", "confirm"}
  /\ Fault
  /\ Respond(r, 201)
  /\ UNCHANGED <<streamVars, row, buffered>>

\* PublishMsg fails.  The message was never stored, was stored although the PubAck
\* got lost, or waits in the reconnect buffer and is stored later.
PublishFails(r) ==
  /\ handler[r] \in {"publish", "confirm"}
  /\ Fault
  /\ \/ UNCHANGED buffered
     \/ handler[r] = "publish" /\ buffered' = buffered \cup {r}
  /\ Respond(r, 503)
  /\ UNCHANGED <<streamVars, row>>

\* The NATS client reconnects and flushes.
FlushBuffered(r) ==
  /\ r \in buffered
  /\ StorePublished(NewEvent[r])
  /\ buffered' = buffered \ {r}
  /\ UNCHANGED <<row, handler, servedBy, clientWaits, response, server, apiFaults>>

\* The client gives up waiting; the handler runs on.
HangUp(r) ==
  /\ handler[r] \notin {"idle", "done"} /\ clientWaits[r]
  /\ clientWaits' = [clientWaits EXCEPT ![r] = FALSE]
  /\ UNCHANGED <<streamVars, row, handler, servedBy, response, buffered, server,
                 apiFaults>>
-----------------------------------------------------------------------------
InFlightAt(v) ==
  { r \in Requests : servedBy[r] = v /\ handler[r] \notin {"idle", "done"} }

\* The process of replica v ends.
EndProcess(v) ==
  /\ server' = [server EXCEPT ![v] = "down"]
  /\ handler' = [r \in Requests |-> IF r \in InFlightAt(v) THEN "done" ELSE handler[r]]
  /\ buffered' = { r \in buffered : servedBy[r] # v }
  /\ UNCHANGED <<streamVars, row, servedBy, clientWaits, response>>

\* SIGTERM: Shutdown closes the listener and waits for the handlers.
Shutdown(v) ==
  /\ server[v] = "serving"
  /\ server' = [server EXCEPT ![v] = "stopping"]
  /\ UNCHANGED <<streamVars, row, handler, servedBy, clientWaits, response, buffered,
                 apiFaults>>

\* Shutdown returns once every handler has; main closes its clients and returns.
ShutdownEnds(v) ==
  /\ server[v] = "stopping" /\ InFlightAt(v) = {}
  /\ EndProcess(v)
  /\ UNCHANGED apiFaults

\* The process is killed, or Shutdown runs into SHUTDOWN_TIMEOUT with handlers left.
Crash(v) ==
  /\ server[v] # "down"
  /\ Fault
  /\ EndProcess(v)

\* A new process reached both dependencies and listens.
Restart(v) ==
  /\ server[v] = "down"
  /\ server' = [server EXCEPT ![v] = "serving"]
  /\ UNCHANGED <<streamVars, row, handler, servedBy, clientWaits, response, buffered,
                 apiFaults>>

HandlerStep(r) == Refuse(r) \/ Accept(r) \/ Insert(r) \/ Publish(r) \/ Confirm(r)

RequestStep(r) ==
  Receive(r) \/ HandlerStep(r) \/ InsertFails(r) \/ PublishFails(r)
    \/ FlushBuffered(r) \/ HangUp(r)

ServerStep(v) == Shutdown(v) \/ ShutdownEnds(v) \/ Crash(v) \/ Restart(v)

Next ==
  \/ \E r \in Requests : RequestStep(r)
  \/ \E v \in Servers : ServerStep(v)

\* Handlers run on, a shutdown without handlers ends, the kubelet restarts a
\* container, and the NATS client reconnects.
Fairness ==
  /\ \A r \in Requests : WF_vars(HandlerStep(r)) /\ WF_vars(FlushBuffered(r))
  /\ \A v \in Servers : WF_vars(ShutdownEnds(v)) /\ WF_vars(Restart(v))

Spec == Init /\ [][Next]_vars

FairSpec == Spec /\ Fairness
-----------------------------------------------------------------------------
Stored(r) == row[NewShipment[r]] # "ABSENT"

(* A 201 is only ever sent for a shipment that is in the table and whose event is in
   the stream.  (createShipment: the insert, the publish, then the response) *)
CreatedIsStoredAndPublished ==
  \A r \in Requests : response[r] = 201 => Stored(r) /\ Published(NewEvent[r])

(* No event, however late it reaches the stream - after a failed publish, from the
   reconnect buffer, after the client was told 503 - names a shipment without a row.
   (createShipment against the NATS client's reconnect buffer) *)
EventHasRow ==
  \A r \in Requests : Published(NewEvent[r]) \/ r \in buffered => Stored(r)

(* A row whose event will never come is never reported as success and never belongs
   to a refused request: its handler is still at work, or the client got a 500 or 503
   or no answer at all.  (the two writes of createShipment, crash between them) *)
OrphanIsReported ==
  \A r \in Requests :
    Stored(r) /\ ~Published(NewEvent[r]) /\ r \notin buffered =>
      handler[r] = "publish" \/ (handler[r] = "done" /\ response[r] \in {0, 500, 503})

(* Every request a replica took is finished, by an answer or by the end of the
   replica, and no publish stays buffered forever.  (createShipment, Shutdown) *)
EventuallyFinished ==
  \A r \in Requests : handler[r] # "idle" ~> handler[r] = "done" /\ r \notin buffered
-----------------------------------------------------------------------------
(* The inductive invariant behind the three safety properties: *)

\* Where a request stands agrees with its row, its event and its answer.
RequestShape ==
  \A r \in Requests :
    /\ handler[r] # "done" => response[r] = 0
    /\ handler[r] \in {"idle", "decode", "insert"} => ~Stored(r)
    /\ handler[r] \in {"publish", "confirm"} => Stored(r)
    /\ handler[r] = "confirm" => Published(NewEvent[r])
    /\ response[r] \in {400, 422} => ~Stored(r)
    /\ r \in buffered => handler[r] = "done" /\ response[r] \in {0, 503}

IInv ==
  /\ TypeOK /\ RequestShape
  /\ CreatedIsStoredAndPublished /\ EventHasRow /\ OrphanIsReported
=============================================================================
