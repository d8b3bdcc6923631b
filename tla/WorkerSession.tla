---------------------------- MODULE WorkerSession ----------------------------
(***************************************************************************)
(* The NATS session of one tracking-worker: connect() of src/consumer.py,  *)
(* the retry branch of its start() loop and the connection test the health *)
(* server reads.                                                           *)
(*                                                                         *)
(* connect() makes two calls: nats.connect, which replaces self._nc, and   *)
(* pull_subscribe, whose failure is logged and leaves self._psub unset.    *)
(* start() looks at _psub alone, so every retry after a failed subscribe   *)
(* opens another connection and forgets the last one.  The broker and the  *)
(* client library are modelled from how consumer.py uses them.             *)
(***************************************************************************)
EXTENDS Naturals

CONSTANTS
  MaxBrokerOutages,  \* bound on broker outages
  MaxForgotten       \* the count of forgotten connections saturates here

ASSUME SessionAssumption == MaxBrokerOutages \in Nat /\ MaxForgotten \in Nat \ {0}

VARIABLES
  broker,         \* up or down
  brokerOutages,  \* outages so far
  stream,         \* the API created the stream
  running,        \* self._running
  nc,             \* self._nc: none, open (as far as the client knows), broken (it
                  \* is reconnecting) or closed
  psub,           \* self._psub is set
  forgotten,      \* open connections self._nc no longer refers to
  consumer        \* dial, subscribe (connect), turn (top of the loop), sleep,
                  \* consume (fetch and process), ended

sessionVars ==
  <<broker, brokerOutages, stream, running, nc, psub, forgotten, consumer>>

SessionTypeOK ==
  /\ broker \in {"up", "down"} /\ brokerOutages \in 0 .. MaxBrokerOutages
  /\ stream \in BOOLEAN /\ running \in BOOLEAN /\ psub \in BOOLEAN
  /\ nc \in {"none", "open", "broken", "closed"}
  /\ forgotten \in 0 .. MaxForgotten
  /\ consumer \in {"dial", "subscribe", "turn", "sleep", "consume", "ended"}

\* DeliveryEventConsumer.__init__; the first call is connect(), from main.
NoSession ==
  /\ running = FALSE /\ nc = "none" /\ psub = FALSE
  /\ forgotten = 0 /\ consumer = "dial"

SessionInit ==
  /\ broker \in {"up", "down"} /\ brokerOutages = 0 /\ stream \in BOOLEAN
  /\ NoSession

\* Mutant: a subscription counts as a connection.
SubscribedIsReady == psub

\* consumer.is_connected, the other half of dependencies_ready.
SessionReady == nc = "open" /\ psub
-----------------------------------------------------------------------------
\* nats.connect returns.  While stop() drains the old connection it is not forgotten.
Dial ==
  /\ consumer = "dial" /\ broker = "up"
  /\ nc' = "open" /\ consumer' = "subscribe"
  /\ forgotten' = IF running /\ nc \in {"open", "broken"} /\ forgotten < MaxForgotten
                    THEN forgotten + 1 ELSE forgotten
  /\ UNCHANGED <<broker, brokerOutages, stream, running, psub>>

\* nats.connect raises; it may as well keep trying by itself.
DialFails ==
  /\ consumer = "dial" /\ broker = "down"
  /\ consumer' = "turn"
  /\ UNCHANGED <<broker, brokerOutages, stream, running, nc, psub, forgotten>>

Subscribe ==
  /\ consumer = "subscribe" /\ nc = "open" /\ broker = "up" /\ stream
  /\ psub' = TRUE /\ consumer' = "turn"
  /\ UNCHANGED <<broker, brokerOutages, stream, running, nc, forgotten>>

\* pull_subscribe raises: no stream yet, no answer, or the connection was closed.
SubscribeFails ==
  /\ consumer = "subscribe" /\ (nc # "open" \/ broker = "down" \/ ~stream)
  /\ consumer' = "turn"
  /\ UNCHANGED <<broker, brokerOutages, stream, running, nc, psub, forgotten>>

\* Mutant: connect() is called once, from main.
ConnectOnlyOnce ==
  /\ consumer = "turn"
  /\ consumer' = IF running THEN "consume" ELSE "ended"
  /\ UNCHANGED <<broker, brokerOutages, stream, running, nc, psub, forgotten>>

\* Mutant: the loop looks at the connection as well.
RedialWhenBroken ==
  /\ consumer = "turn"
  /\ consumer' = IF ~running THEN "ended" ELSE IF SessionReady THEN "consume" ELSE "sleep"
  /\ UNCHANGED <<broker, brokerOutages, stream, running, nc, psub, forgotten>>

\* while self._running: if not self._psub ...
TopOfLoop ==
  /\ consumer = "turn"
  /\ consumer' = IF ~running THEN "ended" ELSE IF psub THEN "consume" ELSE "sleep"
  /\ UNCHANGED <<broker, brokerOutages, stream, running, nc, psub, forgotten>>

\* The second is over; connect() is called whether or not stop() was.
SleepEnds ==
  /\ consumer = "sleep" /\ consumer' = "dial"
  /\ UNCHANGED <<broker, brokerOutages, stream, running, nc, psub, forgotten>>

\* A batch was worked through, or fetch timed out or raised.
FetchEnds ==
  /\ consumer = "consume" /\ consumer' = "turn"
  /\ UNCHANGED <<broker, brokerOutages, stream, running, nc, psub, forgotten>>

BrokerFails ==
  /\ broker = "up" /\ brokerOutages < MaxBrokerOutages
  /\ broker' = "down" /\ brokerOutages' = brokerOutages + 1
  /\ nc' \in IF nc = "open" THEN {"open", "broken"} ELSE {nc}
  /\ UNCHANGED <<stream, running, psub, forgotten, consumer>>

\* The client's own pings go unanswered for too long.
ClientNotices ==
  /\ nc = "open" /\ broker = "down" /\ nc' = "broken"
  /\ UNCHANGED <<broker, brokerOutages, stream, running, psub, forgotten, consumer>>

BrokerRecovers ==
  /\ broker = "down" /\ broker' = "up"
  /\ UNCHANGED <<brokerOutages, stream, running, nc, psub, forgotten, consumer>>

\* The client reconnects by itself (max_reconnect_attempts is -1).
Reconnects ==
  /\ nc = "broken" /\ broker = "up" /\ nc' = "open"
  /\ UNCHANGED <<broker, brokerOutages, stream, running, psub, forgotten, consumer>>

\* The API's NewNatsPublisher adds the stream when it starts.
StreamAppears ==
  /\ ~stream /\ broker = "up" /\ stream' = TRUE
  /\ UNCHANGED <<broker, brokerOutages, running, nc, psub, forgotten, consumer>>

ConnectStep == Dial \/ Subscribe \/ SubscribeFails

ClientStep == ClientNotices \/ Reconnects

BrokerStep == BrokerFails \/ BrokerRecovers \/ StreamAppears \/ ClientStep
=============================================================================
