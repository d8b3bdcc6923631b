--------------------------- MODULE DeliveryStream ---------------------------
(***************************************************************************)
(* The DELIVERY_EVENTS stream and its durable pull consumer                *)
(* "tracking-workers", as the two services use them.  JetStream itself is  *)
(* not in the repository: the stream is configured by                      *)
(* services/shipment-api/internal/events/nats.go (limits retention, file   *)
(* storage) and the consumer by services/tracking-worker/src/consumer.py   *)
(* (explicit acks, ack_wait, max_deliver = MAX_RETRIES).                   *)
(*                                                                         *)
(* A message is one stored event.  msgState says where it stands with the  *)
(* durable consumer:                                                       *)
(*                                                                         *)
(*   absent    not published                                               *)
(*   stored    in the stream, never delivered                              *)
(*   out       delivered, the server waits for an ack                      *)
(*   backoff   negatively acknowledged with a delay                        *)
(*   due       to be redelivered by the next fetch that has room for it    *)
(*   acked     settled                                                     *)
(*   dropped   max_deliver deliveries spent, never sent again              *)
(*                                                                         *)
(* The 24 h retention limit is left out: no behaviour here lasts that      *)
(* long.  Stream order is abstracted: the messages of one consumer go to   *)
(* several workers and come back in redelivery order anyway.               *)
(***************************************************************************)
EXTENDS Naturals

CONSTANTS Messages,     \* the events that may be published
          MaxDeliver    \* ConsumerConfig.max_deliver, set from MAX_RETRIES

ASSUME MaxDeliverAssumption == MaxDeliver \in Nat \ {0}

VARIABLES msgState,     \* where each message stands
          deliveries    \* how often each message has been delivered

streamVars == <<msgState, deliveries>>

MsgStates == {"absent", "stored", "out", "backoff", "due", "acked", "dropped"}

StreamTypeOK ==
  /\ msgState \in [Messages -> MsgStates]
  /\ deliveries \in [Messages -> 0 .. MaxDeliver]

StreamInit ==
  /\ msgState = [m \in Messages |-> "absent"]
  /\ deliveries = [m \in Messages |-> 0]

Published(m) == msgState[m] # "absent"

Settled(m) == msgState[m] \in {"acked", "dropped"}

\* Mutant: max_deliver is not configured on the consumer.
DeliverableWithoutLimit == { m \in Messages : msgState[m] \in {"stored", "due"} }

\* Mutant: an ephemeral consumer, which never redelivers.
DeliverableOnce == { m \in Messages : msgState[m] = "stored" }

\* What a pull request may be answered with.
Deliverable ==
  { m \in Messages : \/ msgState[m] = "stored"
                     \/ msgState[m] = "due" /\ deliveries[m] < MaxDeliver }

\* A publish the server stored.
StorePublished(m) ==
  /\ msgState[m] = "absent"
  /\ msgState' = [msgState EXCEPT ![m] = "stored"]
  /\ UNCHANGED deliveries

\* A pull request is answered with the messages of batch.
DeliverBatch(batch) ==
  /\ msgState' = [m \in Messages |-> IF m \in batch THEN "out" ELSE msgState[m]]
  /\ deliveries' = [m \in Messages |-> IF m \in batch THEN deliveries[m] + 1
                                                      ELSE deliveries[m]]

\* An ack reaches the server.  It settles a message that is still pending, even
\* if it comes from an earlier delivery, and is ignored otherwise.
SettleAck(m) ==
  /\ msgState' = [msgState EXCEPT ![m] = IF @ \in {"out", "backoff", "due"}
                                         THEN "acked" ELSE @]
  /\ UNCHANGED deliveries

\* A nak with a delay reaches the server: the message waits before redelivery.
SettleNak(m) ==
  /\ msgState' = [msgState EXCEPT ![m] = IF @ = "out" THEN "backoff" ELSE @]
  /\ UNCHANGED deliveries

\* The nak delay is over.
BackoffElapses(m) ==
  /\ msgState[m] = "backoff"
  /\ msgState' = [msgState EXCEPT ![m] = "due"]
  /\ UNCHANGED deliveries

\* ack_wait passed without an ack.
AckWaitElapses(m) ==
  /\ msgState[m] = "out"
  /\ msgState' = [msgState EXCEPT ![m] = "due"]
  /\ UNCHANGED deliveries

\* All deliveries are spent: the server gives the message up, silently for the
\* services (nothing subscribes to the advisory).
GiveUp(m) ==
  /\ msgState[m] = "due"
  /\ deliveries[m] = MaxDeliver
  /\ msgState' = [msgState EXCEPT ![m] = "dropped"]
  /\ UNCHANGED deliveries
=============================================================================
