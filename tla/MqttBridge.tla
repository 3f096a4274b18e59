------------------------------ MODULE MqttBridge ------------------------------
(***************************************************************************)
(* The bridge to the MQTT broker (mqtt_interface.py) and the task that     *)
(* works off what it receives (process_mqtt_messages in TLSServer.py).     *)
(*                                                                         *)
(* start() connects and gathers three handlers: the incoming one           *)
(* subscribes and forwards messages, the outgoing one publishes the output *)
(* queue, the health monitor publishes a test message every five minutes.  *)
(* gather is told to return exceptions: it ends when all three have ended, *)
(* and only then does start() connect again.                               *)
(*                                                                         *)
(* Everything runs in one event loop and both queues are unbounded, so a   *)
(* put never suspends.  The client (aiomqtt) raises in every call on a     *)
(* lost connection; a call may also time out on a good one.                *)
(***************************************************************************)
EXTENDS Integers, Sequences, FiniteSets

CONSTANTS
  MaxTraffic,  (* bound: messages other parts of the service publish       *)
  MaxReceived  (* bound: messages the broker delivers                      *)

ASSUME BoundsAssumption == MaxTraffic \in Nat /\ MaxReceived \in Nat

VARIABLES
  start,      (* start(): "connect", "backoff" or in "gather"              *)
  link,       (* the client's connection: "none", "up", "lost"             *)
  incoming,   (* "off", "subscribe", "listen", "failed"                    *)
  outgoing,   (* "off", "get", "publish", "failed"                         *)
  health,     (* "off", "sleep", "failed"                                  *)
  out,        (* mqtt_out_queue; messages are numbered as they are put     *)
  held,       (* the message the outgoing handler publishes, or 0          *)
  inbox,      (* mqtt_in_queue: kinds of messages                          *)
  worker,     (* what process_mqtt_messages works on, or "idle"            *)
  produced,   (* messages put on the output queue so far                   *)
  traffic,    (* how many of them came from other parts of the service     *)
  received,   (* messages delivered by the broker so far                   *)
  published,  (* history: messages handed to the broker                    *)
  dropped     (* history: messages given up after an error                 *)

bridgeVars == <<start, link, incoming, outgoing, health, out, held, inbox,
                worker, produced, traffic, received, published, dropped>>
handlers == <<incoming, outgoing, health>>
counters == <<produced, traffic, received>>
results == <<published, dropped>>

(* Messages of the broker: a valid command, a legacy registration, a       *)
(* configuration, and what fails the checks of its topic or payload.       *)
Kinds == {"command", "register", "config", "invalid"}

Waiting == {out[i] : i \in DOMAIN out}

TypeOK ==
  /\ start \in {"connect", "backoff", "gather"}
  /\ link \in {"none", "up", "lost"}
  /\ incoming \in {"off", "subscribe", "listen", "failed"}
  /\ outgoing \in {"off", "get", "publish", "failed"}
  /\ health \in {"off", "sleep", "failed"}
  /\ out \in Seq(1 .. produced)
  /\ held \in 0 .. produced
  /\ inbox \in Seq(Kinds \ {"invalid"})
  /\ worker \in Kinds \cup {"idle"}
  /\ traffic \in 0 .. MaxTraffic
  /\ received \in 0 .. MaxReceived
  /\ produced \in 0 .. MaxTraffic + 2 * MaxReceived
  /\ published \subseteq 1 .. produced
  /\ dropped \subseteq 1 .. produced
  /\ (start = "gather") = (link # "none")
  /\ (held # 0) = (outgoing = "publish")

Init ==
  /\ start = "connect"
  /\ link = "none"
  /\ incoming = "off" /\ outgoing = "off" /\ health = "off"
  /\ out = <<>> /\ held = 0
  /\ inbox = <<>> /\ worker = "idle"
  /\ produced = 0 /\ traffic = 0 /\ received = 0
  /\ published = {} /\ dropped = {}

(* Put the next message on the output queue.                               *)
PutOut ==
  /\ out' = Append(out, produced + 1)
  /\ produced' = produced + 1

-----------------------------------------------------------------------------
(***************************************************************************)
(* start                                                                   *)
(***************************************************************************)

(* The client connects, the test message goes out, the handlers start.     *)
Connect ==
  /\ start = "connect"
  /\ start' = "gather"
  /\ link' = "up"
  /\ incoming' = "subscribe" /\ outgoing' = "get" /\ health' = "sleep"
  /\ UNCHANGED <<out, held, inbox, worker, counters, results>>

(* The connection or its test message fails.                               *)
ConnectFails ==
  /\ start = "connect"
  /\ start' = "backoff"
  /\ UNCHANGED <<link, handlers, out, held, inbox, worker, counters, results>>

Backoff ==
  /\ start = "backoff"
  /\ start' = "connect"
  /\ UNCHANGED <<link, handlers, out, held, inbox, worker, counters, results>>

(* Mutant: the first failure ends the gathering.                           *)
AnyEnded == "failed" \in {incoming, outgoing, health}

AllEnded == incoming = "failed" /\ outgoing = "failed" /\ health = "failed"

(* gather has the results of all three handlers; leaving the client's      *)
(* context closes what is left of the connection.                          *)
Gathered ==
  /\ start = "gather"
  /\ AllEnded
  /\ start' = "connect"
  /\ link' = "none"
  /\ incoming' = "off" /\ outgoing' = "off" /\ health' = "off"
  /\ UNCHANGED <<out, held, inbox, worker, counters, results>>

LinkLost ==
  /\ link = "up"
  /\ link' = "lost"
  /\ UNCHANGED <<start, handlers, out, held, inbox, worker, counters, results>>

-----------------------------------------------------------------------------
(***************************************************************************)
(* The incoming handler and the task behind it                             *)
(***************************************************************************)

Subscribed ==
  /\ incoming = "subscribe"
  /\ link = "up"
  /\ incoming' = "listen"
  /\ UNCHANGED <<start, link, outgoing, health, out, held, inbox, worker,
                 counters, results>>

(* The connection is lost, or the broker refuses or does not answer.       *)
SubscribeFails ==
  /\ incoming = "subscribe"
  /\ incoming' = "failed"
  /\ UNCHANGED <<start, link, outgoing, health, out, held, inbox, worker,
                 counters, results>>

(* Commands and registrations are acknowledged at once.                    *)
Acknowledged(kind) == kind \in {"command", "register"}

(* What a message of the broker does to the two queues.                    *)
Forward(kind) ==
  /\ inbox' = IF kind = "invalid" THEN inbox
              ELSE Append(inbox, IF kind = "command" THEN kind ELSE "config")
  /\ IF Acknowledged(kind) THEN PutOut ELSE UNCHANGED <<out, produced>>
  /\ received' = received + 1

(* A message the client has received, perhaps before the connection went.  *)
(* Each is handled in a try of its own: none ends the handler.             *)
Receive(kind) ==
  /\ incoming = "listen"
  /\ received < MaxReceived
  /\ Forward(kind)
  /\ UNCHANGED <<start, link, handlers, held, worker, traffic, results>>

(* The iteration over the client's messages ends with the connection.      *)
IncomingFails ==
  /\ incoming = "listen"
  /\ link = "lost"
  /\ incoming' = "failed"
  /\ UNCHANGED <<start, link, outgoing, health, out, held, inbox, worker,
                 counters, results>>

TakeInbox ==
  /\ worker = "idle"
  /\ inbox # <<>>
  /\ worker' = Head(inbox)
  /\ inbox' = Tail(inbox)
  /\ UNCHANGED <<start, link, handlers, out, held, counters, results>>

(* Mutant: a command that raises ends the task.                            *)
FinishOrDie ==
  /\ worker = "config"
  /\ worker' = "idle"
  /\ UNCHANGED <<start, link, handlers, out, held, inbox, counters, results>>

(* A command is answered once, also when it failed; a configuration is not.*)
Finish ==
  /\ worker # "idle"
  /\ worker' = "idle"
  /\ IF worker = "command" THEN PutOut ELSE UNCHANGED <<out, produced>>
  /\ UNCHANGED <<start, link, handlers, held, inbox, traffic, received,
                 results>>

-----------------------------------------------------------------------------
(***************************************************************************)
(* The outgoing handler and the health monitor                             *)
(***************************************************************************)

(* Another part of the service has something to publish.                   *)
Traffic ==
  /\ traffic < MaxTraffic
  /\ PutOut
  /\ traffic' = traffic + 1
  /\ UNCHANGED <<start, link, handlers, held, inbox, worker, received,
                 results>>

GetMessage ==
  /\ outgoing = "get"
  /\ out # <<>>
  /\ held' = Head(out)
  /\ out' = Tail(out)
  /\ outgoing' = "publish"
  /\ UNCHANGED <<start, link, incoming, health, inbox, worker, counters,
                 results>>

Published ==
  /\ outgoing = "publish"
  /\ link = "up"
  /\ published' = published \cup {held}
  /\ held' = 0
  /\ outgoing' = "get"
  /\ UNCHANGED <<start, link, incoming, health, out, inbox, worker, counters,
                 dropped>>

(* Mutant: the message is not put back.                                    *)
NotPutBack(queue, message) == queue

PutBack(queue, message) == Append(queue, message)

(* Mutant: the handler puts the message back and goes on.                  *)
PublishFailsStays ==
  /\ outgoing = "publish"
  /\ link = "lost"
  /\ out' = PutBack(out, held)
  /\ held' = 0
  /\ outgoing' = "get"
  /\ UNCHANGED <<start, link, incoming, health, inbox, worker, counters,
                 results>>

(* A connection error: the message goes back, to the tail of the queue,    *)
(* and the handler ends.                                                   *)
PublishFails ==
  /\ outgoing = "publish"
  /\ link = "lost"
  /\ out' = PutBack(out, held)
  /\ held' = 0
  /\ outgoing' = "failed"
  /\ UNCHANGED <<start, link, incoming, health, inbox, worker, counters,
                 results>>

(* Any other error, a timeout for one: the message is given up.            *)
PublishDropped ==
  /\ outgoing = "publish"
  /\ dropped' = dropped \cup {held}
  /\ held' = 0
  /\ outgoing' = "get"
  /\ UNCHANGED <<start, link, incoming, health, out, inbox, worker, counters,
                 published>>

(* Mutant: the monitor notes the failure and goes on.                      *)
HealthGoesOn ==
  /\ health = "sleep"
  /\ UNCHANGED bridgeVars

(* The test message cannot be published, or not in time.                   *)
HealthFails ==
  /\ health = "sleep"
  /\ health' = "failed"
  /\ UNCHANGED <<start, link, incoming, outgoing, out, held, inbox, worker,
                 counters, results>>
-----------------------------------------------------------------------------
Next ==
  \/ Connect \/ ConnectFails \/ Backoff \/ Gathered \/ LinkLost
  \/ Subscribed \/ SubscribeFails \/ IncomingFails
  \/ \E kind \in Kinds : Receive(kind)
  \/ TakeInbox \/ Finish
  \/ Traffic \/ GetMessage \/ Published \/ PublishFails \/ PublishDropped
  \/ HealthFails

Spec == Init /\ [][Next]_bridgeVars

(* The event loop runs what is ready, and the client's calls on a lost     *)
(* connection fail.  The broker is reachable again and again, and again    *)
(* and again a connection lasts while a waiting message is taken and       *)
(* published.  Nothing is assumed of the traffic, of subscriptions or of   *)
(* errors other than a lost connection.                                    *)
Fairness ==
  /\ WF_bridgeVars(Backoff) /\ WF_bridgeVars(Gathered)
  /\ WF_bridgeVars(IncomingFails)
  /\ WF_bridgeVars(link = "lost" /\ HealthFails)
  /\ WF_bridgeVars(Subscribed \/ SubscribeFails)
  /\ WF_bridgeVars(GetMessage)
  /\ WF_bridgeVars(Published \/ PublishFails \/ PublishDropped)
  /\ WF_bridgeVars(TakeInbox) /\ WF_bridgeVars(Finish)
  /\ SF_bridgeVars(Connect)
  /\ SF_bridgeVars(link = "up" /\ GetMessage) /\ SF_bridgeVars(Published)

FairSpec == Spec /\ Fairness

-----------------------------------------------------------------------------
(***************************************************************************)
(* Properties                                                              *)
(***************************************************************************)

(* Where a message may be: waiting, in the hands of the outgoing handler,  *)
(* handed to the broker, or given up.                                      *)
Places == [waiting |-> Waiting, held |-> {held}, published |-> published,
           dropped |-> dropped]

(* Whatever fails and however often the bridge reconnects, every message   *)
(* put on the output queue is in exactly one place, and waits only once.   *)
MessagesConserved ==
  /\ \A i, j \in DOMAIN out : out[i] = out[j] => i = j
  /\ \A n \in 1 .. produced :
       Cardinality({p \in DOMAIN Places : n \in Places[p]}) = 1

(* A bridge that has gone deaf with its connection does not stay so once   *)
(* there is something to publish: that message meets the lost connection,  *)
(* the last handler ends and start() connects again, unless the message is *)
(* given up for another error ("This will cause reconnection",             *)
(* mqtt_interface.py:235).  With nothing to publish it does stay deaf.     *)
DeafBridgeReconnects ==
  \A n \in 1 .. MaxTraffic + 2 * MaxReceived :
    incoming = "failed" /\ link = "lost" /\ n \in Waiting
      ~> start = "connect" \/ n \in dropped

(* Neither queue keeps a message forever.  What was received is worked     *)
(* off, also when commands fail; what is to be published is, since the     *)
(* publication that meets the lost connection ends the last handler, and   *)
(* the bridge reconnects.                                                  *)
BothQueuesDrain ==
  /\ inbox # <<>> ~> inbox = <<>>
  /\ \A n \in 1 .. MaxTraffic + 2 * MaxReceived :
       n \in Waiting ~> n \in published \cup dropped
=============================================================================
