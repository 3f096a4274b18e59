-------------------------- MODULE MqttBridge_proofs --------------------------
(***************************************************************************)
(* Theorems about the bridge to the MQTT broker, for any number of         *)
(* messages: types, and that no message is lost or doubled whatever the    *)
(* connection does.                                                        *)
(*                                                                         *)
(* The inductive invariant has two parts.  The handlers are off unless     *)
(* start() gathers them, so a connection begins with no message held.  And *)
(* a received message is good for two on the output queue, its             *)
(* acknowledgement at once and its answer once it has been worked off: so  *)
(* what was produced and what is still to be worked off together are       *)
(* bounded by what came in.                                                *)
(***************************************************************************)
EXTENDS MqttBridge, FiniteSetTheorems, TLAPS

(* Handlers exist while they are gathered.                                 *)
HandlersGathered ==
  start # "gather" => incoming = "off" /\ outgoing = "off" /\ health = "off"

(* Answers that the worker may still put on the output queue.              *)
Unanswered == Len(inbox) + (IF worker = "idle" THEN 0 ELSE 1)

AnswersBounded == produced + Unanswered <= traffic + 2 * received

(* What TypeOK says, without the bound on what is produced.                *)
BridgeTypes ==
  /\ start \in {"connect", "backoff", "gather"}
  /\ link \in {"none", "up", "lost"}
  /\ incoming \in {"off", "subscribe", "listen", "failed"}
  /\ outgoing \in {"off", "get", "publish", "failed"}
  /\ health \in {"off", "sleep", "failed"}
  /\ produced \in Nat
  /\ out \in Seq(1 .. produced)
  /\ held \in 0 .. produced
  /\ inbox \in Seq(Kinds \ {"invalid"})
  /\ worker \in Kinds \cup {"idle"}
  /\ traffic \in 0 .. MaxTraffic
  /\ received \in 0 .. MaxReceived
  /\ published \subseteq 1 .. produced
  /\ dropped \subseteq 1 .. produced
  /\ (start = "gather") = (link # "none")
  /\ (held # 0) = (outgoing = "publish")

BridgeInv == BridgeTypes /\ HandlersGathered /\ AnswersBounded

(* A queue of messages keeps its type when more are produced.              *)
LEMMA SeqGrows ==
  ASSUME NEW n \in Nat, NEW s \in Seq(1 .. n)
  PROVE  Append(s, n + 1) \in Seq(1 .. (n + 1))
  OBVIOUS

(* The head of a queue is one of its messages, the tail has one less.      *)
LEMMA HeadAndTail ==
  ASSUME NEW S, NEW s \in Seq(S), s # <<>>
  PROVE  /\ Head(s) \in S
         /\ Tail(s) \in Seq(S)
         /\ Len(Tail(s)) = Len(s) - 1
  OBVIOUS

-----------------------------------------------------------------------------
(***************************************************************************)
(* Types                                                                   *)
(***************************************************************************)

(* Before the first connection nothing is under way.                       *)
LEMMA InitBridgeInv == Init => BridgeInv
  BY BoundsAssumption DEF Init, BridgeInv, BridgeTypes, HandlersGathered,
     AnswersBounded, Unanswered

(* The steps that touch neither queue nor message.                         *)
LEMMA ConnectionSteps ==
  ASSUME BridgeInv,
         \/ Connect \/ ConnectFails \/ Backoff \/ Gathered \/ LinkLost
         \/ Subscribed \/ SubscribeFails \/ IncomingFails \/ HealthFails
  PROVE  BridgeInv'
<1> USE DEF BridgeInv
<1>1. /\ UNCHANGED <<out, held, inbox, worker, counters, results>>
      /\ held # 0 => UNCHANGED outgoing
  BY DEF BridgeTypes, HandlersGathered, Connect, ConnectFails, Backoff,
         Gathered, AllEnded, LinkLost, Subscribed, SubscribeFails,
         IncomingFails, HealthFails, handlers, counters, results
<1>2. AnswersBounded'
  BY <1>1 DEF AnswersBounded, Unanswered, counters
<1>3. BridgeTypes'
  BY <1>1 DEF BridgeTypes, HandlersGathered, Connect, ConnectFails, Backoff,
         Gathered, AllEnded, LinkLost, Subscribed, SubscribeFails,
         IncomingFails, HealthFails, handlers, counters, results
<1>4. HandlersGathered'
  BY DEF BridgeTypes, HandlersGathered, Connect, ConnectFails, Backoff,
         Gathered, LinkLost, Subscribed, SubscribeFails,
         IncomingFails, HealthFails, handlers
<1> QED BY <1>2, <1>3, <1>4

(* A message is put on the output queue.                                   *)
LEMMA PutOutTypes ==
  ASSUME BridgeTypes, PutOut
  PROVE  /\ produced' \in Nat /\ produced' = produced + 1
         /\ out' \in Seq(1 .. produced')
         /\ held \in 0 .. produced'
         /\ published \subseteq 1 .. produced'
         /\ dropped \subseteq 1 .. produced'
<1>1. produced' = produced + 1 /\ out' = Append(out, produced + 1)
  BY DEF PutOut
<1>2. out' \in Seq(1 .. produced')
  BY <1>1, SeqGrows DEF BridgeTypes
<1> QED BY <1>1, <1>2 DEF BridgeTypes

(* A message of the broker: its acknowledgement goes out and what is to be *)
(* worked off joins the input queue.                                       *)
LEMMA ReceiveStep ==
  ASSUME BridgeInv, NEW kind \in Kinds, Receive(kind)
  PROVE  BridgeInv'
<1> USE DEF BridgeInv
<1>1. /\ received < MaxReceived
      /\ received' = received + 1
      /\ UNCHANGED <<start, link, incoming, outgoing, health, held, worker,
                     traffic, published, dropped>>
  BY DEF Receive, Forward, handlers, results
<1>2. received' \in 0 .. MaxReceived
  BY <1>1, BoundsAssumption DEF BridgeTypes
<1>3. /\ inbox' \in Seq(Kinds \ {"invalid"})
      /\ Len(inbox') <= Len(inbox) + 1
  <2>1. CASE kind = "invalid"
    BY <2>1 DEF Receive, Forward, BridgeTypes
  <2>2. CASE kind # "invalid"
    <3> DEFINE item == IF kind = "command" THEN kind ELSE "config"
    <3>1. inbox' = Append(inbox, item)
      BY <2>2 DEF Receive, Forward
    <3>2. item \in Kinds \ {"invalid"}
      BY DEF Kinds
    <3> HIDE DEF item
    <3> QED BY <3>1, <3>2 DEF BridgeTypes
  <2> QED BY <2>1, <2>2
<1>4. CASE Acknowledged(kind)
  <2>1. PutOut
    BY <1>4 DEF Receive, Forward
  <2>2. BridgeTypes'
    BY <1>1, <1>2, <1>3, <2>1, PutOutTypes DEF BridgeTypes
  <2>3. AnswersBounded'
    BY <1>1, <1>3, <2>1, PutOutTypes
       DEF BridgeTypes, AnswersBounded, Unanswered
  <2> QED BY <1>1, <2>2, <2>3 DEF HandlersGathered
<1>5. CASE ~Acknowledged(kind)
  <2>1. UNCHANGED <<out, produced>>
    BY <1>5 DEF Receive, Forward
  <2>2. BridgeTypes'
    BY <1>1, <1>2, <1>3, <2>1 DEF BridgeTypes
  <2>3. AnswersBounded'
    BY <1>1, <1>3, <2>1 DEF BridgeTypes, AnswersBounded, Unanswered
  <2> QED BY <1>1, <2>2, <2>3 DEF HandlersGathered
<1> QED BY <1>4, <1>5

(* The worker takes a message and is done with it.                         *)
LEMMA WorkerSteps ==
  ASSUME BridgeInv, TakeInbox \/ Finish
  PROVE  BridgeInv'
<1> USE DEF BridgeInv
<1>1. CASE TakeInbox
  <2>1. /\ worker' \in Kinds /\ worker = "idle"
        /\ inbox' \in Seq(Kinds \ {"invalid"})
        /\ Len(inbox') = Len(inbox) - 1
    BY <1>1, HeadAndTail DEF TakeInbox, BridgeTypes
  <2>2. UNCHANGED <<start, link, incoming, outgoing, health, out, held,
                    produced, traffic, received, published, dropped>>
    BY <1>1 DEF TakeInbox, handlers, counters, results
  <2>3. /\ traffic \in Int /\ received \in Int /\ produced \in Int
        /\ Len(inbox) \in Nat
    BY BoundsAssumption DEF BridgeTypes
  <2>4. worker' # "idle"
    BY <2>1 DEF Kinds
  <2>5. AnswersBounded'
    BY <2>1, <2>2, <2>3, <2>4 DEF AnswersBounded, Unanswered
  <2> QED BY <2>1, <2>2, <2>5 DEF BridgeTypes, HandlersGathered
<1>2. CASE Finish
  <2>1. /\ worker # "idle" /\ worker' = "idle"
        /\ UNCHANGED <<start, link, incoming, outgoing, health, held, inbox,
                       traffic, received, published, dropped>>
    BY <1>2 DEF Finish, handlers, results
  <2>2. CASE worker = "command"
    <3>1. PutOut
      BY <1>2, <2>2 DEF Finish
    <3> QED BY <2>1, <3>1, PutOutTypes
            DEF BridgeTypes, AnswersBounded, Unanswered, HandlersGathered
  <2>3. CASE worker # "command"
    <3>1. UNCHANGED <<out, produced>>
      BY <1>2, <2>3 DEF Finish
    <3> QED BY <2>1, <3>1
            DEF BridgeTypes, AnswersBounded, Unanswered, HandlersGathered
  <2> QED BY <2>2, <2>3
<1> QED BY <1>1, <1>2

(* Another part of the service has a message.                              *)
LEMMA TrafficStep ==
  ASSUME BridgeInv, Traffic
  PROVE  BridgeInv'
<1> USE DEF BridgeInv
<1>1. /\ PutOut
      /\ traffic < MaxTraffic /\ traffic' = traffic + 1
      /\ UNCHANGED <<start, link, incoming, outgoing, health, held, inbox,
                     worker, received, published, dropped>>
  BY DEF Traffic, handlers, results
<1>2. traffic' \in 0 .. MaxTraffic
  BY <1>1, BoundsAssumption DEF BridgeTypes
<1> QED BY <1>1, <1>2, PutOutTypes
        DEF BridgeTypes, AnswersBounded, Unanswered, HandlersGathered

(* The outgoing handler takes a message and is rid of it again.            *)
LEMMA OutgoingSteps ==
  ASSUME BridgeInv,
         GetMessage \/ Published \/ PublishFails \/ PublishDropped
  PROVE  BridgeInv'
<1> USE DEF BridgeInv
<1>1. UNCHANGED <<start, link, incoming, health, inbox, worker, produced,
                  traffic, received>>
  BY DEF GetMessage, Published, PublishFails, PublishDropped, counters
<1>2. AnswersBounded'
  BY <1>1 DEF AnswersBounded, Unanswered
<1>3. /\ outgoing \in {"get", "publish"}
      /\ start = "gather"
  BY DEF BridgeTypes, HandlersGathered, GetMessage, Published, PublishFails,
         PublishDropped
<1>4. HandlersGathered'
  BY <1>1, <1>3 DEF HandlersGathered
<1>5. CASE GetMessage
  <2>1. /\ held' \in 1 .. produced
        /\ out' \in Seq(1 .. produced)
    BY <1>5, HeadAndTail DEF GetMessage, BridgeTypes
  <2> QED BY <1>1, <1>2, <1>4, <1>5, <2>1 DEF GetMessage, BridgeTypes, results
<1>6. CASE Published \/ PublishDropped
  <2>1. held \in 1 .. produced
    BY <1>6 DEF Published, PublishDropped, BridgeTypes
  <2>2. /\ UNCHANGED out
        /\ held' = 0 /\ outgoing' = "get"
        /\ published' \subseteq 1 .. produced
        /\ dropped' \subseteq 1 .. produced
    BY <1>6, <2>1 DEF Published, PublishDropped, BridgeTypes
  <2> QED BY <1>1, <1>2, <1>4, <2>2 DEF BridgeTypes
<1>7. CASE PublishFails
  <2>1. held \in 1 .. produced
    BY <1>7 DEF PublishFails, BridgeTypes
  <2>2. out' \in Seq(1 .. produced)
    BY <1>7, <2>1 DEF PublishFails, PutBack, BridgeTypes
  <2> QED BY <1>1, <1>2, <1>4, <1>7, <2>2
          DEF PublishFails, BridgeTypes, results
<1> QED BY <1>5, <1>6, <1>7

(* Every step keeps the invariant.                                         *)
LEMMA NextBridgeInv == BridgeInv /\ [Next]_bridgeVars => BridgeInv'
<1> SUFFICES ASSUME BridgeInv, [Next]_bridgeVars
             PROVE  BridgeInv'
  OBVIOUS
<1>1. CASE UNCHANGED bridgeVars
  BY <1>1 DEF bridgeVars, BridgeInv, BridgeTypes, HandlersGathered,
         AnswersBounded, Unanswered
<1>2. CASE Next
  BY <1>2, ConnectionSteps, ReceiveStep, WorkerSteps, TrafficStep,
     OutgoingSteps DEF Next
<1> QED BY <1>1, <1>2

(* The invariant of the bridge: handlers run only while they are gathered, *)
(* and what was produced is bounded by what came in.                       *)
THEOREM BridgeInvariance == Spec => []BridgeInv
  BY InitBridgeInv, NextBridgeInv, PTL DEF Spec

(* Type correctness; in particular no more messages are produced than the  *)
(* service has to publish and received messages are acknowledged and       *)
(* answered with.                                                          *)
THEOREM TypeCorrectness == Spec => []TypeOK
<1>1. BridgeInv => TypeOK
  <2> SUFFICES ASSUME BridgeInv PROVE TypeOK
    OBVIOUS
  <2>1. Unanswered \in Nat
    BY DEF BridgeInv, BridgeTypes, Unanswered
  <2>2. produced \in 0 .. MaxTraffic + 2 * MaxReceived
    BY <2>1, BoundsAssumption DEF BridgeInv, BridgeTypes, AnswersBounded
  <2> QED BY <2>2 DEF BridgeInv, BridgeTypes, TypeOK
<1> QED BY <1>1, BridgeInvariance, PTL

-----------------------------------------------------------------------------
(***************************************************************************)
(* No message is lost or doubled                                           *)
(***************************************************************************)

(* No message waits twice.                                                 *)
NoneTwice(s) == \A i, j \in DOMAIN s : s[i] = s[j] => i = j

Elems(s) == {s[i] : i \in DOMAIN s}

(* Every message is in one of its four places, and in one only.            *)
Conserved ==
  /\ NoneTwice(out)
  /\ 1 .. produced \subseteq Elems(out) \cup {held} \cup published \cup dropped
  /\ held \notin Elems(out) \cup published \cup dropped
  /\ Elems(out) \cap (published \cup dropped) = {}
  /\ published \cap dropped = {}

(* What Append adds to a queue.                                            *)
LEMMA AppendFacts ==
  ASSUME NEW n \in Nat, NEW s \in Seq(1 .. n), NEW m \in Nat,
         NoneTwice(s), m \notin Elems(s)
  PROVE  /\ Elems(Append(s, m)) = Elems(s) \cup {m}
         /\ NoneTwice(Append(s, m))
<1> DEFINE l == Len(s)
<1>1. /\ l \in Nat /\ DOMAIN s = 1 .. l
      /\ DOMAIN Append(s, m) = 1 .. l + 1
      /\ \A i \in 1 .. l : Append(s, m)[i] = s[i]
      /\ Append(s, m)[l + 1] = m
  OBVIOUS
<1> HIDE DEF l
<1>2. 1 .. l + 1 = 1 .. l \cup {l + 1}
  BY <1>1
<1>3. \A i \in 1 .. l : s[i] # m
  BY <1>1 DEF Elems
<1> QED BY <1>1, <1>2, <1>3 DEF Elems, NoneTwice

(* The head of a queue leaves it.                                          *)
LEMMA TailFacts ==
  ASSUME NEW n \in Nat, NEW s \in Seq(1 .. n), s # <<>>, NoneTwice(s)
  PROVE  /\ Elems(s) = Elems(Tail(s)) \cup {Head(s)}
         /\ Head(s) \notin Elems(Tail(s))
         /\ NoneTwice(Tail(s))
<1> DEFINE l == Len(s)
<1>1. /\ l \in Nat \ {0} /\ DOMAIN s = 1 .. l
      /\ DOMAIN Tail(s) = 1 .. l - 1
      /\ \A i \in 1 .. l - 1 : Tail(s)[i] = s[i + 1]
      /\ Head(s) = s[1]
  OBVIOUS
<1> HIDE DEF l
<1>2. \A i \in 1 .. l : i = 1 \/ i - 1 \in 1 .. l - 1
  BY <1>1
<1>3. \A i \in 1 .. l - 1 : i + 1 \in 1 .. l /\ i + 1 # 1
  BY <1>1
<1>4. 1 \in DOMAIN s
  BY <1>1
<1>5. Elems(s) \subseteq Elems(Tail(s)) \cup {Head(s)}
  <2> SUFFICES ASSUME NEW i \in 1 .. l, i # 1
               PROVE  s[i] \in Elems(Tail(s))
    BY <1>1 DEF Elems
  <2>1. i - 1 \in 1 .. l - 1 /\ Tail(s)[i - 1] = s[i]
    BY <1>1, <1>2
  <2> QED BY <1>1, <2>1 DEF Elems
<1>6. Elems(Tail(s)) \cup {Head(s)} \subseteq Elems(s)
  BY <1>1, <1>3, <1>4 DEF Elems
<1>7. Head(s) \notin Elems(Tail(s))
  BY <1>1, <1>3, <1>4 DEF Elems, NoneTwice
<1>8. NoneTwice(Tail(s))
  <2> SUFFICES ASSUME NEW i \in 1 .. l - 1, NEW j \in 1 .. l - 1,
                      s[i + 1] = s[j + 1]
               PROVE  i = j
    BY <1>1 DEF NoneTwice
  <2>1. i + 1 = j + 1
    BY <1>1, <1>3 DEF NoneTwice
  <2> QED BY <2>1
<1> QED BY <1>5, <1>6, <1>7, <1>8

(* A new message waits, and is nowhere else.                               *)
LEMMA PutOutConserves ==
  ASSUME BridgeTypes, Conserved, PutOut, UNCHANGED <<held, results>>
  PROVE  Conserved'
<1> DEFINE n == produced + 1
<1>1. /\ out' = Append(out, n) /\ produced' = n
      /\ UNCHANGED <<held, published, dropped>>
  BY DEF PutOut, results
<1>2. /\ n \in Nat
      /\ n \notin Elems(out) \cup {held} \cup published \cup dropped
      /\ 1 .. n = 1 .. produced \cup {n}
  BY DEF BridgeTypes, Elems
<1> HIDE DEF n
<1>3. /\ Elems(out') = Elems(out) \cup {n}
      /\ NoneTwice(out')
  BY <1>1, <1>2, AppendFacts DEF BridgeTypes, Conserved
<1>4. Elems(out)' = Elems(out') /\ NoneTwice(out)' = NoneTwice(out')
  BY DEF Elems, NoneTwice
<1> QED BY <1>1, <1>2, <1>3, <1>4 DEF Conserved

(* The message goes from the queue to the handler, and from the handler to *)
(* the broker, back to the queue, or nowhere.                              *)
LEMMA OutgoingConserves ==
  ASSUME BridgeTypes, Conserved,
         GetMessage \/ Published \/ PublishFails \/ PublishDropped
  PROVE  Conserved'
<1>1. Elems(out)' = Elems(out') /\ NoneTwice(out)' = NoneTwice(out')
  BY DEF Elems, NoneTwice
<1>2. /\ 0 \notin 1 .. produced /\ Elems(out) \subseteq 1 .. produced
      /\ published \subseteq 1 .. produced /\ dropped \subseteq 1 .. produced
  BY DEF BridgeTypes, Elems
<1>3. CASE GetMessage
  <2>1. /\ held = 0 /\ out # <<>>
        /\ held' = Head(out) /\ out' = Tail(out)
        /\ UNCHANGED <<produced, published, dropped>>
    BY <1>3 DEF GetMessage, BridgeTypes, counters, results
  <2>2. /\ Elems(out) = Elems(out') \cup {held'}
        /\ held' \notin Elems(out')
        /\ NoneTwice(out')
    BY <2>1, TailFacts DEF BridgeTypes, Conserved
  <2> QED BY <1>1, <1>2, <2>1, <2>2 DEF Conserved
<1>4. CASE Published \/ PublishDropped
  <2>1. /\ held' = 0
        /\ UNCHANGED <<out, produced>>
        /\ \/ published' = published \cup {held} /\ UNCHANGED dropped
           \/ dropped' = dropped \cup {held} /\ UNCHANGED published
    BY <1>4 DEF Published, PublishDropped, counters
  <2>2. held # 0
    BY <1>4 DEF Published, PublishDropped, BridgeTypes
  <2> QED BY <1>1, <1>2, <2>1, <2>2 DEF Conserved
<1>5. CASE PublishFails
  <2>1. /\ held \in 1 .. produced /\ held' = 0
        /\ out' = Append(out, held)
        /\ UNCHANGED <<produced, published, dropped>>
    BY <1>5 DEF PublishFails, PutBack, BridgeTypes, counters, results
  <2>2. /\ Elems(out') = Elems(out) \cup {held}
        /\ NoneTwice(out')
    BY <2>1, AppendFacts DEF BridgeTypes, Conserved
  <2> QED BY <1>1, <1>2, <2>1, <2>2 DEF Conserved
<1> QED BY <1>3, <1>4, <1>5

(* Every step keeps each message in one place.                             *)
LEMMA NextConserved ==
  BridgeTypes /\ Conserved /\ [Next]_bridgeVars => Conserved'
<1> SUFFICES ASSUME BridgeTypes, Conserved, [Next]_bridgeVars
             PROVE  Conserved'
  OBVIOUS
<1>1. CASE UNCHANGED <<out, held, produced, results>>
  BY <1>1 DEF Conserved, NoneTwice, Elems, results
<1>2. CASE UNCHANGED bridgeVars
  BY <1>1, <1>2 DEF bridgeVars, results
<1>3. CASE Connect \/ ConnectFails \/ Backoff \/ Gathered \/ LinkLost
  BY <1>1, <1>3 DEF Connect, ConnectFails, Backoff, Gathered, LinkLost,
                    counters
<1>4. CASE Subscribed \/ SubscribeFails \/ IncomingFails \/ HealthFails
             \/ TakeInbox
  BY <1>1, <1>4 DEF Subscribed, SubscribeFails, IncomingFails, HealthFails,
                    TakeInbox, counters
<1>5. ASSUME NEW kind \in Kinds, Receive(kind)
      PROVE  Conserved'
  BY <1>1, <1>5, PutOutConserves DEF Receive, Forward, results
<1>6. CASE Finish
  BY <1>1, <1>6, PutOutConserves DEF Finish, results
<1>7. CASE Traffic
  BY <1>7, PutOutConserves DEF Traffic
<1>8. CASE GetMessage \/ Published \/ PublishFails \/ PublishDropped
  BY <1>8, OutgoingConserves
<1> QED BY <1>2, <1>3, <1>4, <1>5, <1>6, <1>7, <1>8 DEF Next

(* A message in one place only is in exactly one.                          *)
LEMMA OnePlace ==
  ASSUME Conserved, NEW n \in 1 .. produced
  PROVE  Cardinality({p \in DOMAIN Places : n \in Places[p]}) = 1
<1> DEFINE P == {p \in DOMAIN Places : n \in Places[p]}
<1>1. /\ DOMAIN Places = {"waiting", "held", "published", "dropped"}
      /\ Places["waiting"] = Elems(out) /\ Places["held"] = {held}
      /\ Places["published"] = published /\ Places["dropped"] = dropped
  BY DEF Places, Waiting, Elems
<1>2. \E p : P = {p}
  <2>1. CASE n \in Elems(out)
    <3>1. P = {"waiting"}
      BY <1>1, <2>1 DEF Conserved
    <3> QED BY <3>1
  <2>2. CASE n = held
    <3>1. P = {"held"}
      BY <1>1, <2>2 DEF Conserved
    <3> QED BY <3>1
  <2>3. CASE n \in published
    <3>1. P = {"published"}
      BY <1>1, <2>3 DEF Conserved
    <3> QED BY <3>1
  <2>4. CASE n \in dropped
    <3>1. P = {"dropped"}
      BY <1>1, <2>4 DEF Conserved
    <3> QED BY <3>1
  <2> QED BY <2>1, <2>2, <2>3, <2>4 DEF Conserved
<1> HIDE DEF P
<1>3. Cardinality(P) = 1
  BY <1>2, FS_Singleton
<1> QED BY <1>3 DEF P

(* Every message put on the output queue is waiting once, being published, *)
(* handed to the broker or given up, and only one of these, whatever fails *)
(* and however often the bridge reconnects.                                *)
THEOREM NoMessageLost == Spec => []MessagesConserved
<1>1. Init => Conserved
  BY DEF Init, Conserved, NoneTwice, Elems
<1>2. BridgeInv /\ Conserved /\ [Next]_bridgeVars => Conserved'
  BY NextConserved DEF BridgeInv
<1>3. Conserved => MessagesConserved
  BY OnePlace DEF Conserved, MessagesConserved, NoneTwice
<1> QED BY <1>1, <1>2, <1>3, BridgeInvariance, PTL DEF Spec

=============================================================================
