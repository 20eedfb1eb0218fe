-------------------------- MODULE MqttClientProofs --------------------------
(***************************************************************************)
(* Proofs about MqttClient, for every capacity and every bound.            *)
(***************************************************************************)
EXTENDS MqttClient, WellFoundedInduction, TLAPS

-----------------------------------------------------------------------------
(* Types.                                                                  *)

\* The loop leaves its read phases with the one DISCONNECT it reads.
DiscUnread == loop \in {"none", "poll", "deliver"} => disc = <<>>

TypeInv == TypeOK /\ DiscUnread

\* A part of the state a step leaves alone keeps its type.
LEMMA Untouched ==
    /\ SharedOK /\ UNCHANGED shared => SharedOK'
    /\ TaskOK /\ UNCHANGED task => TaskOK'
    /\ NetworkOK /\ UNCHANGED network => NetworkOK'
    /\ HistoryOK /\ UNCHANGED history => HistoryOK'
    /\ ActorOK /\ UNCHANGED actor => ActorOK'
    /\ DiscUnread /\ UNCHANGED <<shared, task>> => DiscUnread'
BY DEF SharedOK, TaskOK, NetworkOK, HistoryOK, ActorOK, DiscUnread,
       shared, task, network, history, actor

\* A dropped or a fresh session is empty.
LEMMA FreshSession ==
    ASSUME NetworkOK, waiters' = NoWaiters, requests' = <<>>, inbox' = <<>>, disc' = <<>>,
           loop' \in {"none", "poll"}, held' = 0, wire' = <<>>, unacked' = {},
           link' \in {"none", "up"}, npubs' \in {0, npubs}
    PROVE  SharedOK' /\ TaskOK' /\ NetworkOK' /\ DiscUnread'
BY CapAssumption DEF SharedOK, TaskOK, NetworkOK, DiscUnread, NoWaiters

\* Taking the first packet off the wire.
LEMMA WireTail ==
    ASSUME NetworkOK, NEW t, PollPacket(t), UNCHANGED <<unacked, link, npubs>>
    PROVE  NetworkOK' /\ Head(wire) \in Packets /\ Head(wire).id \in Nat
           /\ (t \in {"ack", "nack"} => Head(wire).ack \in Acks)
<1>1. wire' \in Seq(Packets) /\ Head(wire) \in Packets /\ Head(wire).type = t
  BY DEF NetworkOK, PollPacket
<1>2. Head(wire).id \in Nat /\ (t \in {"ack", "nack"} => Head(wire).ack \in Acks)
  BY <1>1 DEF Packets
<1> QED
  BY <1>1, <1>2 DEF NetworkOK

\* The steps of the harness: starting commands and the teardown.
LEMMA TypeStarts == TypeInv /\ (ActorStarts \/ Teardown) => TypeInv'
<1> SUFFICES ASSUME TypeInv, ActorStarts \/ Teardown PROVE TypeInv'
  OBVIOUS
<1> USE DEF TypeInv, TypeOK, Begin, Finish
<1>1. CASE NotImplemented \/ ConnectFails \/ RejectClientSide
  <2>1. ActorOK'
    BY <1>1 DEF NotImplemented, ConnectFails, RejectClientSide, ActorOK, Commands, Outcomes
  <2>2. UNCHANGED <<shared, task, network, history>>
    BY <1>1 DEF NotImplemented, ConnectFails, RejectClientSide
  <2> QED
    BY <2>1, <2>2, Untouched
<1>2. CASE ConnectSucceeds
  <2>1. ActorOK'
    BY <1>2 DEF ConnectSucceeds, SpawnConnected, ActorOK, Commands, Outcomes
  <2>2. HistoryOK'
    BY <1>2 DEF ConnectSucceeds, SpawnConnected, HistoryOK
  <2> QED
    BY <1>2, <2>1, <2>2, FreshSession DEF ConnectSucceeds, SpawnConnected
<1>3. CASE StartAcked
  <2>1. ActorOK'
    BY <1>3 DEF StartAcked, ActorOK, Commands, Outcomes
  <2>2. SharedOK'
    <3>1. PICK k \in Acks : waiters' = [waiters EXCEPT ![k] = Append(@, ncmds + 1)]
      BY <1>3 DEF StartAcked, PushWaiter, AckOf, Acks
    <3>2. waiters' \in [Acks -> Seq(Nat)]
      BY <3>1 DEF SharedOK, ActorOK
    <3> QED
      BY <1>3, <3>2 DEF StartAcked, SharedOK
  <2>3. DiscUnread'
    BY <1>3 DEF StartAcked, DiscUnread, task
  <2> QED
    BY <1>3, <2>1, <2>2, <2>3, Untouched DEF StartAcked
<1>4. CASE StartUnacked \/ StartReceive \/ Teardown
  <2>1. ActorOK'
    BY <1>4 DEF StartUnacked, StartReceive, Teardown, TeardownDisconnected,
                TeardownConnected, ActorOK, Commands, Outcomes
  <2>2. UNCHANGED <<shared, task, network, history>>
    BY <1>4 DEF StartUnacked, StartReceive, Teardown, TeardownDisconnected, TeardownConnected
  <2> QED
    BY <2>1, <2>2, Untouched
<1> QED
  BY <1>1, <1>2, <1>3, <1>4 DEF ActorStarts

\* The steps of the actor task inside a command.
LEMMA TypeActor == TypeInv /\ ActorSteps => TypeInv'
<1> SUFFICES ASSUME TypeInv, ActorSteps PROVE TypeInv'
  OBVIOUS
<1> USE DEF TypeInv, TypeOK, Finish
<1>1. CASE SendAcked
  <2>1. ActorOK'
    BY <1>1 DEF SendAcked, ActorOK
  <2>2. SharedOK'
    BY <1>1, CapAssumption DEF SendAcked, Request, Requests, SharedOK, ActorOK
  <2>3. DiscUnread'
    BY <1>1 DEF SendAcked, DiscUnread, task
  <2> QED
    BY <1>1, <2>1, <2>2, <2>3, Untouched DEF SendAcked
<1>2. CASE SendQos0
  <2>1. ActorOK'
    BY <1>2 DEF SendQos0, ActorOK, Outcomes
  <2>2. SharedOK'
    BY <1>2, CapAssumption DEF SendQos0, Request, Requests, SharedOK, ActorOK
  <2>3. DiscUnread'
    BY <1>2 DEF SendQos0, DiscUnread, task
  <2> QED
    BY <1>2, <2>1, <2>2, <2>3, Untouched DEF SendQos0
<1>3. CASE SendDisconnect \/ ReceiveDisconnect
  <2>1. ActorOK'
    BY <1>3 DEF SendDisconnect, ReceiveDisconnect, DropConnected, ActorOK, Outcomes
  <2>2. SharedOK' /\ TaskOK' /\ NetworkOK' /\ DiscUnread'
    BY <1>3, FreshSession DEF SendDisconnect, ReceiveDisconnect, DropConnected
  <2> QED
    BY <1>3, <2>1, <2>2, Untouched DEF SendDisconnect, ReceiveDisconnect
<1>4. CASE SendAckedFails
  <2>1. ActorOK'
    BY <1>4 DEF SendAckedFails, ActorOK, Outcomes
  <2>2. SharedOK'
    BY <1>4 DEF SendAckedFails, PopWaiter, SharedOK
  <2>3. DiscUnread'
    BY <1>4 DEF SendAckedFails, DiscUnread, task
  <2> QED
    BY <1>4, <2>1, <2>2, <2>3, Untouched DEF SendAckedFails
<1>5. CASE SendQos0Fails \/ AwaitAck \/ ReceivePublishEmpty \/ ReceiveDisconnectTimeout
  <2>1. ActorOK'
    BY <1>5 DEF SendQos0Fails, AwaitAck, ReceivePublishEmpty, ReceiveDisconnectTimeout,
                ActorOK, Outcomes
  <2>2. UNCHANGED <<shared, task, network, history>>
    BY <1>5 DEF SendQos0Fails, AwaitAck, ReceivePublishEmpty, ReceiveDisconnectTimeout
  <2> QED
    BY <2>1, <2>2, Untouched
<1>6. CASE ReceivePublish
  <2>1. ActorOK'
    BY <1>6 DEF ReceivePublish, ActorOK, Outcomes
  <2>2. SharedOK' /\ Head(inbox) \in Nat
    BY <1>6, CapAssumption DEF ReceivePublish, SharedOK
  <2>3. HistoryOK'
    BY <1>6, <2>2 DEF ReceivePublish, HistoryOK
  <2>4. DiscUnread'
    BY <1>6 DEF ReceivePublish, DiscUnread, task
  <2> QED
    BY <1>6, <2>1, <2>2, <2>3, <2>4, Untouched DEF ReceivePublish
<1> QED
  BY <1>1, <1>2, <1>3, <1>4, <1>5, <1>6 DEF ActorSteps

\* The steps of run_event_loop.
LEMMA TypeLoop == TypeInv /\ LoopSteps => TypeInv'
<1> SUFFICES ASSUME TypeInv, LoopSteps PROVE TypeInv'
  OBVIOUS
<1> USE DEF TypeInv, TypeOK
<1>1. CASE PollRequest
  <2>1. SharedOK' /\ Head(requests) \in Requests
    BY <1>1, CapAssumption DEF PollRequest, SharedOK
  <2>2. Head(requests).ack \in Acks => Head(requests) \in [ack : Acks, id : Nat]
    BY <2>1 DEF Requests
  <2>3. NetworkOK'
    BY <1>1, <2>2 DEF PollRequest, NetworkOK
  <2>4. DiscUnread'
    BY <1>1 DEF PollRequest, DiscUnread, task
  <2> QED
    BY <1>1, <2>1, <2>3, <2>4, Untouched DEF PollRequest
<1>2. CASE PollPublish
  <2>1. NetworkOK' /\ Head(wire).id \in Nat
    BY <1>2, WireTail DEF PollPublish
  <2>2. TaskOK' /\ DiscUnread'
    BY <1>2, <2>1 DEF PollPublish, PollPacket, TaskOK, DiscUnread, shared
  <2> QED
    BY <1>2, <2>1, <2>2, Untouched DEF PollPublish
<1>3. CASE DeliverPublish
  <2>1. SharedOK'
    BY <1>3, CapAssumption DEF DeliverPublish, SharedOK, TaskOK
  <2>2. TaskOK' /\ DiscUnread'
    BY <1>3 DEF DeliverPublish, TaskOK, DiscUnread
  <2> QED
    BY <1>3, <2>1, <2>2, Untouched DEF DeliverPublish
<1>4. CASE PollAck \/ PollNack
  <2>1. PICK v \in {"ok", "mqtt"} : WakeWaiter(Head(wire).ack, v)
    BY <1>4 DEF PollAck, PollNack
  <2>2. NetworkOK' /\ Head(wire).ack \in Acks
    BY <1>4, WireTail DEF PollAck, PollNack
  <2>3. ActorOK'
    BY <1>4, <2>1 DEF PollAck, PollNack, WakeWaiter, ActorOK
  <2>4. SharedOK'
    <3>1. PICK k \in Acks : WakeWaiter(k, v)
      BY <2>1, <2>2
    <3>2. waiters' = waiters \/ (waiters[k] # <<>> /\ waiters' = [waiters EXCEPT ![k] = Tail(@)])
      BY <3>1 DEF WakeWaiter
    <3>3. waiters[k] # <<>> => Tail(waiters[k]) \in Seq(Nat)
      BY DEF SharedOK
    <3>4. waiters' \in [Acks -> Seq(Nat)]
      BY <3>2, <3>3 DEF SharedOK
    <3> QED
      BY <1>4, <3>4 DEF PollAck, PollNack, SharedOK
  <2>5. DiscUnread'
    BY <1>4 DEF PollAck, PollNack, DiscUnread, task
  <2> QED
    BY <1>4, <2>2, <2>3, <2>4, <2>5, Untouched DEF PollAck, PollNack
<1>5. CASE PollPubRec
  BY <1>5, WireTail, Untouched DEF PollPubRec
<1>6. CASE PollDisconnect
  <2>1. NetworkOK'
    BY <1>6, WireTail DEF PollDisconnect
  <2>2. SharedOK'
    BY <1>6 DEF PollDisconnect, PollPacket, SharedOK, DiscUnread
  <2>3. TaskOK' /\ DiscUnread'
    BY <1>6 DEF PollDisconnect, PollPacket, TaskOK, DiscUnread
  <2>4. HistoryOK'
    BY <1>6 DEF PollDisconnect, HistoryOK
  <2> QED
    BY <1>6, <2>1, <2>2, <2>3, <2>4, Untouched DEF PollDisconnect
<1>7. CASE PollError \/ DropInboxes
  <2>1. TaskOK' /\ DiscUnread'
    BY <1>7 DEF PollError, DropInboxes, TaskOK, DiscUnread, shared
  <2> QED
    BY <1>7, <2>1, Untouched DEF PollError, DropInboxes
<1>8. CASE DropEventLoop
  <2>1. SharedOK'
    BY <1>8, CapAssumption DEF DropEventLoop, SharedOK
  <2>2. TaskOK' /\ DiscUnread'
    BY <1>8 DEF DropEventLoop, TaskOK, DiscUnread
  <2> QED
    BY <1>8, <2>1, <2>2, Untouched DEF DropEventLoop
<1>9. ASSUME NEW at, NEW k \in Acks, NEW next \in {"failQos1", "failQos2", "exitInboxes"},
             FailQueue(at, k, next)
      PROVE  TypeInv'
  <2>1. ActorOK'
    BY <1>9 DEF FailQueue, ActorOK
  <2>2. SharedOK'
    BY <1>9 DEF FailQueue, SharedOK
  <2>3. TaskOK' /\ DiscUnread'
    BY <1>9 DEF FailQueue, TaskOK, DiscUnread
  <2> QED
    BY <1>9, <2>1, <2>2, <2>3, Untouched DEF FailQueue
<1> QED
  BY <1>1, <1>2, <1>3, <1>4, <1>5, <1>6, <1>7, <1>8, <1>9 DEF LoopSteps, FailAll, Acks

\* The steps of the broker and the network.
LEMMA TypeBroker == TypeInv /\ BrokerSteps => TypeInv'
<1> SUFFICES ASSUME TypeInv, BrokerSteps PROVE TypeInv'
  OBVIOUS
<1> USE DEF TypeInv, TypeOK
<1>1. CASE BrokerAnswers
  <2>1. PICK r \in unacked, t \in {"ack", "nack", "pubrec"} :
           unacked' = unacked \ {r} /\ wire' = Append(wire, Packet(t, r.ack, r.id))
    BY <1>1 DEF BrokerAnswers, BrokerAccepts, BrokerRejects, BrokerRejectsQos2
  <2>2. r.id \in Nat /\ Packet(t, r.ack, r.id) \in Packets
    BY <2>1 DEF NetworkOK, Packet, Packets
  <2>3. NetworkOK'
    BY <1>1, <2>1, <2>2 DEF BrokerAnswers, BrokerAccepts, BrokerRejects,
                            BrokerRejectsQos2, NetworkOK
  <2>4. \A s \in unacked : s.id \in Nat
    BY DEF NetworkOK
  <2>5. HistoryOK'
    BY <1>1, <2>4 DEF BrokerAnswers, BrokerAccepts, BrokerRejects, BrokerRejectsQos2, HistoryOK
  <2>6. UNCHANGED <<actor, shared, task>>
    BY <1>1 DEF BrokerAnswers, BrokerAccepts, BrokerRejects, BrokerRejectsQos2
  <2> QED
    BY <2>3, <2>5, <2>6, Untouched
<1>2. CASE BrokerPublishes \/ BrokerDisconnects
  <2>1. PICK t \in {"publish", "disconnect"}, n \in {0, npubs + 1} :
           wire' = Append(wire, Packet(t, NoAck, n))
    BY <1>2 DEF BrokerPublishes, BrokerDisconnects
  <2>2. Packet(t, NoAck, n) \in Packets
    BY DEF NetworkOK, Packet, Packets
  <2>3. NetworkOK'
    BY <1>2, <2>1, <2>2 DEF BrokerPublishes, BrokerDisconnects, NetworkOK
  <2> QED
    BY <1>2, <2>3, Untouched DEF BrokerPublishes, BrokerDisconnects
<1>3. CASE LinkFails
  <2>1. NetworkOK'
    BY <1>3 DEF LinkFails, NetworkOK
  <2> QED
    BY <1>3, <2>1, Untouched DEF LinkFails
<1> QED
  BY <1>1, <1>2, <1>3 DEF BrokerSteps

LEMMA TypeInit == Init => TypeInv
<1> SUFFICES ASSUME Init PROVE TypeInv
  OBVIOUS
<1>1. ActorOK /\ HistoryOK
  BY DEF Init, ActorOK, HistoryOK, Outcomes
<1>2. SharedOK
  BY CapAssumption DEF Init, NoWaiters, SharedOK
<1>3. TaskOK /\ NetworkOK /\ DiscUnread
  BY DEF Init, TaskOK, NetworkOK, DiscUnread
<1> QED
  BY <1>1, <1>2, <1>3 DEF TypeInv, TypeOK

LEMMA TypeStep == TypeInv /\ [Next]_vars => TypeInv'
<1>1. TypeInv /\ UNCHANGED vars => TypeInv'
  BY Untouched DEF TypeInv, TypeOK, vars
<1> QED
  BY <1>1, TypeStarts, TypeActor, TypeLoop, TypeBroker DEF Next, Terminated

LEMMA TypeInvariant == Spec => []TypeInv
BY TypeInit, TypeStep, PTL DEF Spec

\* Types and capacities hold in every reachable state: for every INBOX_CAP and
\* every REQUEST_CHANNEL_CAP neither channel exceeds its capacity, and the
\* disconnect inbox never receives a second DISCONNECT.
THEOREM TypeCorrect == Spec => []TypeOK
<1>1. TypeInv => TypeOK
  BY DEF TypeInv
<1> QED
  BY <1>1, TypeInvariant, PTL
-----------------------------------------------------------------------------
(* The waiter queues.                                                      *)

\* What the waiter queues are compared with.
call == <<pc, cmd, ncmds, rx>>

LEMMA WaitersUntouched == WaiterOwned /\ UNCHANGED <<call, waiters>> => WaiterOwned'
BY DEF WaiterOwned, Waits, call

\* Between commands the queues are empty.
LEMMA IdleMeansEmpty ==
    ASSUME WaiterOwned, \A k \in Acks : ~Waits(k)
    PROVE  \A k \in Acks : waiters[k] = <<>>
BY DEF WaiterOwned

LEMMA EmptyMeansOwned ==
    ASSUME \A k \in Acks : waiters'[k] = <<>>, \A k \in Acks : ~Waits(k)'
    PROVE  WaiterOwned'
BY DEF WaiterOwned

LEMMA WaiterStarts == TypeInv /\ WaiterOwned /\ (ActorStarts \/ Teardown) => WaiterOwned'
<1> SUFFICES ASSUME TypeInv, WaiterOwned, ActorStarts \/ Teardown PROVE WaiterOwned'
  OBVIOUS
<1> USE DEF Begin, Finish
<1>1. pc = "idle"
  BY DEF ActorStarts, NotImplemented, ConnectFails, ConnectSucceeds, RejectClientSide,
         StartAcked, StartUnacked, StartReceive, Teardown, TeardownDisconnected,
         TeardownConnected
<1>2. \A k \in Acks : waiters[k] = <<>>
  BY <1>1, IdleMeansEmpty DEF Waits
<1>3. CASE StartAcked
  <2>1. PICK c \in {"subscribe", "publish_1", "publish_2"} :
           Begin(c) /\ PushWaiter(AckOf(c))
    BY <1>3 DEF StartAcked
  <2>2. AckOf(c) \in Acks /\ Append(<<>>, ncmds + 1) = <<ncmds + 1>>
    BY DEF AckOf, Acks
  <2>3. \A k \in Acks : waiters'[k] = IF AckOf(c) = k THEN <<ncmds + 1>> ELSE <<>>
    BY <1>2, <2>1, <2>2 DEF PushWaiter, TypeInv, TypeOK, SharedOK
  <2>4. \A k \in Acks : Waits(k)' <=> AckOf(c) = k
    BY <1>3, <2>1 DEF StartAcked, Waits
  <2> QED
    BY <2>1, <2>3, <2>4 DEF WaiterOwned
<1>4. CASE ConnectSucceeds
  <2>1. \A k \in Acks : waiters'[k] = <<>>
    BY <1>4 DEF ConnectSucceeds, SpawnConnected, NoWaiters
  <2>2. \A k \in Acks : ~Waits(k)'
    BY <1>4 DEF ConnectSucceeds, Waits
  <2> QED
    BY <2>1, <2>2, EmptyMeansOwned
<1>5. CASE NotImplemented \/ ConnectFails \/ RejectClientSide \/ StartUnacked
           \/ StartReceive \/ Teardown
  <2>1. \A k \in Acks : waiters'[k] = <<>>
    BY <1>2, <1>5 DEF NotImplemented, ConnectFails, RejectClientSide, StartUnacked,
           StartReceive, Teardown, TeardownDisconnected, TeardownConnected, shared
  <2>2. \A k \in Acks : ~Waits(k)'
    BY <1>1, <1>5 DEF NotImplemented, ConnectFails, RejectClientSide, StartUnacked,
           StartReceive, Teardown, TeardownDisconnected, TeardownConnected, Waits, AckOf, Acks,
           NoAck
  <2> QED
    BY <2>1, <2>2, EmptyMeansOwned
<1> QED
  BY <1>3, <1>4, <1>5 DEF ActorStarts

LEMMA WaiterActor == TypeInv /\ WaiterOwned /\ ActorSteps => WaiterOwned'
<1> SUFFICES ASSUME TypeInv, WaiterOwned, ActorSteps PROVE WaiterOwned'
  OBVIOUS
<1> USE DEF Finish
<1>1. CASE SendAcked
  BY <1>1 DEF SendAcked, WaiterOwned, Waits
<1>2. CASE SendDisconnect \/ ReceiveDisconnect
  <2>1. \A k \in Acks : waiters'[k] = <<>>
    BY <1>2 DEF SendDisconnect, ReceiveDisconnect, DropConnected, NoWaiters
  <2>2. \A k \in Acks : ~Waits(k)'
    BY <1>2 DEF SendDisconnect, ReceiveDisconnect, Waits
  <2> QED
    BY <2>1, <2>2, EmptyMeansOwned
<1>3. CASE SendAckedFails
  <2>1. \A k \in Acks : k # AckOf(cmd) => waiters[k] = <<>>
    BY DEF WaiterOwned, Waits
  <2>2. waiters[AckOf(cmd)] \in {<<>>, <<ncmds>>} /\ Tail(<<ncmds>>) = <<>>
    BY <1>3 DEF SendAckedFails, WaiterOwned
  <2>3. \A k \in Acks : waiters'[k] = <<>>
    BY <1>3, <2>1, <2>2 DEF SendAckedFails, PopWaiter, TypeInv, TypeOK, SharedOK
  <2>4. \A k \in Acks : ~Waits(k)'
    BY <1>3 DEF SendAckedFails, Waits
  <2> QED
    BY <2>3, <2>4, EmptyMeansOwned
<1>4. CASE SendQos0 \/ SendQos0Fails \/ AwaitAck \/ ReceivePublish \/ ReceivePublishEmpty
           \/ ReceiveDisconnectTimeout
  <2>1. \A k \in Acks : ~Waits(k)
    BY <1>4 DEF SendQos0, SendQos0Fails, AwaitAck, ReceivePublish, ReceivePublishEmpty,
                ReceiveDisconnectTimeout, Waits, AckOf, Acks, NoAck
  <2>2. \A k \in Acks : ~Waits(k)'
    BY <1>4 DEF SendQos0, SendQos0Fails, AwaitAck, ReceivePublish, ReceivePublishEmpty,
                ReceiveDisconnectTimeout, Waits
  <2>3. waiters' = waiters
    BY <1>4 DEF SendQos0, SendQos0Fails, AwaitAck, ReceivePublish, ReceivePublishEmpty,
                ReceiveDisconnectTimeout, shared
  <2> QED
    BY <2>1, <2>2, <2>3, IdleMeansEmpty, EmptyMeansOwned
<1> QED
  BY <1>1, <1>2, <1>3, <1>4 DEF ActorSteps

LEMMA WaiterLoop == TypeInv /\ WaiterOwned /\ LoopSteps => WaiterOwned'
<1> SUFFICES ASSUME TypeInv, WaiterOwned, LoopSteps PROVE WaiterOwned'
  OBVIOUS
<1>1. CASE PollAck \/ PollNack
  <2>1. Head(wire).ack \in Acks
    BY <1>1, WireTail DEF PollAck, PollNack, TypeInv, TypeOK
  <2>2. PICK k \in Acks, v \in {"ok", "mqtt"} : WakeWaiter(k, v)
    BY <1>1, <2>1 DEF PollAck, PollNack
  <2>3. UNCHANGED <<pc, cmd, ncmds>>
    BY <1>1 DEF PollAck, PollNack
  <2>4. CASE waiters[k] = <<>>
    BY <2>2, <2>3, <2>4, WaitersUntouched DEF WakeWaiter, call
  <2>5. CASE waiters[k] # <<>>
    <3>1. Waits(k) /\ waiters[k] = <<ncmds>> /\ Head(<<ncmds>>) = ncmds /\ Tail(<<ncmds>>) = <<>>
      BY <2>5 DEF WaiterOwned
    <3>2. rx' = v /\ waiters' = [waiters EXCEPT ![k] = <<>>]
      BY <2>2, <2>5, <3>1 DEF WakeWaiter
    <3>3. \A q \in Acks : waiters'[q] = <<>>
      BY <3>1, <3>2 DEF WaiterOwned, Waits, TypeInv, TypeOK, SharedOK
    <3>4. \A q \in Acks : ~Waits(q)'
      BY <3>2 DEF Waits
    <3> QED
      BY <3>3, <3>4, EmptyMeansOwned
  <2> QED
    BY <2>4, <2>5
<1>2. ASSUME NEW at, NEW k \in Acks, NEW next, FailQueue(at, k, next)
      PROVE  WaiterOwned'
  <2>1. UNCHANGED <<pc, cmd, ncmds>> /\ waiters' = [waiters EXCEPT ![k] = <<>>]
    BY <1>2 DEF FailQueue
  <2>2. CASE Waits(k)
    <3>1. waiters[k] = <<ncmds>> /\ 1 \in DOMAIN <<ncmds>> /\ <<ncmds>>[1] = ncmds
      BY <2>2 DEF WaiterOwned
    <3>2. rx' = "network"
      BY <1>2, <3>1 DEF FailQueue
    <3>3. \A q \in Acks : waiters'[q] = <<>>
      BY <2>1, <2>2 DEF WaiterOwned, Waits, TypeInv, TypeOK, SharedOK
    <3> QED
      BY <3>2, <3>3, EmptyMeansOwned DEF Waits
  <2>3. CASE ~Waits(k)
    <3>1. waiters[k] = <<>> /\ DOMAIN (<<>>) = {}
      BY <2>3 DEF WaiterOwned
    <3>2. rx' = rx
      BY <1>2, <3>1 DEF FailQueue
    <3> QED
      BY <2>1, <3>1, <3>2 DEF WaiterOwned, Waits, TypeInv, TypeOK, SharedOK
  <2> QED
    BY <2>2, <2>3
<1>3. CASE PollRequest \/ PollPublish \/ DeliverPublish \/ PollPubRec \/ PollDisconnect
           \/ PollError \/ DropInboxes \/ DropEventLoop
  BY <1>3, WaitersUntouched DEF PollRequest, PollPublish, DeliverPublish, PollPubRec,
     PollDisconnect, PollError, DropInboxes, DropEventLoop, actor, shared, call
<1> QED
  BY <1>1, <1>2, <1>3 DEF LoopSteps, FailAll, Acks

LEMMA WaiterStep == TypeInv /\ WaiterOwned /\ [Next]_vars => WaiterOwned'
<1>1. WaiterOwned /\ (BrokerSteps \/ UNCHANGED vars) => WaiterOwned'
  BY WaitersUntouched DEF BrokerSteps, BrokerAnswers, BrokerAccepts, BrokerRejects,
     BrokerRejectsQos2, BrokerPublishes, BrokerDisconnects, LinkFails, vars, actor, shared, call
<1> QED
  BY <1>1, WaiterStarts, WaiterActor, WaiterLoop DEF Next, Terminated

\* No waiter leaks and none is foreign: in every reachable state the queues hold
\* the waiter of the command in progress, while it is unresolved, and nothing
\* else.  Popping the front of a queue therefore wakes the right caller.
THEOREM WaitersCorrect == Spec => []WaiterOwned
<1>1. Init => WaiterOwned
  BY DEF Init, NoWaiters, WaiterOwned, Waits
<1> QED
  BY <1>1, TypeInvariant, WaiterStep, PTL DEF Spec
-----------------------------------------------------------------------------
(* The session: which commands can be in progress in which mode.           *)

PcInv ==
    /\ pc # "idle" => mode = "Connected"
    /\ pc = "send" => AckOf(cmd) \in Acks \/ cmd \in {"publish_0", "disconnect", "teardown"}
    /\ pc = "recv" => cmd \in {"receive_publish", "receive_disconnect"}
    /\ pc = "await" => AckOf(cmd) \in Acks
    /\ pc \in {"send", "await"} /\ AckOf(cmd) \in Acks => rx # "none"

LoopInv == mode = "Disconnected" => loop = "none"

SessionInv == PcInv /\ LoopInv

LEMMA SessionUntouched ==
    /\ PcInv /\ UNCHANGED <<mode, pc, cmd, rx>> => PcInv'
    /\ LoopInv /\ UNCHANGED <<mode, loop>> => LoopInv'
BY DEF PcInv, LoopInv

LEMMA SessionStep == TypeInv /\ SessionInv /\ [Next]_vars => SessionInv'
<1> SUFFICES ASSUME TypeInv, SessionInv, [Next]_vars PROVE SessionInv'
  OBVIOUS
<1> USE DEF SessionInv, Begin, Finish
<1>1. CASE ActorStarts
  <2>1. CASE ConnectSucceeds
    BY <2>1 DEF ConnectSucceeds, SpawnConnected, PcInv, LoopInv
  <2>2. CASE NotImplemented \/ ConnectFails \/ RejectClientSide \/ StartUnacked \/ StartReceive
    BY <2>2 DEF NotImplemented, ConnectFails, RejectClientSide, StartUnacked, StartReceive,
                PcInv, LoopInv, task, AckOf, Acks, NoAck
  <2>3. CASE StartAcked
    BY <2>3 DEF StartAcked, PcInv, LoopInv, task, AckOf, Acks
  <2> QED
    BY <1>1, <2>1, <2>2, <2>3 DEF ActorStarts
<1>2. CASE Teardown
  BY <1>2 DEF Teardown, TeardownDisconnected, TeardownConnected, PcInv, LoopInv, task,
              AckOf, Acks, NoAck
<1>3. CASE ActorSteps
  <2>1. CASE SendAcked
    BY <2>1 DEF SendAcked, PcInv, LoopInv, task
  <2>2. CASE SendDisconnect \/ ReceiveDisconnect
    BY <2>2 DEF SendDisconnect, ReceiveDisconnect, DropConnected, PcInv, LoopInv
  <2>3. CASE SendQos0 \/ SendAckedFails \/ SendQos0Fails \/ AwaitAck \/ ReceivePublish
             \/ ReceivePublishEmpty \/ ReceiveDisconnectTimeout
    BY <2>3 DEF SendQos0, SendAckedFails, SendQos0Fails, AwaitAck, ReceivePublish,
                ReceivePublishEmpty, ReceiveDisconnectTimeout, PcInv, LoopInv, task
  <2> QED
    BY <1>3, <2>1, <2>2, <2>3 DEF ActorSteps
<1>4. CASE LoopSteps
  <2>1. loop # "none" /\ UNCHANGED <<mode, pc, cmd>> /\ (rx' = rx \/ rx' # "none")
    BY <1>4 DEF LoopSteps, PollRequest, PollPublish, DeliverPublish, PollAck, PollNack,
         PollPubRec, PollDisconnect, PollError, FailAll, FailQueue, DropInboxes,
         DropEventLoop, PollPacket, WakeWaiter, actor
  <2> QED
    BY <2>1 DEF PcInv, LoopInv, TypeInv, TypeOK, ActorOK
<1>5. CASE BrokerSteps \/ UNCHANGED vars
  BY <1>5, SessionUntouched DEF BrokerSteps, BrokerAnswers, BrokerAccepts, BrokerRejects,
     BrokerRejectsQos2, BrokerPublishes, BrokerDisconnects, LinkFails, vars, actor, task
<1> QED
  BY <1>1, <1>2, <1>3, <1>4, <1>5 DEF Next, Terminated

LEMMA SessionInvariant == Spec => []SessionInv
<1>1. Init => SessionInv
  BY DEF Init, SessionInv, PcInv, LoopInv
<1> QED
  BY <1>1, TypeInvariant, SessionStep, PTL DEF Spec

-----------------------------------------------------------------------------
(* The disconnect reason.                                                  *)

ReasonInv ==
    /\ sawDisc /\ mode = "Connected" => disc # <<>>
    /\ pc = "idle" /\ cmd = "receive_disconnect" /\ outcome = "network" =>
          mode = "Disconnected" /\ ~sawDisc

LEMMA ReasonStep == TypeInv /\ SessionInv /\ ReasonInv /\ [Next]_vars => ReasonInv'
<1> SUFFICES ASSUME TypeInv, SessionInv, ReasonInv, [Next]_vars PROVE ReasonInv'
  OBVIOUS
<1> USE DEF SessionInv, Begin, Finish
<1>1. CASE ActorStarts
  <2>1. CASE ConnectSucceeds
    BY <2>1 DEF ConnectSucceeds, SpawnConnected, ReasonInv
  <2>2. CASE NotImplemented \/ ConnectFails \/ RejectClientSide \/ StartUnacked \/ StartReceive
             \/ StartAcked
    BY <2>2 DEF NotImplemented, ConnectFails, RejectClientSide, StartUnacked, StartReceive,
                StartAcked, ReasonInv, shared, history
  <2> QED
    BY <1>1, <2>1, <2>2 DEF ActorStarts
<1>2. CASE Teardown
  BY <1>2 DEF Teardown, TeardownDisconnected, TeardownConnected, ReasonInv, shared, history
<1>3. CASE ActorSteps
  <2>1. CASE ReceiveDisconnect
    BY <2>1 DEF ReceiveDisconnect, DropConnected, ReasonInv, PcInv, history
  <2>2. CASE SendDisconnect
    BY <2>2 DEF SendDisconnect, DropConnected, ReasonInv, history
  <2>3. CASE SendAcked \/ SendQos0 \/ SendAckedFails \/ SendQos0Fails \/ AwaitAck
             \/ ReceivePublish \/ ReceivePublishEmpty \/ ReceiveDisconnectTimeout
    BY <2>3 DEF SendAcked, SendQos0, SendAckedFails, SendQos0Fails, AwaitAck, ReceivePublish,
                ReceivePublishEmpty, ReceiveDisconnectTimeout, ReasonInv, PcInv, shared,
                history, AckOf, Acks, NoAck
  <2> QED
    BY <1>3, <2>1, <2>2, <2>3 DEF ActorSteps
<1>4. CASE PollDisconnect
  <2>1. mode = "Connected" /\ disc' # <<>>
    BY <1>4 DEF PollDisconnect, PollPacket, LoopInv, TypeInv, TypeOK, ActorOK, SharedOK
  <2> QED
    BY <1>4, <2>1 DEF PollDisconnect, ReasonInv, actor
<1>5. CASE LoopSteps /\ ~PollDisconnect
  <2>1. UNCHANGED <<mode, pc, cmd, outcome, disc, sawDisc>>
    BY <1>5 DEF LoopSteps, PollRequest, PollPublish, DeliverPublish, PollAck, PollNack,
         PollPubRec, PollError, FailAll, FailQueue, DropInboxes, DropEventLoop,
         actor, shared, history
  <2> QED
    BY <2>1 DEF ReasonInv
<1>6. CASE BrokerSteps \/ UNCHANGED vars
  <2>1. UNCHANGED <<mode, pc, cmd, outcome, disc, sawDisc>>
    BY <1>6 DEF BrokerSteps, BrokerAnswers, BrokerAccepts, BrokerRejects,
       BrokerRejectsQos2, BrokerPublishes, BrokerDisconnects, LinkFails, vars, actor,
       shared, history
  <2> QED
    BY <2>1 DEF ReasonInv
<1> QED
  BY <1>1, <1>2, <1>3, <1>4, <1>5, <1>6 DEF Next, Terminated

\* receive_disconnect never reports connection_lost for a session whose loop has
\* read the broker's DISCONNECT, however the two tasks interleave.
THEOREM DisconnectReasonCorrect == Spec => []DisconnectReasonKept
<1>1. Init => ReasonInv
  BY DEF Init, ReasonInv
<1>2. ReasonInv => DisconnectReasonKept
  BY DEF ReasonInv, DisconnectReasonKept
<1> QED
  BY <1>1, <1>2, TypeInvariant, SessionInvariant, ReasonStep, PTL DEF Spec
-----------------------------------------------------------------------------
(* Where an acknowledgement can come from.                                 *)

NothingToAck == AckRequests = {} /\ unacked = {} /\ AckPackets = {}

\* While the loop reads, a waiter cannot be resolved before its request is sent.
UnsentPending == LoopReads /\ pc = "send" /\ AckOf(cmd) \in Acks => rx = "pending"

AckInv == NoStaleAck /\ UnsentPending

\* A command that does not await an unresolved waiter has nothing in flight.
LEMMA NothingInFlight ==
    ASSUME NoStaleAck, LoopReads, pc # "await" \/ rx # "pending"
    PROVE  NothingToAck
BY DEF NoStaleAck, OwnedAck, NothingToAck

LEMMA NothingIsStale == NothingToAck' => NoStaleAck'
BY DEF NoStaleAck, NothingToAck

LEMMA NothingUntouched ==
    NothingToAck /\ UNCHANGED <<requests, unacked, wire>> => NothingToAck'
BY DEF NothingToAck, AckRequests, AckPackets

LEMMA AckUntouched ==
    ASSUME AckInv, UNCHANGED <<pc, cmd, ncmds, rx, requests, unacked, wire>>, LoopReads' => LoopReads
    PROVE  AckInv'
<1>1. AckRequests' = AckRequests /\ AckPackets' = AckPackets
  BY DEF AckRequests, AckPackets
<1>2. UnsentPending'
  BY DEF AckInv, UnsentPending
<1>3. NoStaleAck'
  BY <1>1 DEF AckInv, NoStaleAck, OwnedAck
<1> QED
  BY <1>2, <1>3 DEF AckInv

\* Removing packets from either end of the wire leaves a subset of the acks.
LEMMA WireShrinks ==
    ASSUME NetworkOK,
           \/ wire # <<>> /\ wire' = Tail(wire)
           \/ \E n \in 0..Len(wire) : wire' = SubSeq(wire, 1, n)
    PROVE  \E d \in {0, 1} : \A i \in AckPackets' :
              i \in Nat /\ i + d \in AckPackets /\ wire'[i] = wire[i + d]
<1>1. CASE wire # <<>> /\ wire' = Tail(wire)
  <2>1. \A i \in DOMAIN wire' : i \in Nat /\ i + 1 \in DOMAIN wire /\ wire'[i] = wire[i + 1]
    BY <1>1 DEF NetworkOK
  <2> QED
    BY <2>1 DEF AckPackets
<1>2. CASE \E n \in 0..Len(wire) : wire' = SubSeq(wire, 1, n)
  <2>1. \A i \in DOMAIN wire' : i \in Nat /\ i + 0 \in DOMAIN wire /\ wire'[i] = wire[i + 0]
    BY <1>2 DEF NetworkOK
  <2> QED
    BY <2>1 DEF AckPackets
<1> QED
  BY <1>1, <1>2

\* Such a step keeps the invariant when it changes nothing else.
LEMMA AckShrinks ==
    ASSUME AckInv, NetworkOK, UNCHANGED <<pc, cmd, ncmds, rx, requests, unacked>>,
           LoopReads' => LoopReads,
           \/ wire # <<>> /\ wire' = Tail(wire)
           \/ \E n \in 0..Len(wire) : wire' = SubSeq(wire, 1, n)
    PROVE  AckInv'
<1>1. PICK d \in {0, 1} : \A i \in AckPackets' :
         i \in Nat /\ i + d \in AckPackets /\ wire'[i] = wire[i + d]
  BY WireShrinks
<1>2. UnsentPending'
  BY DEF AckInv, UnsentPending
<1>3. SUFFICES ASSUME LoopReads' PROVE NoStaleAck'
  BY <1>2 DEF AckInv, NoStaleAck
<1>4. NoStaleAck /\ LoopReads
  BY <1>3 DEF AckInv
<1>5. AckRequests' = AckRequests
  BY DEF AckRequests
<1>6. \A i \in AckPackets' : OwnedAck(wire[i])'
  BY <1>1, <1>4 DEF NoStaleAck, OwnedAck
<1>7. \A i, j \in AckPackets' : i = j
  <2> SUFFICES ASSUME NEW i \in AckPackets', NEW j \in AckPackets' PROVE i = j
    OBVIOUS
  <2>1. i \in Nat /\ j \in Nat /\ i + d \in AckPackets /\ j + d \in AckPackets
    BY <1>1
  <2>2. i + d = j + d
    BY <1>4, <2>1 DEF NoStaleAck
  <2> QED
    BY <2>1, <2>2
<1>8. AckPackets = {} => AckPackets' = {}
  BY <1>1
<1>9. (\A i \in AckRequests : OwnedAck(requests[i]))' /\ (\A r \in unacked : OwnedAck(r))'
  BY <1>4, <1>5 DEF NoStaleAck, OwnedAck
<1> QED
  BY <1>4, <1>5, <1>6, <1>7, <1>8, <1>9 DEF NoStaleAck
LEMMA AckStarts == TypeInv /\ AckInv /\ (ActorStarts \/ Teardown) => AckInv'
<1> SUFFICES ASSUME TypeInv, AckInv, ActorStarts \/ Teardown PROVE AckInv'
  OBVIOUS
<1> USE DEF Begin, Finish
<1>1. CASE ConnectSucceeds
  <2>1. NothingToAck'
    BY <1>1 DEF ConnectSucceeds, SpawnConnected, NothingToAck, AckRequests, AckPackets
  <2>2. UnsentPending'
    BY <1>1 DEF ConnectSucceeds, UnsentPending
  <2> QED
    BY <2>1, <2>2, NothingIsStale DEF AckInv
<1>2. CASE ~ConnectSucceeds
  <2>1. pc = "idle" /\ UNCHANGED <<requests, unacked, wire, loop>>
    BY <1>2 DEF ActorStarts, NotImplemented, ConnectFails, RejectClientSide, StartAcked,
         StartUnacked, StartReceive, Teardown, TeardownDisconnected, TeardownConnected,
         shared, task, network
  <2>2. UnsentPending'
    BY <1>2 DEF ActorStarts, NotImplemented, ConnectFails, RejectClientSide, StartAcked,
         StartUnacked, StartReceive, Teardown, TeardownDisconnected, TeardownConnected,
         UnsentPending, AckOf, Acks, NoAck
  <2>3. LoopReads' => NothingToAck'
    BY <2>1, NothingInFlight, NothingUntouched DEF AckInv, LoopReads
  <2> QED
    BY <2>2, <2>3, NothingIsStale DEF AckInv, NoStaleAck
<1> QED
  BY <1>1, <1>2

LEMMA AckActor == TypeInv /\ AckInv /\ ActorSteps => AckInv'
<1> SUFFICES ASSUME TypeInv, AckInv, ActorSteps PROVE AckInv'
  OBVIOUS
<1> USE DEF Finish
<1>1. CASE SendAcked
  <2>1. UnsentPending'
    BY <1>1 DEF SendAcked, UnsentPending
  <2>2. SUFFICES ASSUME LoopReads' PROVE NoStaleAck'
    BY <2>1 DEF AckInv, NoStaleAck
  <2>3. LoopReads /\ rx = "pending" /\ NothingToAck
    BY <1>1, <2>2, NothingInFlight DEF SendAcked, AckInv, UnsentPending, LoopReads, task
  <2>4. AckRequests' = {Len(requests) + 1}
    BY <1>1, <2>3 DEF SendAcked, Request, NothingToAck, AckRequests, TypeInv, TypeOK, SharedOK
  <2>5. (OwnedAck(requests[Len(requests)]))'
    BY <1>1, <2>3 DEF SendAcked, Request, OwnedAck, TypeInv, TypeOK, SharedOK
  <2>6. Len(requests)' = Len(requests) + 1
    BY <1>1 DEF SendAcked, TypeInv, TypeOK, SharedOK
  <2>7. unacked' = {} /\ AckPackets' = {}
    BY <1>1, <2>3 DEF SendAcked, network, NothingToAck, AckPackets
  <2> QED
    BY <2>4, <2>5, <2>6, <2>7 DEF NoStaleAck
<1>2. CASE SendDisconnect \/ ReceiveDisconnect
  BY <1>2 DEF SendDisconnect, ReceiveDisconnect, DropConnected, AckInv, NoStaleAck,
              UnsentPending, LoopReads
<1>3. CASE SendQos0
  <2>1. LoopReads => NothingToAck
    BY <1>3, NothingInFlight DEF SendQos0, AckInv
  <2>2. AckRequests' = AckRequests
    BY <1>3 DEF SendQos0, Request, NoAck, Acks, AckRequests, TypeInv, TypeOK, SharedOK
  <2>3. LoopReads' => NothingToAck'
    BY <1>3, <2>1, <2>2 DEF SendQos0, network, task, LoopReads, NothingToAck, AckPackets
  <2> QED
    BY <1>3, <2>3, NothingIsStale DEF SendQos0, AckInv, NoStaleAck, UnsentPending
<1>4. CASE SendAckedFails \/ SendQos0Fails \/ AwaitAck \/ ReceivePublish
           \/ ReceivePublishEmpty \/ ReceiveDisconnectTimeout
  <2>1. /\ pc # "await" \/ rx # "pending"
        /\ pc' = "idle"
        /\ UNCHANGED <<requests, unacked, wire, loop>>
    BY <1>4 DEF SendAckedFails, SendQos0Fails, AwaitAck, ReceivePublish,
         ReceivePublishEmpty, ReceiveDisconnectTimeout, shared, task, network
  <2>2. LoopReads' => NothingToAck'
    BY <2>1, NothingInFlight, NothingUntouched DEF AckInv, LoopReads
  <2> QED
    BY <2>1, <2>2, NothingIsStale DEF AckInv, NoStaleAck, UnsentPending
<1> QED
  BY <1>1, <1>2, <1>3, <1>4 DEF ActorSteps

LEMMA AckLoop == TypeInv /\ AckInv /\ LoopSteps => AckInv'
<1> SUFFICES ASSUME TypeInv, AckInv, LoopSteps PROVE AckInv'
  OBVIOUS
<1>1. CASE PollRequest
  <2>1. UnsentPending'
    BY <1>1 DEF PollRequest, actor, task, AckInv, UnsentPending, LoopReads
  <2>2. LoopReads /\ NoStaleAck
    BY <1>1 DEF PollRequest, LoopReads, AckInv
  <2>3. /\ 1 \in DOMAIN requests /\ requests[1] = Head(requests)
        /\ \A i \in DOMAIN Tail(requests) :
              i \in Nat \ {0} /\ i + 1 \in DOMAIN requests /\ Tail(requests)[i] = requests[i + 1]
    BY <1>1 DEF PollRequest, TypeInv, TypeOK, SharedOK
  <2>4. AckPackets' = AckPackets /\ UNCHANGED <<pc, cmd, ncmds, rx, wire>>
    BY <1>1 DEF PollRequest, actor, AckPackets
  <2>5. \A i \in AckRequests' : i \in Nat \ {0} /\ i + 1 \in AckRequests /\ requests'[i] = requests[i + 1]
    BY <1>1, <2>3 DEF PollRequest, AckRequests
  <2>6. CASE Head(requests).ack \in Acks
    <3>1. 1 \in AckRequests /\ OwnedAck(Head(requests)) /\ unacked = {} /\ AckPackets = {}
      BY <2>2, <2>3, <2>6 DEF NoStaleAck, AckRequests
    <3>2. AckRequests' = {}
      BY <2>2, <2>5, <3>1 DEF NoStaleAck
    <3>3. \A r \in unacked' : r = Head(requests)
      BY <1>1, <3>1 DEF PollRequest
    <3>4. (\A r \in unacked : OwnedAck(r))'
      BY <2>4, <3>1, <3>3 DEF OwnedAck
    <3> QED
      BY <2>1, <2>4, <3>1, <3>2, <3>4 DEF AckInv, NoStaleAck
  <2>7. CASE Head(requests).ack \notin Acks
    <3>1. unacked' = unacked
      BY <1>1, <2>7 DEF PollRequest
    <3>2. (\A i \in AckRequests : OwnedAck(requests[i]))'
      BY <2>2, <2>4, <2>5 DEF NoStaleAck, OwnedAck
    <3>3. \A i, j \in AckRequests' : i = j
      BY <2>2, <2>5 DEF NoStaleAck
    <3>4. AckRequests' # {} => AckRequests # {}
      BY <2>5
    <3>5. (\A r \in unacked : OwnedAck(r))' /\ (\A i \in AckPackets : OwnedAck(wire[i]))'
      BY <2>2, <2>4, <3>1 DEF NoStaleAck, OwnedAck
    <3> QED
      BY <2>1, <2>2, <2>4, <3>1, <3>2, <3>3, <3>4, <3>5 DEF AckInv, NoStaleAck
  <2> QED
    BY <2>6, <2>7
<1>2. CASE PollPublish \/ PollPubRec
  BY <1>2, AckShrinks DEF PollPublish, PollPubRec, PollPacket, actor, shared, LoopReads,
                          TypeInv, TypeOK
<1>3. CASE PollAck \/ PollNack
  <2>1. LoopReads /\ NoStaleAck /\ UNCHANGED <<requests, unacked, pc, cmd, ncmds, loop>>
    BY <1>3 DEF PollAck, PollNack, PollPacket, LoopReads, AckInv, task
  <2>2. wire # <<>> /\ 1 \in AckPackets /\ wire' = Tail(wire)
    BY <1>3 DEF PollAck, PollNack, PollPacket, AckPackets, TypeInv, TypeOK, NetworkOK
  <2>3. \A i \in AckPackets' : i \in Nat \ {0} /\ i + 1 \in AckPackets
    <3>1. \A i \in DOMAIN Tail(wire) :
             i \in Nat \ {0} /\ i + 1 \in DOMAIN wire /\ Tail(wire)[i] = wire[i + 1]
      BY <2>2 DEF TypeInv, TypeOK, NetworkOK
    <3> QED
      BY <2>2, <3>1 DEF AckPackets
  <2>4. AckPackets' = {}
    BY <2>1, <2>2, <2>3 DEF NoStaleAck
  <2>5. AckRequests = {} /\ unacked = {} /\ pc = "await"
    BY <2>1, <2>2 DEF NoStaleAck, OwnedAck
  <2>6. NothingToAck'
    BY <2>1, <2>4, <2>5 DEF NothingToAck, AckRequests
  <2> QED
    BY <2>1, <2>5, <2>6, NothingIsStale DEF AckInv, UnsentPending
<1>4. CASE DeliverPublish
  BY <1>4, AckUntouched DEF DeliverPublish, actor, network, LoopReads
<1>5. CASE PollDisconnect \/ PollError \/ FailAll \/ DropInboxes \/ DropEventLoop
  BY <1>5 DEF PollDisconnect, PollError, FailAll, FailQueue, DropInboxes, DropEventLoop,
              AckInv, NoStaleAck, UnsentPending, LoopReads
<1> QED
  BY <1>1, <1>2, <1>3, <1>4, <1>5 DEF LoopSteps

LEMMA AckBroker == TypeInv /\ AckInv /\ BrokerSteps => AckInv'
<1> SUFFICES ASSUME TypeInv, AckInv, BrokerSteps PROVE AckInv'
  OBVIOUS
<1> USE DEF actor, shared, task
<1>1. CASE BrokerAnswers
  <2>1. PICK r \in unacked, t \in {"ack", "nack", "pubrec"} :
           unacked' = unacked \ {r} /\ wire' = Append(wire, Packet(t, r.ack, r.id))
    BY <1>1 DEF BrokerAnswers, BrokerAccepts, BrokerRejects, BrokerRejectsQos2
  <2>2. UNCHANGED <<pc, cmd, ncmds, rx, requests, loop>>
    BY <1>1 DEF BrokerAnswers, BrokerAccepts, BrokerRejects, BrokerRejectsQos2
  <2>3. UnsentPending'
    BY <2>2 DEF AckInv, UnsentPending, LoopReads
  <2>4. SUFFICES ASSUME LoopReads' PROVE NoStaleAck'
    BY <2>3 DEF AckInv, NoStaleAck
  <2>5. LoopReads /\ NoStaleAck
    BY <2>2, <2>4 DEF LoopReads, AckInv
  <2>6. OwnedAck(r) /\ AckRequests = {} /\ AckPackets = {}
    BY <2>1, <2>5 DEF NoStaleAck
  <2>7. unacked' = {}
    <3>1. \A s \in unacked : s = r
      <4> SUFFICES ASSUME NEW s \in unacked PROVE s = r
        OBVIOUS
      <4>1. s \in [ack : Acks, id : Nat] /\ r \in [ack : Acks, id : Nat]
        BY DEF TypeInv, TypeOK, NetworkOK
      <4>2. s.ack = r.ack /\ s.id = r.id
        BY <2>5 DEF NoStaleAck, OwnedAck
      <4> QED
        BY <4>1, <4>2
    <3> QED
      BY <2>1, <3>1
  <2>8. AckRequests' = {}
    BY <2>2, <2>6 DEF AckRequests
  <2>9. \A i \in AckPackets' : i = Len(wire) + 1 /\ wire'[i] = Packet(t, r.ack, r.id)
    BY <2>1, <2>6 DEF AckPackets, TypeInv, TypeOK, NetworkOK
  <2>10. (\A i \in AckPackets : OwnedAck(wire[i]))'
    BY <2>2, <2>6, <2>9 DEF OwnedAck, Packet
  <2> QED
    BY <2>7, <2>8, <2>9, <2>10 DEF NoStaleAck
<1>2. CASE BrokerPublishes \/ BrokerDisconnects
  <2>1. UNCHANGED <<pc, cmd, ncmds, rx, requests, unacked, loop>>
    BY <1>2 DEF BrokerPublishes, BrokerDisconnects
  <2>2. PICK t \in {"publish", "disconnect"}, n \in {0, npubs + 1} :
           wire' = Append(wire, Packet(t, NoAck, n))
    BY <1>2 DEF BrokerPublishes, BrokerDisconnects
  <2>3. AckPackets' = AckPackets /\ \A i \in AckPackets : wire'[i] = wire[i]
    BY <2>2 DEF AckPackets, Packet, TypeInv, TypeOK, NetworkOK
  <2>4. AckRequests' = AckRequests /\ (LoopReads' <=> LoopReads)
    BY <2>1 DEF AckRequests, LoopReads
  <2> QED
    BY <2>1, <2>3, <2>4 DEF AckInv, NoStaleAck, UnsentPending, OwnedAck
<1>3. CASE LinkFails
  BY <1>3, AckShrinks DEF LinkFails, LoopReads, TypeInv, TypeOK
<1> QED
  BY <1>1, <1>2, <1>3 DEF BrokerSteps

LEMMA AckStep == TypeInv /\ AckInv /\ [Next]_vars => AckInv'
<1>1. AckInv /\ UNCHANGED vars => AckInv'
  BY AckUntouched DEF vars, actor, shared, network, task, LoopReads
<1> QED
  BY <1>1, AckStarts, AckActor, AckLoop, AckBroker DEF Next, Terminated

LEMMA AckInvariant == Spec => []AckInv
<1>1. Init => AckInv
  BY DEF Init, AckInv, NoStaleAck, UnsentPending, LoopReads
<1> QED
  BY <1>1, TypeInvariant, AckStep, PTL DEF Spec

\* While the loop reads, every acknowledgement that is on its way, or can still
\* come, is the one of the command that awaits it.
THEOREM NoStaleAckCorrect == Spec => []NoStaleAck
<1>1. AckInv => NoStaleAck
  BY DEF AckInv
<1> QED
  BY <1>1, AckInvariant, PTL
-----------------------------------------------------------------------------
(* The broker's verdict.                                                   *)

WireVerdicts ==
    \A i \in DOMAIN wire :
        /\ wire[i].type = "ack" => wire[i].id \in accepted
        /\ wire[i].type = "nack" => wire[i].id \in rejected

RxVerdict ==
    pc \in {"send", "await"} /\ AckOf(cmd) \in Acks =>
        /\ rx = "ok" => ncmds \in accepted
        /\ rx = "mqtt" => ncmds \in rejected

VerdictInv == WireVerdicts /\ RxVerdict /\ VerdictIsBrokers

\* The wire only loses packets and no verdict is withdrawn.
LEMMA WireVerdictsKept ==
    ASSUME NetworkOK, WireVerdicts, UNCHANGED <<accepted, rejected>>,
           \/ wire' \in {wire, <<>>}
           \/ wire # <<>> /\ wire' = Tail(wire)
           \/ \E n \in 0..Len(wire) : wire' = SubSeq(wire, 1, n)
    PROVE  WireVerdicts'
<1>1. CASE wire' \in {wire, <<>>}
  BY <1>1 DEF WireVerdicts
<1>2. CASE wire # <<>> /\ wire' = Tail(wire)
  <2>1. \A i \in DOMAIN wire' : i + 1 \in DOMAIN wire /\ wire'[i] = wire[i + 1]
    BY <1>2 DEF NetworkOK
  <2> QED
    BY <2>1 DEF WireVerdicts
<1>3. CASE \E n \in 0..Len(wire) : wire' = SubSeq(wire, 1, n)
  <2>1. \A i \in DOMAIN wire' : i \in DOMAIN wire /\ wire'[i] = wire[i]
    BY <1>3 DEF NetworkOK
  <2> QED
    BY <2>1 DEF WireVerdicts
<1> QED
  BY <1>1, <1>2, <1>3

LEMMA VerdictActor ==
    TypeInv /\ SessionInv /\ VerdictInv /\ (ActorStarts \/ Teardown \/ ActorSteps) => VerdictInv'
<1> SUFFICES ASSUME TypeInv, SessionInv, VerdictInv, ActorStarts \/ Teardown \/ ActorSteps
             PROVE  VerdictInv'
  OBVIOUS
<1> USE DEF Begin, Finish
<1>1. UNCHANGED <<accepted, rejected>> /\ wire' \in {wire, <<>>}
  BY DEF ActorStarts, NotImplemented, ConnectFails, ConnectSucceeds, SpawnConnected,
     RejectClientSide, StartAcked, StartUnacked, StartReceive, Teardown,
     TeardownDisconnected, TeardownConnected, ActorSteps, SendAcked, SendQos0,
     SendDisconnect, DropConnected, SendAckedFails, SendQos0Fails, AwaitAck,
     ReceivePublish, ReceivePublishEmpty, ReceiveDisconnect, ReceiveDisconnectTimeout,
     history, network
<1>2. WireVerdicts'
  BY <1>1, WireVerdictsKept DEF VerdictInv, TypeInv, TypeOK
<1>3. RxVerdict' /\ VerdictIsBrokers'
  <2>1. CASE ActorStarts
    BY <1>1, <2>1 DEF ActorStarts, NotImplemented, ConnectFails, ConnectSucceeds,
       RejectClientSide, StartAcked, StartUnacked, StartReceive, RxVerdict,
       VerdictIsBrokers, AckOf, Acks, NoAck
  <2>2. CASE Teardown
    BY <1>1, <2>2 DEF Teardown, TeardownDisconnected, TeardownConnected, RxVerdict,
       VerdictIsBrokers, AckOf, Acks, NoAck
  <2>3. CASE SendAcked
    BY <1>1, <2>3 DEF SendAcked, VerdictInv, RxVerdict, VerdictIsBrokers
  <2>4. CASE AwaitAck
    BY <1>1, <2>4 DEF AwaitAck, VerdictInv, RxVerdict, VerdictIsBrokers
  <2>5. CASE SendQos0 \/ SendDisconnect \/ SendAckedFails \/ SendQos0Fails \/ ReceivePublish
             \/ ReceivePublishEmpty \/ ReceiveDisconnect \/ ReceiveDisconnectTimeout
    BY <1>1, <2>5 DEF SendQos0, SendDisconnect, SendAckedFails, SendQos0Fails,
       ReceivePublish, ReceivePublishEmpty, ReceiveDisconnect, ReceiveDisconnectTimeout,
       RxVerdict, VerdictIsBrokers, AckOf, Acks, NoAck
  <2> QED
    BY <2>1, <2>2, <2>3, <2>4, <2>5 DEF ActorSteps
<1> QED
  BY <1>2, <1>3 DEF VerdictInv

LEMMA VerdictLoop == TypeInv /\ AckInv /\ VerdictInv /\ LoopSteps => VerdictInv'
<1> SUFFICES ASSUME TypeInv, AckInv, VerdictInv, LoopSteps PROVE VerdictInv'
  OBVIOUS
<1>1. UNCHANGED <<pc, cmd, ncmds, outcome, accepted, rejected>>
  BY DEF LoopSteps, PollRequest, PollPublish, DeliverPublish, PollAck, PollNack, PollPubRec,
     PollDisconnect, PollError, FailAll, FailQueue, DropInboxes, DropEventLoop, actor, history
<1>2. wire' = wire \/ (wire # <<>> /\ wire' = Tail(wire))
  BY DEF LoopSteps, PollRequest, PollPublish, DeliverPublish, PollAck, PollNack, PollPubRec,
     PollDisconnect, PollError, FailAll, FailQueue, DropInboxes, DropEventLoop, PollPacket,
     network
<1>3. WireVerdicts'
  BY <1>1, <1>2, WireVerdictsKept DEF VerdictInv, TypeInv, TypeOK
<1>4. VerdictIsBrokers'
  BY <1>1 DEF VerdictInv, VerdictIsBrokers
<1>5. CASE PollAck \/ PollNack
  <2>1. 1 \in AckPackets /\ 1 \in DOMAIN wire /\ wire[1] = Head(wire)
    BY <1>5 DEF PollAck, PollNack, PollPacket, AckPackets, TypeInv, TypeOK, NetworkOK
  <2>2. Head(wire).id = ncmds
    BY <1>5, <2>1 DEF PollAck, PollNack, PollPacket, AckInv, NoStaleAck, LoopReads, OwnedAck
  <2>3. ASSUME PollAck PROVE RxVerdict'
    BY <1>1, <2>1, <2>2, <2>3
       DEF PollAck, PollPacket, WakeWaiter, VerdictInv, WireVerdicts, RxVerdict
  <2>4. ASSUME PollNack PROVE RxVerdict'
    BY <1>1, <2>1, <2>2, <2>4
       DEF PollNack, PollPacket, WakeWaiter, VerdictInv, WireVerdicts, RxVerdict
  <2>5. RxVerdict'
    BY <1>5, <2>3, <2>4 DEF VerdictInv
  <2> QED
    BY <1>3, <1>4, <2>5 DEF VerdictInv
<1>6. CASE ~PollAck /\ ~PollNack
  <2>1. rx' \in {rx, "network"}
    BY <1>6 DEF LoopSteps, PollRequest, PollPublish, DeliverPublish, PollPubRec,
       PollDisconnect, PollError, FailAll, FailQueue, DropInboxes, DropEventLoop, actor
  <2> QED
    BY <1>1, <1>3, <1>4, <2>1 DEF VerdictInv, RxVerdict
<1> QED
  BY <1>5, <1>6

LEMMA VerdictBroker == TypeInv /\ VerdictInv /\ BrokerSteps => VerdictInv'
<1> SUFFICES ASSUME TypeInv, VerdictInv, BrokerSteps PROVE VerdictInv'
  OBVIOUS
<1>1. /\ UNCHANGED <<pc, cmd, ncmds, rx, outcome>>
      /\ accepted \subseteq accepted' /\ rejected \subseteq rejected'
  BY DEF BrokerSteps, BrokerAnswers, BrokerAccepts, BrokerRejects, BrokerRejectsQos2,
     BrokerPublishes, BrokerDisconnects, LinkFails, actor, history
<1>2. RxVerdict' /\ VerdictIsBrokers'
  BY <1>1 DEF VerdictInv, RxVerdict, VerdictIsBrokers
<1>3. ASSUME NEW p, wire' = Append(wire, p),
             p.type = "ack" => p.id \in accepted', p.type = "nack" => p.id \in rejected'
      PROVE  WireVerdicts'
  <2>1. \A i \in DOMAIN wire' : (i \in DOMAIN wire /\ wire'[i] = wire[i]) \/ wire'[i] = p
    BY <1>3 DEF TypeInv, TypeOK, NetworkOK
  <2> QED
    BY <1>1, <1>3, <2>1 DEF VerdictInv, WireVerdicts
<1>4. ASSUME BrokerAnswers PROVE WireVerdicts'
  BY <1>3, <1>4 DEF BrokerAnswers, BrokerAccepts, BrokerRejects, BrokerRejectsQos2, Packet
<1>5. ASSUME BrokerPublishes \/ BrokerDisconnects PROVE WireVerdicts'
  BY <1>3, <1>5 DEF BrokerPublishes, BrokerDisconnects, Packet
<1>6. ASSUME LinkFails PROVE WireVerdicts'
  BY <1>6, WireVerdictsKept DEF LinkFails, history, VerdictInv, TypeInv, TypeOK
<1> QED
  BY <1>2, <1>4, <1>5, <1>6 DEF BrokerSteps, VerdictInv

LEMMA VerdictStep ==
    TypeInv /\ SessionInv /\ AckInv /\ VerdictInv /\ [Next]_vars => VerdictInv'
<1>1. VerdictInv /\ UNCHANGED vars => VerdictInv'
  BY DEF VerdictInv, WireVerdicts, RxVerdict, VerdictIsBrokers, vars, actor, network, history
<1> QED
  BY <1>1, VerdictActor, VerdictLoop, VerdictBroker DEF Next, Terminated

\* A command that awaits an acknowledgement reports `ok` only if the broker
\* accepted that very command, and a broker error only if it refused it.
THEOREM VerdictCorrect == Spec => []VerdictIsBrokers
<1>1. Init => VerdictInv
  BY DEF Init, VerdictInv, WireVerdicts, RxVerdict, VerdictIsBrokers, AckOf, Acks, NoAck
<1>2. VerdictInv => VerdictIsBrokers
  BY DEF VerdictInv
<1> QED
  BY <1>1, <1>2, TypeInvariant, SessionInvariant, AckInvariant, VerdictStep, PTL DEF Spec
-----------------------------------------------------------------------------
(* The order of publishes.                                                 *)

\* Every nonempty set of numbers has a smallest one.
LEMMA Smallest ==
    ASSUME NEW T \in SUBSET Nat, T # {}
    PROVE  \E x \in T : \A y \in T : x <= y
<1> DEFINE R == OpToRel(<, Nat)
<1>1. IsWellFoundedOn(R, Nat)
  BY NatLessThanWellFounded, Zenon
<1>2. PICK x \in T : \A y \in T : ~(<<y, x>> \in R)
  BY <1>1, WFMin, Zenon
<1>3. \A y \in T : y < x => <<y, x>> \in R
  BY Zenon DEF OpToRel
<1> HIDE DEF R
<1>4. \A y \in T : ~(y < x)
  BY <1>2, <1>3
<1> QED
  BY <1>4

PublishAt(w) == {i \in DOMAIN w : w[i].type = "publish"}

\* Numbered, element by element.
Ascending(w) == \A i, j \in PublishAt(w) : i < j => w[i].id < w[j].id
Within(w, b, l) == \A i \in PublishAt(w) : w[i].id \in (b + 1)..l
Complete(w, b, l) == \A n \in (b + 1)..l : \E i \in PublishAt(w) : w[i].id = n

LEMMA NumberedParts ==
    ASSUME NEW w, NEW b, NEW l
    PROVE  Numbered(w, b, l) <=> Ascending(w) /\ Within(w, b, l) /\ Complete(w, b, l)
<1>1. {w[i].id : i \in PublishAt(w)} = (b + 1)..l <=> Within(w, b, l) /\ Complete(w, b, l)
  BY DEF Within, Complete
<1> QED
  BY <1>1 DEF Numbered, Ascending, PublishAt

LEMMA NumberedEmpty == \A b \in Nat : Numbered(<<>>, b, b)
<1> TAKE b \in Nat
<1>1. PublishAt(<<>>) = {} /\ (b + 1)..b = {}
  BY DEF PublishAt
<1>2. Ascending(<<>>) /\ Within(<<>>, b, b) /\ Complete(<<>>, b, b)
  BY <1>1 DEF Ascending, Within, Complete
<1> QED
  BY <1>2, NumberedParts

\* The packets of a tail are those of the whole from the second on.
LEMMA PublishTail ==
    ASSUME NEW w \in Seq(Packets), w # <<>>
    PROVE  /\ \A i \in PublishAt(Tail(w)) : i + 1 \in PublishAt(w) /\ Tail(w)[i] = w[i + 1]
           /\ \A i \in PublishAt(w) : i # 1 => i - 1 \in PublishAt(Tail(w)) /\ Tail(w)[i - 1] = w[i]
           /\ PublishAt(w) \subseteq Nat \ {0} /\ PublishAt(Tail(w)) \subseteq Nat \ {0}
           /\ Head(w) = w[1] /\ 1 \in DOMAIN w
           /\ \A i \in PublishAt(w) : w[i].id \in Nat
<1>1. \A i \in DOMAIN Tail(w) : i \in Nat \ {0} /\ i + 1 \in DOMAIN w /\ Tail(w)[i] = w[i + 1]
  OBVIOUS
<1>2. \A i \in DOMAIN w : i \in Nat \ {0} /\ (i # 1 => i - 1 \in DOMAIN Tail(w) /\ Tail(w)[i - 1] = w[i])
  OBVIOUS
<1>3. \A i \in DOMAIN w : w[i].id \in Nat
  <2>1. \A i \in DOMAIN w : w[i] \in Packets
    OBVIOUS
  <2>2. \A p \in Packets : p.id \in Nat
    BY DEF Packets
  <2> QED
    BY <2>1, <2>2
<1>4. Head(w) = w[1] /\ 1 \in DOMAIN w
  OBVIOUS
<1> QED
  BY <1>1, <1>2, <1>3, <1>4 DEF PublishAt

\* The first publish on the wire is the next one.
LEMMA NumberedHead ==
    ASSUME NEW w \in Seq(Packets), w # <<>>, Head(w).type = "publish",
           NEW b \in Nat, NEW l \in Nat, Numbered(w, b, l)
    PROVE  Head(w).id = b + 1 /\ b + 1 <= l /\ Numbered(Tail(w), b + 1, l)
<1> DEFINE v == Tail(w)
<1>1. Ascending(w) /\ Within(w, b, l) /\ Complete(w, b, l)
  BY NumberedParts
<1>2. /\ \A i \in PublishAt(v) : i + 1 \in PublishAt(w) /\ v[i] = w[i + 1]
      /\ \A i \in PublishAt(w) : i # 1 => i - 1 \in PublishAt(v) /\ v[i - 1] = w[i]
      /\ PublishAt(w) \subseteq Nat \ {0} /\ PublishAt(v) \subseteq Nat \ {0}
      /\ 1 \in PublishAt(w) /\ Head(w) = w[1]
      /\ \A i \in PublishAt(w) : w[i].id \in Nat
  BY PublishTail DEF PublishAt
<1> HIDE DEF v
<1>3. \A i \in PublishAt(w) : i # 1 => w[1].id < w[i].id
  BY <1>1, <1>2 DEF Ascending
<1>4. w[1].id \in (b + 1)..l
  BY <1>1, <1>2 DEF Within
<1>5. w[1].id = b + 1
  <2>1. b + 1 \in (b + 1)..l
    BY <1>4
  <2>2. PICK i \in PublishAt(w) : w[i].id = b + 1
    BY <1>1, <2>1 DEF Complete
  <2> QED
    BY <1>2, <1>3, <1>4, <2>2
<1>6. Ascending(v)
  <2> SUFFICES ASSUME NEW i \in PublishAt(v), NEW j \in PublishAt(v), i < j PROVE v[i].id < v[j].id
    BY DEF Ascending
  <2>1. i + 1 \in PublishAt(w) /\ j + 1 \in PublishAt(w) /\ i + 1 < j + 1
        /\ v[i] = w[i + 1] /\ v[j] = w[j + 1]
    BY <1>2
  <2> QED
    BY <1>1, <2>1 DEF Ascending
<1>7. Within(v, b + 1, l)
  <2> SUFFICES ASSUME NEW i \in PublishAt(v) PROVE v[i].id \in (b + 1 + 1)..l
    BY DEF Within
  <2>1. i + 1 \in PublishAt(w) /\ i + 1 # 1 /\ v[i] = w[i + 1]
    BY <1>2
  <2>2. w[i + 1].id \in (b + 1)..l /\ w[1].id < w[i + 1].id
    BY <1>1, <1>3, <2>1 DEF Within
  <2> QED
    BY <1>5, <2>1, <2>2
<1>8. Complete(v, b + 1, l)
  <2> SUFFICES ASSUME NEW n \in (b + 1 + 1)..l PROVE \E i \in PublishAt(v) : v[i].id = n
    BY DEF Complete
  <2>1. PICK i \in PublishAt(w) : w[i].id = n
    BY <1>1 DEF Complete
  <2>2. i # 1
    BY <1>5, <2>1
  <2> QED
    BY <1>2, <2>1, <2>2
<1> QED
  BY <1>2, <1>4, <1>5, <1>6, <1>7, <1>8, NumberedParts DEF v

\* Other packets come off the wire without any effect on the publishes.
LEMMA NumberedTail ==
    ASSUME NEW w \in Seq(Packets), w # <<>>, Head(w).type # "publish",
           NEW b \in Nat, NEW l \in Nat, Numbered(w, b, l)
    PROVE  Numbered(Tail(w), b, l)
<1> DEFINE v == Tail(w)
<1>1. Ascending(w) /\ Within(w, b, l) /\ Complete(w, b, l)
  BY NumberedParts
<1>2. /\ \A i \in PublishAt(v) : i + 1 \in PublishAt(w) /\ v[i] = w[i + 1]
      /\ \A i \in PublishAt(w) : i - 1 \in PublishAt(v) /\ v[i - 1] = w[i]
      /\ PublishAt(w) \subseteq Nat \ {0} /\ PublishAt(v) \subseteq Nat \ {0}
  BY PublishTail DEF PublishAt
<1> HIDE DEF v
<1>3. Ascending(v)
  <2> SUFFICES ASSUME NEW i \in PublishAt(v), NEW j \in PublishAt(v), i < j PROVE v[i].id < v[j].id
    BY DEF Ascending
  <2>1. i + 1 \in PublishAt(w) /\ j + 1 \in PublishAt(w) /\ i + 1 < j + 1
        /\ v[i] = w[i + 1] /\ v[j] = w[j + 1]
    BY <1>2
  <2> QED
    BY <1>1, <2>1 DEF Ascending
<1>4. Within(v, b, l)
  BY <1>1, <1>2 DEF Within
<1>5. Complete(v, b, l)
  <2> SUFFICES ASSUME NEW n \in (b + 1)..l PROVE \E i \in PublishAt(v) : v[i].id = n
    BY DEF Complete
  <2>1. PICK i \in PublishAt(w) : w[i].id = n
    BY <1>1 DEF Complete
  <2> QED
    BY <1>2, <2>1
<1> QED
  BY <1>3, <1>4, <1>5, NumberedParts DEF v

\* A packet is appended; a publish has the next number.
LEMMA NumberedAppend ==
    ASSUME NEW w \in Seq(Packets), NEW p \in Packets,
           NEW b \in Nat, NEW l \in Nat, b <= l, Numbered(w, b, l)
    PROVE  /\ p.type # "publish" => Numbered(Append(w, p), b, l)
           /\ p.type = "publish" /\ p.id = l + 1 => Numbered(Append(w, p), b, l + 1)
<1> DEFINE v == Append(w, p)
           n == Len(w) + 1
<1>1. Ascending(w) /\ Within(w, b, l) /\ Complete(w, b, l)
  BY NumberedParts
<1>2. /\ DOMAIN v = DOMAIN w \cup {n} /\ v[n] = p /\ \A i \in DOMAIN w : v[i] = w[i]
      /\ \A i \in DOMAIN w : i \in Nat /\ i < n
      /\ n \in Nat
  OBVIOUS
<1> HIDE DEF v, n
<1>3. CASE p.type # "publish"
  <2>1. PublishAt(v) = PublishAt(w) /\ \A i \in PublishAt(w) : v[i] = w[i]
    BY <1>2, <1>3 DEF PublishAt
  <2>2. Ascending(v) /\ Within(v, b, l) /\ Complete(v, b, l)
    BY <1>1, <2>1 DEF Ascending, Within, Complete
  <2> QED
    BY <1>3, <2>2, NumberedParts DEF v
<1>4. CASE p.type = "publish" /\ p.id = l + 1
  <2>1. /\ PublishAt(v) = PublishAt(w) \cup {n} /\ \A i \in PublishAt(w) : v[i] = w[i]
        /\ \A i \in PublishAt(w) : i \in Nat /\ i < n
    BY <1>2, <1>4 DEF PublishAt
  <2>2. \A i \in PublishAt(w) : w[i].id \in (b + 1)..l
    BY <1>1 DEF Within
  <2>3. Ascending(v)
    BY <1>1, <1>2, <1>4, <2>1, <2>2 DEF Ascending
  <2>4. Within(v, b, l + 1)
    BY <1>2, <1>4, <2>1, <2>2 DEF Within
  <2>5. Complete(v, b, l + 1)
    <3> SUFFICES ASSUME NEW k \in (b + 1)..(l + 1) PROVE \E i \in PublishAt(v) : v[i].id = k
      BY DEF Complete
    <3>1. CASE k = l + 1
      BY <1>2, <1>4, <2>1, <3>1
    <3>2. CASE k # l + 1
      <4>1. k \in (b + 1)..l
        BY <3>2
      <4>2. PICK i \in PublishAt(w) : w[i].id = k
        BY <1>1, <4>1 DEF Complete
      <4> QED
        BY <2>1, <4>2
    <3> QED
      BY <3>1, <3>2
  <2> QED
    BY <1>4, <2>3, <2>4, <2>5, NumberedParts DEF v
<1> QED
  BY <1>3, <1>4 DEF v

\* What a dropped connection delivers ends with some publish, and lacks none before it.
LEMMA NumberedPrefix ==
    ASSUME NEW w \in Seq(Packets), NEW n \in 0..Len(w),
           NEW b \in Nat, NEW l \in Nat, b <= l, Numbered(w, b, l)
    PROVE  \E m \in b..l : Numbered(SubSeq(w, 1, n), b, m)
<1> DEFINE v == SubSeq(w, 1, n)
           T == {i \in PublishAt(w) : i > n}
<1>1. Ascending(w) /\ Within(w, b, l) /\ Complete(w, b, l)
  BY NumberedParts
<1>2. DOMAIN v = {i \in DOMAIN w : i <= n} /\ \A i \in DOMAIN v : v[i] = w[i]
  OBVIOUS
<1>3. DOMAIN w \subseteq Nat /\ n \in Nat
  OBVIOUS
<1> HIDE DEF v
<1>4. /\ PublishAt(v) = {i \in PublishAt(w) : i <= n} /\ \A i \in PublishAt(v) : v[i] = w[i]
      /\ PublishAt(w) \subseteq Nat
  BY <1>2, <1>3 DEF PublishAt
<1>5. Ascending(v)
  BY <1>1, <1>4 DEF Ascending
<1>6. \A i \in PublishAt(w) : w[i].id \in (b + 1)..l
  BY <1>1 DEF Within
<1>7. CASE T = {}
  <2>1. PublishAt(v) = PublishAt(w)
    BY <1>3, <1>4, <1>7
  <2>2. Within(v, b, l) /\ Complete(v, b, l)
    BY <1>1, <1>4, <2>1 DEF Within, Complete
  <2>3. Numbered(v, b, l)
    BY <1>5, <2>2, NumberedParts
  <2> QED
    BY <2>3 DEF v
<1>8. CASE T # {}
  <2>1. PICK k \in T : \A y \in T : k <= y
    <3>1. T \in SUBSET Nat
      BY <1>4
    <3> HIDE DEF T
    <3> QED
      BY <1>8, <3>1, Smallest
  <2> DEFINE m == w[k].id - 1
  <2>2. m \in b..l
    BY <1>6, <2>1
  <2>3. \A i \in PublishAt(w) : i <= n <=> i < k
    BY <1>3, <1>4, <2>1
  <2>4. \A i \in PublishAt(w) : i <= n <=> w[i].id <= m
    <3> SUFFICES ASSUME NEW i \in PublishAt(w) PROVE i <= n <=> w[i].id <= m
      OBVIOUS
    <3>1. i \in Nat /\ k \in Nat /\ k \in PublishAt(w) /\ w[i].id \in Int /\ w[k].id \in Int
      BY <1>4, <1>6, <2>1
    <3>2. i < k => w[i].id < w[k].id
      BY <1>1, <3>1 DEF Ascending
    <3>3. k < i => w[k].id < w[i].id
      BY <1>1, <3>1 DEF Ascending
    <3> QED
      BY <2>3, <3>1, <3>2, <3>3
  <2>5. Within(v, b, m)
    BY <1>4, <1>6, <2>2, <2>4 DEF Within
  <2>6. Complete(v, b, m)
    <3> SUFFICES ASSUME NEW x \in (b + 1)..m PROVE \E i \in PublishAt(v) : v[i].id = x
      BY DEF Complete
    <3>1. x \in (b + 1)..l /\ x <= m
      BY <2>2
    <3>2. PICK i \in PublishAt(w) : w[i].id = x
      BY <1>1, <3>1 DEF Complete
    <3> QED
      BY <1>4, <2>4, <3>1, <3>2
  <2>7. Numbered(v, b, m)
    BY <1>5, <2>5, <2>6, NumberedParts
  <2> QED
    BY <2>2, <2>7 DEF v
<1> QED
  BY <1>7, <1>8

\* PublishesInOrder in two parts: what has been read, and what is on the wire
\* behind the number b.
Lined == \A i \in DOMAIN Read : Read[i] = got + i
Behind(b) ==
    \E last \in b..npubs : Numbered(wire, b, last) /\ (link = "up" => last = npubs)

LEMMA ReadTyped ==
    ASSUME TypeInv
    PROVE  Read \in Seq(Nat) /\ Len(Read) \in Nat /\ got \in Nat /\ npubs \in Nat
           /\ wire \in Seq(Packets) /\ got + Len(Read) \in Nat
<1>1. inbox \in Seq(Nat) /\ held \in Nat /\ got \in Nat /\ npubs \in Nat /\ wire \in Seq(Packets)
  BY DEF TypeInv, TypeOK, SharedOK, TaskOK, NetworkOK, HistoryOK
<1>2. Read \in Seq(Nat)
  BY <1>1 DEF Read
<1> QED
  BY <1>1, <1>2

\* A step that leaves the pipeline as it is.
LEMMA OrderUntouched ==
    ASSUME PublishesInOrder, mode' = mode, Read' = Read, got' = got, npubs' = npubs,
           wire' = wire, link' = link
    PROVE  PublishesInOrder'
BY DEF PublishesInOrder, Numbered

\* A step that changes the wire, and not what has been read.
LEMMA OrderWire ==
    ASSUME PublishesInOrder, mode' = mode, Read' = Read, got' = got,
           \A b \in Nat : Behind(b) => Behind(b)', got + Len(Read) \in Nat
    PROVE  PublishesInOrder'
<1>1. PICK b \in Nat : b = got + Len(Read)
  OBVIOUS
<1>2. CASE mode = "Connected"
  <2>1. Lined /\ Behind(b)
    BY <1>1, <1>2 DEF PublishesInOrder, Lined, Behind
  <2>2. Lined' /\ Behind(b)' /\ b = got' + Len(Read')
    BY <1>1, <2>1 DEF Lined
  <2> QED
    BY <2>2 DEF PublishesInOrder, Lined, Behind
<1> QED
  BY <1>2 DEF PublishesInOrder

LEMMA OrderActor ==
    TypeInv /\ SessionInv /\ PublishesInOrder /\ (ActorStarts \/ Teardown \/ ActorSteps)
        => PublishesInOrder'
<1> SUFFICES ASSUME TypeInv, SessionInv, PublishesInOrder, ActorStarts \/ Teardown \/ ActorSteps
             PROVE  PublishesInOrder'
  OBVIOUS
<1> USE DEF Begin, Finish
<1>1. CASE ConnectSucceeds
  <2>1. /\ inbox' = <<>> /\ loop' = "poll" /\ wire' = <<>> /\ npubs' = 0 /\ got' = 0
    BY <1>1 DEF ConnectSucceeds, SpawnConnected
  <2>2. Read' = <<>>
    BY <2>1 DEF Read
  <2>3. got' + Len(Read') = 0 /\ 0 \in (got' + Len(Read'))..npubs' /\ DOMAIN Read' = {}
    BY <2>1, <2>2
  <2>4. Numbered(wire', 0, 0)
    BY <2>1, NumberedEmpty
  <2>5. \E last \in (got' + Len(Read'))..npubs' :
           Numbered(wire', got' + Len(Read'), last) /\ (link' = "up" => last = npubs')
    BY <2>1, <2>3, <2>4
  <2> QED
    BY <2>3, <2>5 DEF PublishesInOrder, Numbered
<1>2. CASE SendDisconnect \/ ReceiveDisconnect
  BY <1>2 DEF SendDisconnect, ReceiveDisconnect, DropConnected, PublishesInOrder
<1>3. CASE ReceivePublish
  <2>1. /\ inbox \in Seq(Nat) /\ held \in Nat /\ inbox # <<>> /\ inbox' = Tail(inbox) /\ got' = Head(inbox)
        /\ UNCHANGED <<loop, held, wire, npubs, link>> /\ mode = "Connected"
    BY <1>3 DEF ReceivePublish, TypeInv, TypeOK, SharedOK, TaskOK, task, network, SessionInv, PcInv
  <2>2. /\ Read # <<>> /\ Read' = Tail(Read) /\ Head(Read) = Head(inbox) /\ Read \in Seq(Nat)
        /\ 1 \in DOMAIN Read /\ Head(Read) = Read[1]
    BY <2>1 DEF Read
  <2>3. got' = got + 1 /\ got \in Nat
    BY <2>1, <2>2, ReadTyped DEF PublishesInOrder
  <2>4. Len(Read') = Len(Read) - 1 /\ \A i \in DOMAIN Read' : i + 1 \in DOMAIN Read /\ Read'[i] = Read[i + 1] /\ i \in Nat
    BY <2>2
  <2>5. got' + Len(Read') = got + Len(Read)
    BY <2>2, <2>3, <2>4
  <2>6. \A i \in DOMAIN Read' : Read'[i] = got' + i
    <3> SUFFICES ASSUME NEW i \in DOMAIN Read' PROVE Read'[i] = got' + i
      OBVIOUS
    <3>1. Read[i + 1] = got + (i + 1) /\ i \in Nat
      BY <2>1, <2>4 DEF PublishesInOrder
    <3> QED
      BY <2>3, <2>4, <3>1
  <2>7. \E last \in (got' + Len(Read'))..npubs' :
           Numbered(wire', got' + Len(Read'), last) /\ (link' = "up" => last = npubs')
    BY <2>1, <2>5 DEF PublishesInOrder
  <2> QED
    BY <2>6, <2>7 DEF PublishesInOrder, Numbered
<1>4. CASE ~ConnectSucceeds /\ ~SendDisconnect /\ ~ReceiveDisconnect /\ ~ReceivePublish
  <2>1. UNCHANGED <<mode, inbox, loop, held, wire, npubs, link, got>>
    BY <1>4 DEF ActorStarts, Teardown, ActorSteps, NotImplemented, ConnectFails, RejectClientSide,
       StartAcked, StartUnacked, StartReceive, TeardownDisconnected, TeardownConnected, SendAcked,
       SendQos0, SendAckedFails, SendQos0Fails, AwaitAck, ReceivePublishEmpty,
       ReceiveDisconnectTimeout, shared, task, network, history
  <2> QED
    BY <2>1, OrderUntouched DEF Read
<1> QED
  BY <1>1, <1>2, <1>3, <1>4

LEMMA OrderLoop == TypeInv /\ PublishesInOrder /\ LoopSteps => PublishesInOrder'
<1> SUFFICES ASSUME TypeInv, PublishesInOrder, LoopSteps PROVE PublishesInOrder'
  OBVIOUS
<1>1. UNCHANGED <<mode, npubs, link, got>>
  BY DEF LoopSteps, PollRequest, PollPublish, DeliverPublish, PollAck, PollNack, PollPubRec,
     PollDisconnect, PollError, FailAll, FailQueue, DropInboxes, DropEventLoop, actor, network, history
<1>2. CASE PollPublish
  <2>1. /\ loop = "poll" /\ loop' = "deliver" /\ held' = Head(wire).id /\ inbox' = inbox
        /\ wire # <<>> /\ wire' = Tail(wire) /\ Head(wire).type = "publish"
    BY <1>2 DEF PollPublish, PollPacket, shared
  <2>2. Read = inbox /\ inbox \in Seq(Nat)
    BY <2>1 DEF Read, TypeInv, TypeOK, SharedOK
  <2>3. Read' = Append(Read, held')
    BY <2>1, <2>2 DEF Read
  <2> SUFFICES ASSUME mode = "Connected" PROVE PublishesInOrder'
    BY <1>1 DEF PublishesInOrder
  <2> DEFINE b == got + Len(Read)
  <2>4. PICK last \in b..npubs : Numbered(wire, b, last) /\ (link = "up" => last = npubs)
    BY DEF PublishesInOrder
  <2>5. b \in Nat /\ last \in Nat /\ wire \in Seq(Packets) /\ npubs \in Nat /\ got \in Nat
    BY <2>4, ReadTyped
  <2>6. Head(wire).id = b + 1 /\ b + 1 <= last /\ Numbered(Tail(wire), b + 1, last)
    BY <2>1, <2>4, <2>5, NumberedHead
  <2>7. got' + Len(Read') = b + 1
    BY <1>1, <2>2, <2>3, <2>5
  <2>8. \A i \in DOMAIN Read' : Read'[i] = got' + i
    <3> SUFFICES ASSUME NEW i \in DOMAIN Read' PROVE Read'[i] = got' + i
      OBVIOUS
    <3>1. CASE i \in DOMAIN Read
      <4>1. Read'[i] = Read[i]
        BY <2>2, <2>3, <3>1
      <4> QED
        BY <1>1, <3>1, <4>1 DEF PublishesInOrder
    <3>2. CASE i \notin DOMAIN Read
      <4>1. i = Len(Read) + 1 /\ Read'[i] = held'
        BY <2>2, <2>3, <3>2
      <4> QED
        BY <1>1, <2>1, <2>5, <2>6, <4>1, <2>2
    <3> QED
      BY <3>1, <3>2
  <2>9. last \in (got' + Len(Read'))..npubs' /\ Numbered(wire', got' + Len(Read'), last)
        /\ (link' = "up" => last = npubs')
    BY <1>1, <2>1, <2>4, <2>5, <2>6, <2>7
  <2> QED
    BY <2>8, <2>9 DEF PublishesInOrder, Numbered
<1>3. CASE DeliverPublish
  <2>1. /\ loop = "deliver" /\ loop' = "poll" /\ inbox' = Append(inbox, held) /\ wire' = wire
        /\ inbox \in Seq(Nat) /\ held \in Nat
    BY <1>3 DEF DeliverPublish, network, TypeInv, TypeOK, SharedOK, TaskOK
  <2>2. Read' = Read
    BY <2>1 DEF Read
  <2> QED
    BY <1>1, <2>1, <2>2, OrderUntouched
<1>4. CASE PollAck \/ PollNack \/ PollPubRec \/ PollDisconnect
  <2>1. /\ wire # <<>> /\ wire' = Tail(wire) /\ Head(wire).type # "publish"
        /\ inbox' = inbox /\ held' = held /\ loop = "poll" /\ loop' # "deliver"
    BY <1>4 DEF PollAck, PollNack, PollPubRec, PollDisconnect, PollPacket, shared, task
  <2>2. Read' = Read
    BY <2>1 DEF Read
  <2>3. ASSUME NEW b \in Nat, Behind(b) PROVE Behind(b)'
    <3>1. PICK last \in b..npubs : Numbered(wire, b, last) /\ (link = "up" => last = npubs)
      BY <2>3 DEF Behind
    <3>2. last \in Nat /\ wire \in Seq(Packets)
      BY <3>1, ReadTyped
    <3>3. Numbered(Tail(wire), b, last)
      BY <2>1, <3>1, <3>2, NumberedTail
    <3> QED
      BY <1>1, <2>1, <3>1, <3>3 DEF Behind, Numbered
  <2> QED
    BY <1>1, <2>2, <2>3, OrderWire, ReadTyped
<1>5. CASE ~PollPublish /\ ~DeliverPublish /\ ~(PollAck \/ PollNack \/ PollPubRec \/ PollDisconnect)
  <2>1. UNCHANGED <<inbox, held, wire>> /\ (loop' = loop \/ (loop # "deliver" /\ loop' # "deliver"))
    BY <1>5 DEF LoopSteps, PollRequest, PollError, FailAll, FailQueue, DropInboxes, DropEventLoop,
       shared, task, network
  <2>2. Read' = Read
    BY <2>1 DEF Read
  <2> QED
    BY <1>1, <2>1, <2>2, OrderUntouched
<1> QED
  BY <1>2, <1>3, <1>4, <1>5

LEMMA OrderBroker == TypeInv /\ PublishesInOrder /\ BrokerSteps => PublishesInOrder'
<1> SUFFICES ASSUME TypeInv, PublishesInOrder, BrokerSteps PROVE PublishesInOrder'
  OBVIOUS
<1>1. UNCHANGED <<mode, inbox, loop, held, got>>
  BY DEF BrokerSteps, BrokerAnswers, BrokerAccepts, BrokerRejects, BrokerRejectsQos2,
     BrokerPublishes, BrokerDisconnects, LinkFails, actor, shared, task, history
<1>2. Read' = Read
  BY <1>1 DEF Read
<1> SUFFICES ASSUME NEW b \in Nat, Behind(b) PROVE Behind(b)'
  BY <1>1, <1>2, OrderWire, ReadTyped
<1>3. PICK last \in b..npubs : Numbered(wire, b, last) /\ (link = "up" => last = npubs)
  BY DEF Behind
<1>4. last \in Nat /\ b <= last /\ wire \in Seq(Packets) /\ npubs \in Nat
  BY <1>3, ReadTyped
<1>5. CASE BrokerAnswers \/ BrokerDisconnects
  <2>1. PICK p \in Packets : wire' = Append(wire, p) /\ p.type # "publish"
    <3>1. ASSUME BrokerDisconnects PROVE wire' = Append(wire, Packet("disconnect", NoAck, 0))
      BY <3>1 DEF BrokerDisconnects
    <3>2. Packet("disconnect", NoAck, 0) \in Packets /\ Packet("disconnect", NoAck, 0).type # "publish"
      BY DEF Packet, Packets
    <3>3. ASSUME BrokerAnswers
          PROVE  \E r \in unacked, t \in {"ack", "nack", "pubrec"} : wire' = Append(wire, Packet(t, r.ack, r.id))
      BY <3>3 DEF BrokerAnswers, BrokerAccepts, BrokerRejects, BrokerRejectsQos2
    <3>4. \A r \in unacked, t \in {"ack", "nack", "pubrec"} :
             Packet(t, r.ack, r.id) \in Packets /\ Packet(t, r.ack, r.id).type # "publish"
      BY DEF TypeInv, TypeOK, NetworkOK, Packet, Packets
    <3> QED
      BY <1>5, <3>1, <3>2, <3>3, <3>4
  <2>2. Numbered(Append(wire, p), b, last)
    BY <1>3, <1>4, <2>1, NumberedAppend
  <2>3. npubs' = npubs /\ (link' = "up" => link = "up")
    BY <1>5 DEF BrokerAnswers, BrokerAccepts, BrokerRejects, BrokerRejectsQos2, BrokerDisconnects
  <2>4. last \in b..npubs' /\ Numbered(wire', b, last) /\ (link' = "up" => last = npubs')
    BY <1>3, <2>1, <2>2, <2>3
  <2> QED
    BY <2>4 DEF Behind, Numbered
<1>6. CASE BrokerPublishes
  <2>1. /\ link = "up" /\ link' = link /\ npubs' = npubs + 1
        /\ wire' = Append(wire, Packet("publish", NoAck, npubs + 1))
    BY <1>6 DEF BrokerPublishes
  <2>2. last = npubs
    BY <1>3, <2>1
  <2> DEFINE p == Packet("publish", NoAck, last + 1)
  <2>3. p \in Packets /\ p.type = "publish" /\ p.id = last + 1
    BY <1>4 DEF Packet, Packets
  <2> HIDE DEF p
  <2>4. Numbered(Append(wire, p), b, last + 1)
    BY <1>3, <1>4, <2>3, NumberedAppend
  <2>5. wire' = Append(wire, p) /\ npubs' = last + 1 /\ last + 1 \in b..(last + 1)
    BY <1>4, <2>1, <2>2 DEF p
  <2> QED
    BY <2>4, <2>5 DEF Behind, Numbered
<1>7. CASE LinkFails
  <2>1. PICK n \in 0..Len(wire) : wire' = SubSeq(wire, 1, n)
    BY <1>7 DEF LinkFails
  <2>2. PICK m \in b..last : Numbered(SubSeq(wire, 1, n), b, m)
    BY <1>3, <1>4, NumberedPrefix
  <2>3. m \in b..npubs' /\ link' # "up"
    BY <1>3, <1>4, <1>7 DEF LinkFails
  <2> QED
    BY <2>1, <2>2, <2>3 DEF Behind, Numbered
<1> QED
  BY <1>5, <1>6, <1>7 DEF BrokerSteps

LEMMA OrderStep ==
    TypeInv /\ SessionInv /\ PublishesInOrder /\ [Next]_vars => PublishesInOrder'
<1>1. PublishesInOrder /\ UNCHANGED vars => PublishesInOrder'
  BY OrderUntouched DEF vars, actor, shared, task, network, history, Read
<1> QED
  BY <1>1, OrderActor, OrderLoop, OrderBroker DEF Next, Terminated

\* For every capacity of the inbox and every number of publishes: what receive_publish
\* returns, what waits in the inbox, what the loop holds and what is on the wire are the
\* broker's publishes in the order it sent them, without a gap.
THEOREM OrderCorrect == Spec => []PublishesInOrder
<1>1. Init => PublishesInOrder
  BY DEF Init, PublishesInOrder
<1> QED
  BY <1>1, TypeInvariant, SessionInvariant, OrderStep, PTL DEF Spec
=============================================================================
