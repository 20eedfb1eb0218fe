----------------------------- MODULE MqttClient -----------------------------
(***************************************************************************)
(* The runtime of the `mqtt_client` actor                                  *)
(* (crates/ill-core/src/actor_type/mqtt_client/runtime.rs).                *)
(*                                                                         *)
(* Two tasks share a session.  The ACTOR task is the harness awaiting one  *)
(* command (or the teardown) of the actor at a time.  The LOOP task is     *)
(* run_event_loop, spawned by a successful `connect`.  They share          *)
(*   - `requests`, the channel of the rumqttc client (actor -> loop),      *)
(*   - `inbox` and `disc`, the publish and disconnect inboxes              *)
(*     (loop -> actor),                                                    *)
(*   - `waiters`, three FIFO queues of oneshot senders, one per kind of    *)
(*     acknowledgement, each entry here the number of the command that     *)
(*     pushed it; `rx` is the receiving end the current command holds.     *)
(* The broker and the network are external: `wire` carries packets to the  *)
(* client, `unacked` holds the requests the broker has not answered.       *)
(*                                                                         *)
(* Payloads, topics and reason codes are abstracted: an outcome is the     *)
(* variant a script can tell apart.  The retry loop inside `connect` is    *)
(* module ConnectRetry; here a connect is one step with its three results. *)
(***************************************************************************)
EXTENDS Naturals, Sequences, FiniteSets

CONSTANTS
    INBOX_CAP,            \* capacity of the publish inbox (64 in the code)
    REQUEST_CHANNEL_CAP,  \* capacity of the request channel (10 in the code)
    MaxCommands,          \* bound: commands executed before the teardown
    MaxPublishes,         \* bound: publishes the broker sends in a session
    LinkMayFail,          \* environment: the connection can drop
    BrokerMayRejectQos2   \* environment: the broker can refuse a QoS-2 publish

ASSUME CapAssumption ==
    /\ INBOX_CAP \in Nat \ {0}
    /\ REQUEST_CHANNEL_CAP \in Nat \ {0}

ASSUME BoundAssumption ==
    /\ MaxCommands \in Nat
    /\ MaxPublishes \in Nat

ASSUME EnvironmentAssumption ==
    /\ LinkMayFail \in BOOLEAN
    /\ BrokerMayRejectQos2 \in BOOLEAN

VARIABLES
    mode,      \* MqttClientInstance.mode
    pc,        \* where the actor task is inside the current command
    cmd,       \* the current (or the last) command
    ncmds,     \* its number
    rx,        \* oneshot receiver of the current command
    outcome,   \* RunOutcome of the last command
    waiters,   \* Waiters { sub, qos1, qos2 }
    requests,  \* request channel between AsyncClient and EventLoop
    inbox,     \* publish_inbox
    disc,      \* disconnect_inbox
    loop,      \* where the event-loop task is
    held,      \* publish the loop is sending to the inbox (0: none)
    wire,      \* packets on their way from the broker
    unacked,   \* requests the broker has received and not answered
    link,      \* the connection
    npubs,     \* publishes sent by the broker in this session
    accepted,  \* history: commands the broker accepted
    rejected,  \* history: commands the broker refused
    got,       \* history: publishes returned by receive_publish (session)
    sawDisc    \* history: the loop read a DISCONNECT in this session

actor   == <<mode, pc, cmd, ncmds, rx, outcome>>
shared  == <<waiters, requests, inbox, disc>>
task    == <<loop, held>>
network == <<wire, unacked, link, npubs>>
history == <<accepted, rejected, got, sawDisc>>
vars    == <<actor, shared, task, network, history>>

-----------------------------------------------------------------------------
(* The three acknowledgement kinds, and the one each command waits for.    *)
Acks == {"sub", "qos1", "qos2"}
NoAck == "none"

\* `subscribe` stands for subscribe_0, _1 and _2: they differ in the QoS byte.
Commands == {"connect", "disconnect", "subscribe", "publish_0", "publish_1",
             "publish_2", "receive_publish", "receive_disconnect"}

AckOf(c) == CASE c = "subscribe" -> "sub"
              [] c = "publish_1" -> "qos1"
              [] c = "publish_2" -> "qos2"
              [] OTHER           -> NoAck

Outcomes == {"none", "ok", "network", "mqtt", "client_side", "timeout",
             "not_implemented"}

NoWaiters == [k \in Acks |-> <<>>]

Request(k, n) == [ack |-> k, id |-> n]
Packet(t, k, n) == [type |-> t, ack |-> k, id |-> n]

\* The senders of the inboxes, then the event loop with the receiver of the
\* request channel, are dropped as run_event_loop's parameters go out of scope.
InboxesOpen  == loop \notin {"exitRequests", "done"}
RequestsOpen == loop # "done"

-----------------------------------------------------------------------------
Init ==
    /\ mode = "Disconnected"
    /\ pc = "idle" /\ cmd = "none" /\ ncmds = 0
    /\ rx = "none" /\ outcome = "none"
    /\ waiters = NoWaiters /\ requests = <<>> /\ inbox = <<>> /\ disc = <<>>
    /\ loop = "none" /\ held = 0
    /\ wire = <<>> /\ unacked = {} /\ link = "none" /\ npubs = 0
    /\ accepted = {} /\ rejected = {} /\ got = 0 /\ sawDisc = FALSE

(* Session ownership. *)

\* spawn_connected: fresh channels, fresh waiter queues, a new loop task.
SpawnConnected ==
    /\ mode' = "Connected"
    /\ waiters' = NoWaiters /\ requests' = <<>> /\ inbox' = <<>> /\ disc' = <<>>
    /\ loop' = "poll" /\ held' = 0
    /\ wire' = <<>> /\ unacked' = {} /\ link' = "up" /\ npubs' = 0
    /\ got' = 0 /\ sawDisc' = FALSE
    /\ UNCHANGED <<accepted, rejected>>

\* Connected goes out of scope: Drop aborts the loop, the channels and the
\* connection go with it.
DropConnected ==
    /\ mode' = "Disconnected"
    /\ waiters' = NoWaiters /\ requests' = <<>> /\ inbox' = <<>> /\ disc' = <<>>
    /\ loop' = "none" /\ held' = 0
    /\ wire' = <<>> /\ unacked' = {} /\ link' = "none"

-----------------------------------------------------------------------------
(* Actor task: execute and teardown.                                       *)

\* MqttClientInstance::execute is entered with command c; the harness awaits
\* it before it does anything else with this actor.
Begin(c) ==
    /\ pc = "idle" /\ cmd # "teardown" /\ ncmds < MaxCommands
    /\ cmd' = c
    /\ ncmds' = ncmds + 1

Finish(o) == pc' = "idle" /\ outcome' = o /\ rx' = "none"

\* A command the current mode has no arm for.
NotImplemented ==
    /\ \E c \in Commands :
          /\ Begin(c)
          /\ (mode = "Disconnected") # (c = "connect")
    /\ Finish("not_implemented")
    /\ UNCHANGED <<mode, shared, task, network, history>>

\* Disconnected::connect: a bad configuration or the broker's refusal is an
\* `mqtt` error, transport failures and the timeout are `network` errors.
ConnectFails ==
    /\ Begin("connect") /\ mode = "Disconnected"
    /\ \E o \in {"network", "mqtt"} : Finish(o)
    /\ UNCHANGED <<mode, shared, task, network, history>>

ConnectSucceeds ==
    /\ Begin("connect") /\ mode = "Disconnected"
    /\ SpawnConnected
    /\ Finish("ok")

\* Arguments refused before anything is sent (topic, payload, properties).
RejectClientSide ==
    /\ \E c \in {"subscribe", "publish_0", "publish_1", "publish_2"} : Begin(c)
    /\ mode = "Connected"
    /\ Finish("client_side")
    /\ UNCHANGED <<mode, shared, task, network, history>>

\* push_waiter: the waiter is registered before the request is sent.
PushWaiter(k) == waiters' = [waiters EXCEPT ![k] = Append(@, ncmds + 1)]

\* subscribe, publish_1 and publish_2 up to the send.
StartAcked ==
    /\ mode = "Connected"
    /\ \E c \in {"subscribe", "publish_1", "publish_2"} :
          /\ Begin(c)
          /\ PushWaiter(AckOf(c))
    /\ pc' = "send" /\ rx' = "pending" /\ outcome' = "none"
    /\ UNCHANGED <<mode, requests, inbox, disc, task, network, history>>

\* publish_0 and disconnect send without a waiter.
StartUnacked ==
    /\ mode = "Connected"
    /\ \E c \in {"publish_0", "disconnect"} : Begin(c)
    /\ pc' = "send" /\ rx' = "none" /\ outcome' = "none"
    /\ UNCHANGED <<mode, shared, task, network, history>>

StartReceive ==
    /\ mode = "Connected"
    /\ \E c \in {"receive_publish", "receive_disconnect"} : Begin(c)
    /\ pc' = "recv" /\ rx' = "none" /\ outcome' = "none"
    /\ UNCHANGED <<mode, shared, task, network, history>>

\* ActorInstance::teardown, called once, after the last command.
TeardownDisconnected ==
    /\ pc = "idle" /\ cmd # "teardown" /\ mode = "Disconnected"
    /\ cmd' = "teardown"
    /\ UNCHANGED <<mode, pc, ncmds, rx, outcome, shared, task, network, history>>

TeardownConnected ==
    /\ pc = "idle" /\ cmd # "teardown" /\ mode = "Connected"
    /\ cmd' = "teardown" /\ pc' = "send" /\ outcome' = "none"
    /\ UNCHANGED <<mode, ncmds, rx, shared, task, network, history>>

Teardown == TeardownDisconnected \/ TeardownConnected

\* The request is accepted by the channel; a full channel makes the send wait.
SendAcked ==
    /\ pc = "send" /\ AckOf(cmd) \in Acks
    /\ RequestsOpen /\ Len(requests) < REQUEST_CHANNEL_CAP
    /\ requests' = Append(requests, Request(AckOf(cmd), ncmds))
    /\ pc' = "await"
    /\ UNCHANGED <<mode, cmd, ncmds, rx, outcome, waiters, inbox, disc, task,
                   network, history>>

SendQos0 ==
    /\ pc = "send" /\ cmd = "publish_0"
    /\ RequestsOpen /\ Len(requests) < REQUEST_CHANNEL_CAP
    /\ requests' = Append(requests, Request(NoAck, ncmds))
    /\ Finish("ok")
    /\ UNCHANGED <<mode, cmd, ncmds, waiters, inbox, disc, task, network, history>>

\* disconnect and teardown ignore the result of the send, but they await it.
SendDisconnect ==
    /\ pc = "send" /\ cmd \in {"disconnect", "teardown"}
    /\ RequestsOpen => Len(requests) < REQUEST_CHANNEL_CAP
    /\ DropConnected
    /\ Finish("ok")
    /\ UNCHANGED <<cmd, ncmds, npubs, history>>

\* Mutant: the error path of a send forgets pop_waiter.
PopWaiterForgotten(k) == UNCHANGED waiters

\* pop_waiter on the error path of a send: drops the front entry, if any.
PopWaiter(k) ==
    waiters' = [waiters EXCEPT ![k] = IF @ = <<>> THEN @ ELSE Tail(@)]

SendAckedFails ==
    /\ pc = "send" /\ AckOf(cmd) \in Acks
    /\ ~RequestsOpen
    /\ PopWaiter(AckOf(cmd))
    /\ Finish("network")
    /\ UNCHANGED <<mode, cmd, ncmds, requests, inbox, disc, task, network, history>>

SendQos0Fails ==
    /\ pc = "send" /\ cmd = "publish_0"
    /\ ~RequestsOpen
    /\ Finish("network")
    /\ UNCHANGED <<mode, cmd, ncmds, shared, task, network, history>>

\* Mutant: a timeout is put around rx.await and the waiter is not withdrawn.
AwaitAckOrTimeout ==
    /\ pc = "await"
    /\ Finish(IF rx = "pending" THEN "timeout" ELSE rx)
    /\ UNCHANGED <<mode, cmd, ncmds, shared, task, network, history>>

\* rx.await: no timeout; it returns once the waiter's sender was used.
AwaitAck ==
    /\ pc = "await" /\ rx # "pending"
    /\ Finish(rx)
    /\ UNCHANGED <<mode, cmd, ncmds, shared, task, network, history>>

\* receive_publish: a buffered message first, then the closed channel, and the
\* timeout only while neither is there.
ReceivePublish ==
    /\ pc = "recv" /\ cmd = "receive_publish"
    /\ inbox # <<>>
    /\ inbox' = Tail(inbox) /\ got' = Head(inbox)
    /\ Finish("ok")
    /\ UNCHANGED <<mode, cmd, ncmds, waiters, requests, disc, task, network,
                   accepted, rejected, sawDisc>>

\* Mutant: receive_publish ends the session on a closed channel, as
\* receive_disconnect does.
ReceivePublishEmptyEndsSession ==
    /\ pc = "recv" /\ cmd = "receive_publish"
    /\ inbox = <<>> /\ ~InboxesOpen
    /\ DropConnected
    /\ Finish("network")
    /\ UNCHANGED <<cmd, ncmds, npubs, history>>

ReceivePublishEmpty ==
    /\ pc = "recv" /\ cmd = "receive_publish"
    /\ inbox = <<>>
    /\ Finish(IF InboxesOpen THEN "timeout" ELSE "network")
    /\ UNCHANGED <<mode, cmd, ncmds, shared, task, network, history>>

\* receive_disconnect: a packet or the closed channel ends the session, a
\* timeout keeps it.
ReceiveDisconnect ==
    /\ pc = "recv" /\ cmd = "receive_disconnect"
    /\ disc # <<>> \/ ~InboxesOpen
    /\ DropConnected
    /\ Finish(IF disc # <<>> THEN "ok" ELSE "network")
    /\ UNCHANGED <<cmd, ncmds, npubs, history>>

ReceiveDisconnectTimeout ==
    /\ pc = "recv" /\ cmd = "receive_disconnect"
    /\ disc = <<>> /\ InboxesOpen
    /\ Finish("timeout")
    /\ UNCHANGED <<mode, cmd, ncmds, shared, task, network, history>>

-----------------------------------------------------------------------------
(* Loop task: run_event_loop.                                              *)

\* poll writes the next request; the connection may already be gone.
PollRequest ==
    /\ loop = "poll" /\ requests # <<>>
    /\ requests' = Tail(requests)
    /\ unacked' = IF link = "up" /\ Head(requests).ack \in Acks
                  THEN unacked \cup {Head(requests)} ELSE unacked
    /\ UNCHANGED <<actor, waiters, inbox, disc, task, wire, link, npubs, history>>

\* poll returns an incoming packet of type t.
PollPacket(t) ==
    /\ loop = "poll" /\ wire # <<>>
    /\ Head(wire).type = t
    /\ wire' = Tail(wire)

PollPublish ==
    /\ PollPacket("publish")
    /\ loop' = "deliver" /\ held' = Head(wire).id
    /\ UNCHANGED <<actor, shared, unacked, link, npubs, history>>

\* Mutant: the inbox is an unbounded channel.
DeliverUnbounded ==
    /\ loop = "deliver"
    /\ inbox' = Append(inbox, held)
    /\ loop' = "poll" /\ held' = 0
    /\ UNCHANGED <<actor, waiters, requests, disc, network, history>>

\* Mutant: try_send, which loses the message when the inbox is full.
DeliverOrLose ==
    /\ loop = "deliver"
    /\ inbox' = IF Len(inbox) < INBOX_CAP THEN Append(inbox, held) ELSE inbox
    /\ loop' = "poll" /\ held' = 0
    /\ UNCHANGED <<actor, waiters, requests, disc, network, history>>

\* publish_tx.send(p).await: waits while the inbox is full.
DeliverPublish ==
    /\ loop = "deliver" /\ Len(inbox) < INBOX_CAP
    /\ inbox' = Append(inbox, held)
    /\ loop' = "poll" /\ held' = 0
    /\ UNCHANGED <<actor, waiters, requests, disc, network, history>>

\* Mutant: PUBCOMP pops the queue of PUBACK.
WakeWrongQueue(k, v) ==
    LET q == IF k = "qos2" THEN "qos1" ELSE k
    IN  IF waiters[q] = <<>>
        THEN UNCHANGED <<waiters, rx>>
        ELSE /\ waiters' = [waiters EXCEPT ![q] = Tail(@)]
             /\ rx' = IF Head(waiters[q]) = ncmds THEN v ELSE rx

\* An ack pops the front waiter of its queue and resolves it; v is what
\* suback_outcome, puback_outcome or pubcomp_outcome says.
WakeWaiter(k, v) ==
    IF waiters[k] = <<>>
    THEN UNCHANGED <<waiters, rx>>
    ELSE /\ waiters' = [waiters EXCEPT ![k] = Tail(@)]
         /\ rx' = IF Head(waiters[k]) = ncmds THEN v ELSE rx

PollAck ==
    /\ PollPacket("ack")
    /\ WakeWaiter(Head(wire).ack, "ok")
    /\ UNCHANGED <<mode, pc, cmd, ncmds, outcome, requests, inbox, disc, task,
                   unacked, link, npubs, history>>

\* Mutant: the reason code of the ack is not looked at.
PollNackAsAck ==
    /\ PollPacket("nack")
    /\ WakeWaiter(Head(wire).ack, "ok")
    /\ UNCHANGED <<mode, pc, cmd, ncmds, outcome, requests, inbox, disc, task,
                   unacked, link, npubs, history>>

PollNack ==
    /\ PollPacket("nack")
    /\ WakeWaiter(Head(wire).ack, "mqtt")
    /\ UNCHANGED <<mode, pc, cmd, ncmds, outcome, requests, inbox, disc, task,
                   unacked, link, npubs, history>>

\* A refused QoS-2 publish ends with PUBREC, which falls under `_ => {}`.
PollPubRec ==
    /\ PollPacket("pubrec")
    /\ UNCHANGED <<actor, shared, task, unacked, link, npubs, history>>

\* Mutant: a DISCONNECT is treated as any other connection error.
PollDisconnectAsError ==
    /\ PollPacket("disconnect")
    /\ sawDisc' = TRUE
    /\ loop' = "failSub"
    /\ UNCHANGED <<actor, shared, held, unacked, link, npubs, accepted, rejected, got>>

\* DISCONNECT, as a packet or as StateError::ServerDisconnect: into the inbox,
\* then the waiters are failed.
PollDisconnect ==
    /\ PollPacket("disconnect")
    /\ disc' = Append(disc, "reason")
    /\ sawDisc' = TRUE
    /\ loop' = "failSub"
    /\ UNCHANGED <<actor, waiters, requests, inbox, held, unacked, link, npubs,
                   accepted, rejected, got>>

\* Any other connection error.
PollError ==
    /\ loop = "poll" /\ link = "down" /\ wire = <<>>
    /\ loop' = "failSub"
    /\ UNCHANGED <<actor, shared, held, network, history>>

\* fail_all_with takes the lock of one queue after the other.
FailQueue(at, k, next) ==
    /\ loop = at
    /\ waiters' = [waiters EXCEPT ![k] = <<>>]
    /\ rx' = IF \E i \in DOMAIN waiters[k] : waiters[k][i] = ncmds
             THEN "network" ELSE rx
    /\ loop' = next
    /\ UNCHANGED <<mode, pc, cmd, ncmds, outcome, requests, inbox, disc, held,
                   network, history>>

FailAll ==
    \/ FailQueue("failSub", "sub", "failQos1")
    \/ FailQueue("failQos1", "qos1", "failQos2")
    \/ FailQueue("failQos2", "qos2", "exitInboxes")

\* The task returns: its parameters are dropped, last to first.
DropInboxes ==
    /\ loop = "exitInboxes" /\ loop' = "exitRequests"
    /\ UNCHANGED <<actor, shared, held, network, history>>

DropEventLoop ==
    /\ loop = "exitRequests" /\ loop' = "done"
    /\ requests' = <<>>
    /\ UNCHANGED <<actor, waiters, inbox, disc, held, network, history>>

-----------------------------------------------------------------------------
(* The broker and the network (external).                                  *)

BrokerAccepts ==
    /\ link = "up"
    /\ \E r \in unacked :
          /\ unacked' = unacked \ {r}
          /\ wire' = Append(wire, Packet("ack", r.ack, r.id))
          /\ accepted' = accepted \cup {r.id}
    /\ UNCHANGED <<actor, shared, task, link, npubs, rejected, got, sawDisc>>

BrokerRejects ==
    /\ link = "up"
    /\ \E r \in unacked :
          /\ r.ack # "qos2"
          /\ unacked' = unacked \ {r}
          /\ wire' = Append(wire, Packet("nack", r.ack, r.id))
          /\ rejected' = rejected \cup {r.id}
    /\ UNCHANGED <<actor, shared, task, link, npubs, accepted, got, sawDisc>>

BrokerRejectsQos2 ==
    /\ link = "up" /\ BrokerMayRejectQos2
    /\ \E r \in unacked :
          /\ r.ack = "qos2"
          /\ unacked' = unacked \ {r}
          /\ wire' = Append(wire, Packet("pubrec", r.ack, r.id))
          /\ rejected' = rejected \cup {r.id}
    /\ UNCHANGED <<actor, shared, task, link, npubs, accepted, got, sawDisc>>

BrokerPublishes ==
    /\ link = "up" /\ npubs < MaxPublishes
    /\ npubs' = npubs + 1
    /\ wire' = Append(wire, Packet("publish", NoAck, npubs + 1))
    /\ UNCHANGED <<actor, shared, task, unacked, link, history>>

BrokerDisconnects ==
    /\ link = "up" /\ LinkMayFail
    /\ wire' = Append(wire, Packet("disconnect", NoAck, 0))
    /\ link' = "closing"
    /\ UNCHANGED <<actor, shared, task, unacked, npubs, history>>

\* The connection drops: a prefix of what was sent still arrives.
LinkFails ==
    /\ link \in {"up", "closing"} /\ LinkMayFail
    /\ link' = "down"
    /\ \E n \in 0..Len(wire) : wire' = SubSeq(wire, 1, n)
    /\ UNCHANGED <<actor, shared, task, unacked, npubs, history>>

-----------------------------------------------------------------------------
ActorStarts ==
    \/ NotImplemented \/ ConnectFails \/ ConnectSucceeds \/ RejectClientSide
    \/ StartAcked \/ StartUnacked \/ StartReceive

ActorSteps ==
    \/ SendAcked \/ SendQos0 \/ SendDisconnect \/ SendAckedFails \/ SendQos0Fails
    \/ AwaitAck
    \/ ReceivePublish \/ ReceivePublishEmpty
    \/ ReceiveDisconnect \/ ReceiveDisconnectTimeout

LoopSteps ==
    \/ PollRequest \/ PollPublish \/ DeliverPublish \/ PollAck \/ PollNack
    \/ PollPubRec \/ PollDisconnect \/ PollError
    \/ FailAll \/ DropInboxes \/ DropEventLoop

BrokerAnswers == BrokerAccepts \/ BrokerRejects \/ BrokerRejectsQos2

BrokerSteps ==
    BrokerAnswers \/ BrokerPublishes \/ BrokerDisconnects \/ LinkFails

\* After the teardown the actor is gone; nothing is left to do.
Terminated == cmd = "teardown" /\ pc = "idle" /\ UNCHANGED vars

Next == ActorStarts \/ ActorSteps \/ Teardown \/ LoopSteps \/ BrokerSteps \/ Terminated

Spec == Init /\ [][Next]_vars

\* tokio runs a task that can make progress; the harness always ends with the
\* teardown; the broker answers every request it has received.
Fairness ==
    /\ WF_vars(ActorSteps)
    /\ WF_vars(Teardown)
    /\ WF_vars(LoopSteps)
    /\ WF_vars(BrokerAnswers)

FairSpec == Spec /\ Fairness
-----------------------------------------------------------------------------
(* Properties.                                                             *)

ActorOK ==
    /\ mode \in {"Disconnected", "Connected"}
    /\ pc \in {"idle", "send", "await", "recv"}
    /\ cmd \in Commands \cup {"none", "teardown"}
    /\ ncmds \in Nat
    /\ rx \in {"none", "pending", "ok", "mqtt", "network"}
    /\ outcome \in Outcomes

Requests == [ack : Acks \cup {NoAck}, id : Nat]

SharedOK ==
    /\ waiters \in [Acks -> Seq(Nat)]
    /\ requests \in Seq(Requests) /\ Len(requests) <= REQUEST_CHANNEL_CAP
    /\ inbox \in Seq(Nat) /\ Len(inbox) <= INBOX_CAP
    /\ disc \in Seq({"reason"}) /\ Len(disc) <= 1

TaskOK ==
    /\ loop \in {"none", "poll", "deliver", "failSub", "failQos1", "failQos2",
                 "exitInboxes", "exitRequests", "done"}
    /\ held \in Nat

\* An acknowledgement names the queue it belongs to.
Packets ==
    [type : {"ack", "nack", "pubrec"}, ack : Acks, id : Nat]
        \cup [type : {"publish", "disconnect"}, ack : {NoAck}, id : Nat]

NetworkOK ==
    /\ wire \in Seq(Packets)
    /\ unacked \subseteq [ack : Acks, id : Nat]
    /\ link \in {"none", "up", "closing", "down"}
    /\ npubs \in Nat

HistoryOK ==
    /\ accepted \subseteq Nat /\ rejected \subseteq Nat
    /\ got \in Nat /\ sawDisc \in BOOLEAN

\* Types and capacities: no channel ever holds more than its capacity.  The
\* disconnect inbox has room for one packet and is never sent a second one, so
\* the loop's send to it, unlike the one to the publish inbox, never waits.
TypeOK == ActorOK /\ SharedOK /\ TaskOK /\ NetworkOK /\ HistoryOK

\* The waiter queues hold the waiter of the command in progress while its
\* oneshot is unresolved, and nothing else: no waiter leaks from a command
\* whose send failed, and the queue never holds the waiter of another command.
Waits(k) == pc \in {"send", "await"} /\ AckOf(cmd) = k /\ rx = "pending"

WaiterOwned ==
    \A k \in Acks : waiters[k] = IF Waits(k) THEN <<ncmds>> ELSE <<>>

\* While the loop reads packets, whatever an ack can still come from (a queued
\* request, a request at the broker, an ack on the wire) belongs to the command
\* that awaits it, and there is at most one.  So "popping the front of the
\* matching queue when an ack arrives wakes the right caller".
LoopReads == loop \in {"poll", "deliver"}
OwnedAck(r) == pc = "await" /\ rx = "pending" /\ r.ack = AckOf(cmd) /\ r.id = ncmds
AckRequests == {i \in DOMAIN requests : requests[i].ack \in Acks}
AckPackets == {i \in DOMAIN wire : wire[i].type \in {"ack", "nack"}}

NoStaleAck ==
    LoopReads =>
        /\ \A i \in AckRequests : OwnedAck(requests[i])
        /\ \A r \in unacked : OwnedAck(r)
        /\ \A i \in AckPackets : OwnedAck(wire[i])
        /\ \A i, j \in AckRequests : i = j
        /\ \A i, j \in AckPackets : i = j
        /\ AckRequests # {} => unacked = {} /\ AckPackets = {}
        /\ unacked # {} => AckPackets = {}

\* An acknowledged command reports the broker's own verdict on that command:
\* `ok` only when the broker accepted it, a broker error only when it refused.
VerdictIsBrokers ==
    pc = "idle" /\ AckOf(cmd) \in Acks =>
        /\ outcome = "ok" => ncmds \in accepted
        /\ outcome = "mqtt" => ncmds \in rejected

\* The publishes among the packets w are those numbered first + 1 to last, in this
\* order.
Numbered(w, first, last) ==
    LET At == {i \in DOMAIN w : w[i].type = "publish"}
    IN  /\ \A i, j \in At : i < j => w[i].id < w[j].id
        /\ {w[i].id : i \in At} = (first + 1)..last

\* What the loop has read and receive_publish has not returned yet.
Read == inbox \o (IF loop = "deliver" THEN <<held>> ELSE <<>>)

\* Publishes reach receive_publish in the order the broker sent them and none
\* is skipped, also when the inbox was full; while the connection is up none
\* is missing from the pipeline wire -> loop -> inbox.
PublishesInOrder ==
    mode = "Connected" =>
        /\ \A i \in DOMAIN Read : Read[i] = got + i
        /\ \E last \in (got + Len(Read))..npubs :
              /\ Numbered(wire, got + Len(Read), last)
              /\ link = "up" => last = npubs

\* Once the loop has read the broker's DISCONNECT, receive_disconnect never
\* reports connection_lost for that session: it reports the packet.
DisconnectReasonKept ==
    pc = "idle" /\ cmd = "receive_disconnect" /\ outcome = "network" => ~sawDisc

\* The three ways a command can wait for good: its waiter was registered after
\* the loop had drained that queue (NoOrphanWaiter below); the loop waits for
\* room in the publish inbox (LoopPassesPublish below); the broker refused a
\* QoS-2 publish with PUBREC, which the loop ignores.
Orphaned == loop = "done" /\ pc = "await" /\ rx = "pending"
Overrun  == loop = "deliver" /\ Len(inbox) = INBOX_CAP
Refused  == cmd = "publish_2" /\ pc = "await" /\ ncmds \in rejected

\* Whatever the connection and the broker do, every command and the teardown
\* return, also through a full request channel; there is no fourth way to hang.
CommandReturns ==
    (pc # "idle") ~> (pc = "idle" \/ Orphaned \/ Overrun \/ Refused)

\* "Resolve every pending waiter on every queue with the same error, used when
\* the connection drops and nothing further can ack": once the loop task is
\* gone no command may be left awaiting an unresolved waiter.
NoOrphanWaiter == ~Orphaned

\* "If the inbox is full or the receiver was dropped, the message is lost": the
\* loop always gets past a publish it has read, whatever the inbox holds.
LoopPassesPublish == (loop = "deliver") ~> (loop # "deliver")

\* The instance implements the contract the harness relies on: whatever the two
\* tasks and the broker do, a command returns with an outcome and a mode of the
\* runtime table (MqttResults of ActorTypes).
ContractOutcome(o) ==
    IF o \in {"none", "ok", "not_implemented"} THEN o ELSE "error"

Contract == INSTANCE ActorContract WITH
    Type   <- "mqtt_client",
    amode  <- IF mode = "Connected" THEN "connected" ELSE "disconnected",
    call   <- IF pc # "idle" THEN cmd
              ELSE IF cmd = "teardown" THEN "torn" ELSE "none",
    result <- ContractOutcome(outcome)

ContractSpec == Contract!ASpec
=============================================================================
