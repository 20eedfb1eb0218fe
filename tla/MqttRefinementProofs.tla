------------------------ MODULE MqttRefinementProofs ------------------------
(***************************************************************************)
(* MqttClient implements the contract of an actor instance, for every      *)
(* capacity and every bound.                                               *)
(***************************************************************************)
EXTENDS MqttClientProofs

amode == IF mode = "Connected" THEN "connected" ELSE "disconnected"
acall == IF pc # "idle" THEN cmd ELSE IF cmd = "teardown" THEN "torn" ELSE "none"
aresult == ContractOutcome(outcome)

\* The rows of the runtime table, one by one.
LEMMA Table ==
    /\ Contract!CommandsOf("mqtt_client") = Commands
    /\ \A c \in Commands \ {"connect"} :
          <<"not_implemented", "disconnected">>
             \in Contract!Results("mqtt_client", "disconnected", c)
    /\ <<"not_implemented", "connected">> \in Contract!Results("mqtt_client", "connected", "connect")
    /\ <<"ok", "connected">> \in Contract!Results("mqtt_client", "disconnected", "connect")
    /\ <<"error", "disconnected">> \in Contract!Results("mqtt_client", "disconnected", "connect")
    /\ \A c \in {"subscribe", "publish_0", "publish_1", "publish_2", "receive_publish"} :
          \A o \in {"ok", "error"} :
             <<o, "connected">> \in Contract!Results("mqtt_client", "connected", c)
    /\ <<"ok", "disconnected">> \in Contract!Results("mqtt_client", "connected", "disconnect")
    /\ \A o \in {"ok", "error"} :
          <<o, "disconnected">> \in Contract!Results("mqtt_client", "connected", "receive_disconnect")
    /\ <<"error", "connected">> \in Contract!Results("mqtt_client", "connected", "receive_disconnect")
<1>1. Contract!CommandsOf("mqtt_client") = Commands
  <2>1. Contract!CommandTable["mqtt_client"] = Contract!MqttCommands
    BY DEF Contract!CommandTable
  <2>2. DOMAIN Contract!MqttCommands = Commands
    BY DEF Contract!MqttCommands, Commands
  <2> QED BY <2>1, <2>2 DEF Contract!CommandsOf, Contract!Types
<1> QED
  BY <1>1 DEF Commands, Contract!Results, Contract!MqttResults, Contract!MqttTraffic
-----------------------------------------------------------------------------
(* A step of the client is a call, a return, both, the end, or a stutter.  *)

LEMMA ContractCall ==
    ASSUME acall = "none", acall' \in Commands \cup {"teardown"}, aresult' = "none",
           amode' = amode
    PROVE  Contract!ANext
BY Table DEF amode, acall, aresult, Contract!ANext, Contract!Call

LEMMA ContractReturn ==
    ASSUME NEW c \in Commands, acall \in {"none", c}, acall' = "none",
           <<aresult', amode'>> \in Contract!Results("mqtt_client", amode, c)
    PROVE  Contract!ANext
BY Table DEF amode, acall, aresult, Contract!ANext, Contract!Return, Contract!CallAndReturn,
             Contract!Returns, Commands

LEMMA ContractTorn ==
    ASSUME acall \in {"none", "teardown"}, acall' = "torn", amode' = "disconnected",
           aresult' \in {"none", "ok", "error", "not_implemented"}
    PROVE  Contract!ANext
BY DEF amode, acall, aresult, Contract!ANext, Contract!TornDown, Contract!InitialMode

LEMMA ContractStutter ==
    ASSUME UNCHANGED <<mode, pc, cmd, outcome>>
    PROVE  UNCHANGED Contract!avars
BY DEF Contract!avars, ContractOutcome

LEMMA RefineStarts ==
    ASSUME TypeInv, ActorStarts
    PROVE  Contract!ANext
<1> USE DEF Begin, Finish
<1>1. CASE NotImplemented
  <2>1. PICK c \in Commands : Begin(c) /\ (mode = "Disconnected") # (c = "connect")
    BY <1>1 DEF NotImplemented
  <2>2. acall = "none" /\ acall' = "none" /\ amode' = amode /\ aresult' = "not_implemented"
    BY <1>1, <2>1 DEF NotImplemented, acall, amode, aresult, ContractOutcome, Commands
  <2>3. <<aresult', amode'>> \in Contract!Results("mqtt_client", amode, c)
    BY <2>1, <2>2, Table DEF amode, TypeInv, TypeOK, ActorOK
  <2> QED
    BY <2>2, <2>3, ContractReturn
<1>2. CASE ConnectFails \/ ConnectSucceeds
  <2>1. acall = "none" /\ acall' = "none" /\ amode = "disconnected"
    BY <1>2 DEF ConnectFails, ConnectSucceeds, acall, amode
  <2>2. <<aresult', amode'>> \in Contract!Results("mqtt_client", amode, "connect")
    BY <1>2, <2>1, Table DEF ConnectFails, ConnectSucceeds, SpawnConnected, amode, aresult,
                             ContractOutcome
  <2> QED
    BY <2>1, <2>2, ContractReturn DEF Commands
<1>3. CASE RejectClientSide
  <2>1. PICK c \in {"subscribe", "publish_0", "publish_1", "publish_2"} : Begin(c)
    BY <1>3 DEF RejectClientSide
  <2>2. acall = "none" /\ acall' = "none" /\ amode = "connected" /\ amode' = "connected"
        /\ aresult' = "error"
    BY <1>3, <2>1 DEF RejectClientSide, acall, amode, aresult, ContractOutcome
  <2> QED
    BY <2>2, Table, ContractReturn DEF Commands
<1>4. CASE StartAcked \/ StartUnacked \/ StartReceive
  <2>1. acall = "none" /\ acall' \in Commands
    BY <1>4 DEF StartAcked, StartUnacked, StartReceive, acall, Commands
  <2>2. aresult' = "none" /\ amode' = amode
    BY <1>4 DEF StartAcked, StartUnacked, StartReceive, aresult, amode, ContractOutcome
  <2> QED
    BY <2>1, <2>2, ContractCall
<1> QED
  BY <1>1, <1>2, <1>3, <1>4 DEF ActorStarts

LEMMA RefineTeardown ==
    ASSUME TypeInv, Teardown
    PROVE  Contract!ANext
<1>1. CASE TeardownDisconnected
  BY <1>1, ContractTorn DEF TeardownDisconnected, acall, amode, aresult, ContractOutcome,
                            TypeInv, TypeOK, ActorOK, Outcomes
<1>2. CASE TeardownConnected
  BY <1>2, ContractCall DEF TeardownConnected, acall, amode, aresult, ContractOutcome
<1> QED
  BY <1>1, <1>2 DEF Teardown

\* The command in progress returns; its session is the one it began in.
LEMMA RefineReturns ==
    ASSUME TypeInv, SessionInv, ActorSteps, ~SendAcked
    PROVE  Contract!ANext
<1> USE DEF Finish
<1>1. pc # "idle" /\ amode = "connected" /\ acall = cmd /\ pc' = "idle" /\ cmd' = cmd
  BY DEF ActorSteps, SendQos0, SendDisconnect, SendAckedFails, SendQos0Fails, AwaitAck,
     ReceivePublish, ReceivePublishEmpty, ReceiveDisconnect, ReceiveDisconnectTimeout,
     amode, acall, SessionInv, PcInv
<1>2. CASE SendQos0 \/ SendAckedFails \/ SendQos0Fails \/ AwaitAck \/ ReceivePublish
           \/ ReceivePublishEmpty
  <2>1. cmd \in {"subscribe", "publish_0", "publish_1", "publish_2", "receive_publish"}
    BY <1>2 DEF SendQos0, SendAckedFails, SendQos0Fails, AwaitAck, ReceivePublish,
       ReceivePublishEmpty, AckOf, Acks, NoAck, SessionInv, PcInv
  <2>2. amode' = "connected"
    BY <1>1, <1>2 DEF SendQos0, SendAckedFails, SendQos0Fails, AwaitAck, ReceivePublish,
       ReceivePublishEmpty, amode
  <2>3. aresult' \in {"ok", "error"}
    BY <1>2 DEF SendQos0, SendAckedFails, SendQos0Fails, AwaitAck, ReceivePublish,
       ReceivePublishEmpty, aresult, ContractOutcome, SessionInv, PcInv, TypeInv, TypeOK, ActorOK
  <2>4. acall' = "none"
    BY <1>1, <2>1 DEF acall
  <2> QED
    BY <1>1, <2>1, <2>2, <2>3, <2>4, Table, ContractReturn DEF Commands
<1>3. CASE SendDisconnect
  <2>1. cmd \in {"disconnect", "teardown"} /\ amode' = "disconnected" /\ aresult' = "ok"
    BY <1>3 DEF SendDisconnect, DropConnected, amode, aresult, ContractOutcome
  <2>2. CASE cmd = "disconnect"
    BY <1>1, <2>1, <2>2, Table, ContractReturn DEF acall, Commands
  <2>3. CASE cmd = "teardown"
    BY <1>1, <2>1, <2>3, ContractTorn DEF acall
  <2> QED
    BY <2>1, <2>2, <2>3
<1>4. CASE ReceiveDisconnect \/ ReceiveDisconnectTimeout
  <2>1. cmd = "receive_disconnect" /\ acall' = "none"
    BY <1>1, <1>4 DEF ReceiveDisconnect, ReceiveDisconnectTimeout, acall
  <2>2. \/ aresult' \in {"ok", "error"} /\ amode' = "disconnected"
        \/ aresult' = "error" /\ amode' = "connected"
    BY <1>1, <1>4 DEF ReceiveDisconnect, ReceiveDisconnectTimeout, DropConnected, amode,
                      aresult, ContractOutcome
  <2> QED
    BY <1>1, <2>1, <2>2, Table, ContractReturn DEF Commands
<1> QED
  BY <1>2, <1>3, <1>4 DEF ActorSteps

LEMMA RefineStep ==
    ASSUME TypeInv, SessionInv, [Next]_vars
    PROVE  [Contract!ANext]_(Contract!avars)
<1>1. CASE SendAcked
  <2>1. UNCHANGED <<mode, cmd, outcome>> /\ acall' = acall
    BY <1>1 DEF SendAcked, acall
  <2> QED
    BY <2>1 DEF acall, Contract!avars, ContractOutcome
<1>2. CASE LoopSteps \/ BrokerSteps \/ UNCHANGED vars
  <2>1. UNCHANGED <<mode, pc, cmd, outcome>>
    BY <1>2 DEF LoopSteps, PollRequest, PollPublish, DeliverPublish, PollAck, PollNack,
       PollPubRec, PollDisconnect, PollError, FailAll, FailQueue, DropInboxes,
       DropEventLoop, BrokerSteps, BrokerAnswers, BrokerAccepts, BrokerRejects,
       BrokerRejectsQos2, BrokerPublishes, BrokerDisconnects, LinkFails, vars, actor
  <2> QED
    BY <2>1, ContractStutter
<1> QED
  BY <1>1, <1>2, RefineStarts, RefineTeardown, RefineReturns DEF Next, Terminated

\* Whatever the two tasks, the broker and the network do, the client behaves as
\* the harness expects of an actor instance: one call at a time, each returning
\* with an outcome and a mode of the runtime table, and the teardown last.
THEOREM ClientMeetsContract == Spec => ContractSpec
<1>1. Init => Contract!AInit
  BY DEF Init, Contract!AInit, Contract!InitialMode, ContractOutcome
<1> QED
  BY <1>1, RefineStep, TypeInvariant, SessionInvariant, PTL
     DEF Spec, ContractSpec, Contract!ASpec
=============================================================================
