------------------------------- MODULE Host_proofs -------------------------------
(***************************************************************************)
(* Proofs about the PC-agent client and its agent, for any topics and any  *)
(* number of messages in flight: the types, that HOST_UP is said only of a *)
(* connection whose hello was accepted and, where no send is given up,     *)
(* that a subscription is applied as soon as nothing is on its way.        *)
(***************************************************************************)
EXTENDS Host, SeqLemmas

(* No connection, nothing of one: what it carried and what the agent knew  *)
(* of it are gone with it, and an agent that has not had its hello has not *)
(* answered. The client's task subscribes only where it is up.             *)
Linked ==
  /\ link => client
  /\ ~link => session = "none" /\ toAgent = <<>> /\ toDevice = <<>> /\ subs = {}
  /\ session = "open" => toDevice = <<>>
  /\ ws # "idle" => state = "up" /\ link

UpInv == TypeOK /\ Linked /\ UpIsAccepted

-----------------------------------------------------------------------------
(* The types.                                                              *)

LEMMA MessageTypes ==
  /\ \A t \in Tokens : [type |-> "hello", token |-> t] \in Messages
  /\ \A topics \in SUBSET Topics : Subscribe(topics) \in Messages
  /\ [type |-> "hello_ack"] \in Messages /\ [type |-> "error"] \in Messages
  /\ \A topic \in Supported : [type |-> "data", topic |-> topic] \in Messages
BY DEF Messages, Subscribe

LEMMA Taken ==
  ASSUME NEW q, InFlight(q), q # <<>>
  PROVE  InFlight(Tail(q))
<1>1. q \in Seq(Messages) /\ Len(q) <= MaxInFlight
  BY DEF InFlight
<1>2. Tail(q) \in Seq(Messages) /\ Len(Tail(q)) = Len(q) - 1 /\ Len(q) \in Nat
  BY <1>1, TakenOut, Zenon
<1> QED BY <1>1, <1>2, HostAssumption DEF HostAssumption, InFlight

LEMMA Put ==
  ASSUME NEW q, InFlight(q), HasRoom(q), NEW m \in Messages
  PROVE  InFlight(Append(q, m))
<1>1. q \in Seq(Messages)
  BY DEF InFlight
<1>2. Append(q, m) \in Seq(Messages) /\ Len(Append(q, m)) = Len(q) + 1 /\ Len(q) \in Nat
  BY <1>1, PutIn
<1> QED BY <1>2, HostAssumption DEF HostAssumption, HasRoom, InFlight

LEMMA Fresh ==
  \A q : q = <<>> \/ (\E t \in Tokens : q = <<[type |-> "hello", token |-> t]>>) => InFlight(q)
<1>1. <<>> \in Seq(Messages) /\ Len(<<>>) = 0
  OBVIOUS
<1>2. ASSUME NEW m \in Messages  PROVE <<m>> \in Seq(Messages) /\ Len(<<m>>) = 1
  OBVIOUS
<1>3. 0 <= MaxInFlight /\ 1 <= MaxInFlight
  BY HostAssumption DEF HostAssumption
<1> QED BY <1>1, <1>2, <1>3, MessageTypes, Zenon DEF InFlight

LEMMA Counts ==
  /\ 0 \in 0 .. FailThreshold /\ 0 \in 0 .. MaxFaults
  /\ TypeOK => Failed(streak) \in 0 .. FailThreshold
  /\ TypeOK /\ faults < MaxFaults => faults + 1 \in 0 .. MaxFaults
BY HostAssumption DEF HostAssumption, TypeOK, Failed

LEMMA InitTyped == Init => TypeOK
BY Counts, Fresh DEF Init, TypeOK, Tokens

LEMMA NextTyped == TypeOK /\ [Next]_vars => TypeOK'
<1> SUFFICES ASSUME TypeOK, [Next]_vars PROVE TypeOK'
  OBVIOUS
<1> USE DEF confVars, supVars, uiVars, wsVars, wireVars, agentVars, envVars
<1>1. CASE Supervisor
  <2>1. CASE SupToken \/ SupStop
    <3>1. Teardown => /\ InFlight(toAgent') /\ InFlight(toDevice')
                      /\ client' \in BOOLEAN /\ state' \in {"down", "connecting", "up"}
                      /\ link' \in BOOLEAN /\ session' \in {"none", "open", "accepted"}
                      /\ subs' \in SUBSET Supported
      BY Fresh DEF Teardown, Unplug, TypeOK
    <3> QED BY <2>1, <3>1 DEF SupToken, SupStop, TypeOK
  <2>2. CASE SupFatal
    <3>1. /\ sup' \in {"stop", "find"} /\ fatal' \in BOOLEAN
          /\ UNCHANGED <<confVars, state, client, streak, uiVars, wsVars, link, wireVars,
                         agentVars, envVars>>
      BY <2>2 DEF SupFatal
    <3> QED BY <3>1 DEF TypeOK
  <2>3. CASE SupFind
    <3>1. /\ client' \in BOOLEAN /\ streak' \in 0 .. FailThreshold
          /\ state' \in {"down", "connecting", "up"}
      BY <2>3, Counts DEF SupFind, TypeOK
    <3>2. /\ sup' = "token"
          /\ UNCHANGED <<confVars, fatal, uiVars, wsVars, link, wireVars, agentVars, envVars>>
      BY <2>3 DEF SupFind
    <3> QED BY <3>1, <3>2 DEF TypeOK
  <2> QED BY <1>1, <2>1, <2>2, <2>3 DEF Supervisor
<1>2. CASE Connected
  BY <1>2, Fresh DEF Connected, TypeOK
<1>3. CASE ConnectFails \/ Disconnected
  BY <1>3, Counts, Fresh
     DEF ConnectFails, Disconnected, Unplug, TypeOK
<1>4. CASE HelloAck \/ Error \/ Data
  <2>1. InFlight(toDevice')
    BY <1>4, Taken DEF HelloAck, Error, Data, Receives, TypeOK
  <2>2. streak' \in 0 .. FailThreshold
    BY <1>4, Counts DEF HelloAck, Error, Data, TypeOK
  <2>3. CASE HelloAck
    BY <2>1, <2>2, <2>3 DEF HelloAck, TypeOK
  <2>4. CASE Error
    BY <2>1, <2>2, <2>4 DEF Error, TypeOK
  <2>5. CASE Data
    BY <2>1, <2>2, <2>5 DEF Data, TypeOK
  <2> QED BY <1>4, <2>3, <2>4, <2>5
<1>5. CASE WsSnapshot
  BY <1>5 DEF WsSnapshot, TypeOK
<1>6. CASE WsSend \/ UiSend
  <2>1. InFlight(toAgent')
    BY <1>6, Put, MessageTypes DEF WsSend, UiSend, TypeOK
  <2> QED BY <1>6, <2>1 DEF WsSend, UiSend, TypeOK
<1>7. CASE SetTopics \/ UiTest \/ UiSnapshot
  BY <1>7 DEF SetTopics, UiTest, UiSnapshot, TypeOK
<1>8. CASE AgentHello \/ AgentSubscribe
  <2>1. InFlight(toAgent')
    BY <1>8, Taken DEF AgentHello, AgentSubscribe, Gets, TypeOK
  <2>2. InFlight(toDevice')
    BY <1>8, Put, MessageTypes DEF AgentHello, AgentSubscribe, TypeOK
  <2>3. subs' \in SUBSET Supported /\ session' \in {"none", "open", "accepted"}
    BY <1>8 DEF AgentHello, AgentSubscribe, TypeOK
  <2> QED BY <1>8, <2>1, <2>2, <2>3 DEF AgentHello, AgentSubscribe, TypeOK
<1>9. CASE Widgets
  BY <1>9 DEF Widgets, OnData, TypeOK
<1>10. CASE World
  <2>1. ASSUME NEW topic \in Supported, AgentPush(topic)  PROVE TypeOK'
    <3>1. InFlight(toDevice')
      BY <2>1, Put, MessageTypes DEF AgentPush, TypeOK
    <3> QED BY <2>1, <3>1 DEF AgentPush, TypeOK
  <2>2. CASE AgentChanges
    BY <2>2, Fresh DEF AgentChanges, TypeOK
  <2>3. CASE Crash
    BY <2>3, Counts DEF Crash, TypeOK, Tokens
  <2>4. ASSUME NEW t \in Tokens, Repair(t)  PROVE TypeOK'
    BY <2>4 DEF Repair, TypeOK
  <2> QED BY <1>10, <1>3, <2>1, <2>2, <2>3, <2>4 DEF World
<1>11. CASE UNCHANGED vars
  BY <1>11 DEF vars, TypeOK
<1> QED BY <1>1, <1>2, <1>3, <1>4, <1>5, <1>6, <1>7, <1>8, <1>9, <1>10, <1>11
        DEF Next, Client, Lvgl, Agent

(* What the client's variables, the connection and the agent hold is       *)
(* always of its type, and no queue is longer than its bound.              *)
THEOREM HostTypeCorrect == Spec => []TypeOK
<1> QED BY InitTyped, NextTyped, PTL DEF Spec

-----------------------------------------------------------------------------
(* The connection.                                                         *)

LEMMA InitUp == Init => UpInv
BY InitTyped DEF Init, UpInv, Linked, UpIsAccepted

LEMMA NextUp == UpInv /\ [Next]_vars => UpInv'
<1> SUFFICES ASSUME UpInv, [Next]_vars PROVE UpInv'
  OBVIOUS
<1> USE DEF confVars, supVars, uiVars, wsVars, wireVars, agentVars, envVars
<1>t. TypeOK'
  BY NextTyped DEF UpInv
<1> SUFFICES Linked' /\ UpIsAccepted'
  BY <1>t DEF UpInv
<1>1. CASE Supervisor
  <2>1. CASE SupToken \/ SupStop
    BY <2>1 DEF SupToken, SupStop, Teardown, Unplug, UpInv, Linked, UpIsAccepted
  <2>2. CASE SupFatal \/ SupFind
    BY <2>2 DEF SupFatal, SupFind, UpInv, Linked, UpIsAccepted
  <2> QED BY <1>1, <2>1, <2>2 DEF Supervisor
<1>2. CASE Connected \/ ConnectFails
  BY <1>2 DEF Connected, ConnectFails, UpInv, Linked, UpIsAccepted
<1>3. CASE Disconnected
  BY <1>3 DEF Disconnected, Unplug, UpInv, Linked, UpIsAccepted
<1>4. CASE HelloAck
  <2>1. link /\ toDevice # <<>>
    BY <1>4 DEF HelloAck, Receives
  <2>2. session \in {"accepted", "none"} /\ client
    BY <2>1 DEF UpInv, TypeOK, Linked
  <2> QED BY <1>4, <2>1, <2>2 DEF HelloAck, UpInv, Linked, UpIsAccepted
<1>5. CASE Error \/ Data
  BY <1>5 DEF Error, Data, Receives, UpInv, Linked, UpIsAccepted
<1>6. CASE WsSnapshot \/ WsSend
  BY <1>6 DEF WsSnapshot, WsSend, UpInv, Linked, UpIsAccepted
<1>7. CASE Lvgl
  BY <1>7 DEF Lvgl, SetTopics, UiTest, UiSnapshot, UiSend, UpInv, Linked, UpIsAccepted
<1>8. CASE AgentHello
  <2>1. link /\ session' \in {"accepted", "none"}
    BY <1>8 DEF AgentHello, Gets, UpInv, Linked
  <2> QED BY <1>8, <2>1 DEF AgentHello, UpInv, Linked, UpIsAccepted
<1>9. CASE AgentSubscribe
  BY <1>9 DEF AgentSubscribe, Gets, UpInv, Linked, UpIsAccepted
<1>10. CASE Widgets
  BY <1>10 DEF Widgets, OnData, UpInv, Linked, UpIsAccepted
<1>11. CASE World
  <2>1. ASSUME NEW topic \in Supported, AgentPush(topic)  PROVE Linked' /\ UpIsAccepted'
    BY <2>1 DEF AgentPush, UpInv, Linked, UpIsAccepted
  <2>2. CASE AgentChanges
    BY <2>2 DEF AgentChanges, UpInv, Linked, UpIsAccepted
  <2>3. CASE Crash
    BY <2>3 DEF Crash, UpInv, Linked, UpIsAccepted
  <2>4. ASSUME NEW t \in Tokens, Repair(t)  PROVE Linked' /\ UpIsAccepted'
    BY <2>4 DEF Repair, UpInv, Linked, UpIsAccepted
  <2> QED BY <1>11, <1>3, <2>1, <2>2, <2>3, <2>4 DEF World
<1>12. CASE UNCHANGED vars
  BY <1>12 DEF vars, UpInv, Linked, UpIsAccepted
<1> QED BY <1>1, <1>2, <1>3, <1>4, <1>5, <1>6, <1>7, <1>8, <1>9, <1>10, <1>11, <1>12
        DEF Next, Client, Agent

(* HOST_UP means "handshake done" (host.h:14), whatever breaks, restarts   *)
(* or times out on the way: the agent took this very connection's hello,   *)
(* or the connection is gone and the device has yet to notice.             *)
THEOREM UpMeansAccepted == Spec => []UpIsAccepted
<1>1. UpInv => UpIsAccepted
  BY DEF UpInv
<1> QED BY InitUp, NextUp, <1>1, PTL DEF Spec

-----------------------------------------------------------------------------
(* What is on its way, where no send is given up.                          *)

(* The agent gets the hello first, and subscriptions after it.             *)
Subscribes(q, from) == \A i \in from .. Len(q) : q[i].type = "subscribe"
Handshake ==
  /\ session = "accepted" => Subscribes(toAgent, 1)
  /\ session = "open" =>
       toAgent # <<>> /\ toAgent[1].type = "hello" /\ Subscribes(toAgent, 2)

(* A task that is about to send has what is wanted, unless the other is    *)
(* about to send it; and what is wanted is the last thing the agent was,   *)
(* or will be, told.                                                       *)
Sending ==
  /\ ui = "send" => uiMsg = want
  /\ ws = "send" /\ ui \in {"idle", "set"} => wsMsg = want
Told ==
  state = "up" /\ session = "accepted" /\ ws = "idle" /\ ui \in {"idle", "set"} =>
    IF toAgent = <<>> THEN subs = want \cap Supported ELSE Newest(toAgent) = Subscribe(want)

AppliedInv == UpInv /\ Handshake /\ Sending /\ Told

LEMMA PutSubscribes ==
  ASSUME NEW q \in Seq(Messages), NEW topics \in SUBSET Topics, NEW from \in 1 .. 2,
         Subscribes(q, from)
  PROVE  Subscribes(Append(q, Subscribe(topics)), from)
<1> DEFINE m == Subscribe(topics)
<1>1. m \in Messages /\ m.type = "subscribe"
  BY MessageTypes DEF Subscribe
<1>2. /\ Len(Append(q, m)) = Len(q) + 1 /\ Len(q) \in Nat
      /\ Append(q, m)[Len(q) + 1] = m
      /\ \A i \in 1 .. Len(q) : Append(q, m)[i] = q[i]
  BY <1>1, PutIn
<1> HIDE DEF m
<1>3. Subscribes(Append(q, m), from)
  BY <1>1, <1>2 DEF Subscribes
<1> QED BY <1>3 DEF m

LEMMA TakenSubscribes ==
  ASSUME NEW q \in Seq(Messages), q # <<>>, NEW from \in 1 .. 2, Subscribes(q, from)
  PROVE  Subscribes(Tail(q), 1)
<1>1. /\ Len(Tail(q)) = Len(q) - 1 /\ Len(q) \in Nat \ {0}
      /\ \A i \in 1 .. Len(Tail(q)) : Tail(q)[i] = q[i + 1]
  BY TakenOut, Zenon
<1> QED BY <1>1 DEF Subscribes

LEMMA NextHandshake == UpInv /\ Handshake /\ [Next]_vars => Handshake'
<1> SUFFICES ASSUME UpInv, Handshake, [Next]_vars PROVE Handshake'
  OBVIOUS
<1> USE DEF confVars, supVars, uiVars, wsVars, wireVars, agentVars, envVars
<1>1. UNCHANGED <<toAgent, session>> => Handshake'
  BY DEF Handshake, Subscribes
<1>2. session' = "none" => Handshake'
  BY DEF Handshake
<1>3. CASE Supervisor
  BY <1>1, <1>2, <1>3 DEF Supervisor, SupToken, SupFatal, SupStop, SupFind, Teardown, Unplug
<1>4. CASE Connected
  <2>1. session' = "open" /\ toAgent' = <<[type |-> "hello", token |-> token]>>
    BY <1>4 DEF Connected
  <2>2. ASSUME NEW h, h.type = "hello"
        PROVE  <<h>> # <<>> /\ <<h>>[1].type = "hello" /\ Subscribes(<<h>>, 2)
    BY <2>2 DEF Subscribes
  <2> QED BY <2>1, <2>2 DEF Handshake
<1>5. CASE WsSend \/ UiSend
  <2>1. PICK topics \in SUBSET Topics :
          toAgent' = toAgent \/ toAgent' = Append(toAgent, Subscribe(topics))
    BY <1>5 DEF WsSend, UiSend, UpInv, TypeOK
  <2>2. session' = session
    BY <1>5 DEF WsSend, UiSend
  <2>3. ASSUME toAgent' = Append(toAgent, Subscribe(topics))  PROVE Handshake'
    <3>1. toAgent \in Seq(Messages)
      BY DEF UpInv, TypeOK, InFlight
    <3>2. session = "accepted" => Subscribes(toAgent', 1)
      BY <2>3, <3>1, PutSubscribes DEF Handshake
    <3>3. ASSUME session = "open"
          PROVE  toAgent' # <<>> /\ toAgent'[1].type = "hello" /\ Subscribes(toAgent', 2)
      <4>1. Subscribes(toAgent', 2)
        BY <2>3, <3>1, <3>3, PutSubscribes DEF Handshake
      <4>2. toAgent' # <<>> /\ toAgent'[1] = toAgent[1]
        <5>1. Subscribe(topics) \in Messages
          BY MessageTypes
        <5>2. 1 \in 1 .. Len(toAgent)
          BY <3>1, <3>3 DEF Handshake
        <5> QED BY <2>3, <3>1, <5>1, <5>2, PutIn
      <4> QED BY <3>3, <4>1, <4>2 DEF Handshake
    <3> QED BY <2>2, <3>2, <3>3 DEF Handshake
  <2> QED BY <1>1, <2>1, <2>2, <2>3
<1>6. CASE AgentHello \/ AgentSubscribe
  <2>1. session # "none" /\ toAgent # <<>> /\ toAgent' = Tail(toAgent)
    BY <1>6 DEF AgentHello, AgentSubscribe, Gets
  <2>2. toAgent \in Seq(Messages) /\ session \in {"open", "accepted"}
    BY <2>1 DEF UpInv, TypeOK, InFlight
  <2>3. Subscribes(toAgent', 1)
    BY <2>1, <2>2, TakenSubscribes DEF Handshake
  <2>4. session' # "open"
    <3>1. CASE AgentHello
      BY <3>1 DEF AgentHello
    <3>2. CASE AgentSubscribe
      <4>1. Head(toAgent).type = "subscribe" /\ Head(toAgent) = toAgent[1]
        BY <2>1, <2>2, <3>2, TakenOut DEF AgentSubscribe, Gets
      <4> QED BY <2>2, <3>2, <4>1 DEF AgentSubscribe, Handshake
    <3> QED BY <1>6, <3>1, <3>2
  <2> QED BY <2>3, <2>4 DEF Handshake
<1>7. CASE ConnectFails \/ Disconnected \/ HelloAck \/ Error \/ Data \/ WsSnapshot
  BY <1>1, <1>2, <1>7 DEF ConnectFails, Disconnected, Unplug, HelloAck, Error, Data, Receives, WsSnapshot
<1>8. CASE SetTopics \/ UiTest \/ UiSnapshot \/ Widgets
  BY <1>1, <1>8 DEF SetTopics, UiTest, UiSnapshot, Widgets, OnData
<1>9. CASE World
  BY <1>1, <1>2, <1>7, <1>9 DEF World, AgentChanges, Crash, Repair, AgentPush
<1>10. CASE UNCHANGED vars
  BY <1>1, <1>10 DEF vars
<1> QED BY <1>3, <1>4, <1>5, <1>6, <1>7, <1>8, <1>9, <1>10 DEF Next, Client, Lvgl, Agent

LEMMA NextSending == ~SendTimesOut /\ UpInv /\ Sending /\ [Next]_vars => Sending'
<1> SUFFICES ASSUME ~SendTimesOut, UpInv, Sending, [Next]_vars PROVE Sending'
  OBVIOUS
<1> USE DEF confVars, supVars, uiVars, wsVars, wireVars, agentVars, envVars
<1>1. UNCHANGED <<want, ui, uiMsg, ws, wsMsg>> => Sending'
  BY DEF Sending
<1>2. CASE Supervisor \/ Agent
  BY <1>1, <1>2 DEF Supervisor, SupToken, SupFatal, SupStop, SupFind, Agent, AgentHello,
                    AgentSubscribe
<1>3. CASE Connected \/ ConnectFails \/ Disconnected \/ Error \/ Data
  BY <1>1, <1>3 DEF Connected, ConnectFails, Disconnected, Error, Data
<1>4. CASE HelloAck \/ WsSnapshot \/ WsSend
  BY <1>4 DEF HelloAck, WsSnapshot, WsSend, Sending
<1>5. CASE SetTopics \/ Widgets
  BY <1>5 DEF SetTopics, Widgets, OnData, Sending
<1>6. CASE UiTest \/ UiSnapshot \/ UiSend
  <2>1. ws = "send" => state = "up" /\ client /\ link
    BY DEF UpInv, Linked
  <2> QED BY <1>6, <2>1 DEF UiTest, UiSnapshot, UiSend, Sending
<1>7. CASE World
  BY <1>1, <1>3, <1>7 DEF World, AgentChanges, Crash, Repair, AgentPush, Sending
<1>8. CASE UNCHANGED vars
  BY <1>1, <1>8 DEF vars
<1> QED BY <1>2, <1>3, <1>4, <1>5, <1>6, <1>7, <1>8 DEF Next, Client, Lvgl

LEMMA NextTold == ~SendTimesOut /\ AppliedInv /\ [Next]_vars => Told'
<1> SUFFICES ASSUME ~SendTimesOut, AppliedInv, [Next]_vars PROVE Told'
  OBVIOUS
<1> USE DEF confVars, supVars, uiVars, wsVars, wireVars, agentVars, envVars
<1>1. UNCHANGED <<state, session, ws, ui, toAgent, subs, want>> => Told'
  BY DEF AppliedInv, Told
<1>2. state' # "up" \/ session' # "accepted" \/ ws' # "idle" \/ ui' \notin {"idle", "set"} => Told'
  BY DEF Told
<1>3. state = "up" => client /\ link /\ session \in {"accepted", "none"}
  BY DEF AppliedInv, UpInv, UpIsAccepted
<1>4. CASE Supervisor
  BY <1>1, <1>2, <1>4 DEF Supervisor, SupToken, SupFatal, SupStop, SupFind, Teardown
<1>5. CASE Connected \/ ConnectFails \/ Disconnected \/ HelloAck \/ Error \/ Data \/ WsSnapshot
  BY <1>1, <1>2, <1>5
     DEF Connected, ConnectFails, Disconnected, HelloAck, Error, Data, Receives, WsSnapshot
<1>6. CASE WsSend \/ UiSend
  <2>1. CASE session # "accepted"
    BY <1>2, <1>6, <2>1 DEF WsSend, UiSend
  <2>2. CASE session = "accepted" /\ ui' \in {"idle", "set"} /\ ws' = "idle"
    <3>1. toAgent' = Append(toAgent, Subscribe(want)) /\ want' = want
      BY <1>6, <2>2 DEF WsSend, UiSend, AppliedInv, Sending
    <3>2. toAgent \in Seq(Messages) /\ Subscribe(want) \in Messages
      BY MessageTypes DEF AppliedInv, UpInv, TypeOK, InFlight
    <3>3. toAgent' # <<>> /\ Newest(toAgent') = Subscribe(want)
      BY <3>1, <3>2, PutIn
    <3> QED BY <3>1, <3>3 DEF Told
  <2> QED BY <1>2, <2>1, <2>2
<1>7. CASE SetTopics \/ UiTest \/ UiSnapshot \/ Widgets
  BY <1>1, <1>2, <1>3, <1>7 DEF SetTopics, UiTest, UiSnapshot, Widgets, OnData, AppliedInv, Told
<1>8. CASE AgentHello
  <2>1. toAgent \in Seq(Messages) /\ toAgent # <<>> /\ Head(toAgent).type = "hello"
    BY <1>8 DEF AgentHello, Gets, AppliedInv, UpInv, TypeOK, InFlight
  <2>2. Head(toAgent) = toAgent[1] /\ 1 \in 1 .. Len(toAgent)
    BY <2>1, TakenOut
  <2>3. session # "accepted"
    BY <2>1, <2>2 DEF AppliedInv, Handshake, Subscribes
  <2>4. state # "up"
    BY <1>3, <1>8, <2>3 DEF AgentHello, Gets
  <2> QED BY <1>2, <1>8, <2>4 DEF AgentHello
<1>9. CASE AgentSubscribe
  <2> SUFFICES ASSUME state = "up", session = "accepted", ws = "idle", ui \in {"idle", "set"}
               PROVE  Told'
    BY <1>2, <1>9 DEF AgentSubscribe
  <2>1. /\ toAgent \in Seq(Messages) /\ toAgent # <<>> /\ toAgent' = Tail(toAgent)
        /\ subs' = Head(toAgent).topics \cap Supported /\ want' = want
    BY <1>9 DEF AgentSubscribe, Gets, AppliedInv, UpInv, TypeOK, InFlight
  <2>2. Newest(toAgent) = Subscribe(want)
    BY <2>1 DEF AppliedInv, Told
  <2>3. toAgent' = <<>> => Head(toAgent) = Subscribe(want)
    BY <2>1, <2>2, TakenOut
  <2>4. toAgent' = <<>> => subs' = want' \cap Supported
    BY <2>1, <2>3 DEF Subscribe
  <2>5. toAgent' # <<>> => Newest(toAgent') = Subscribe(want')
    BY <2>1, <2>2, TakenOut
  <2> QED BY <2>4, <2>5 DEF Told
<1>10. CASE World
  BY <1>1, <1>2, <1>5, <1>10 DEF World, AgentChanges, Crash, Repair, AgentPush
<1>11. CASE UNCHANGED vars
  BY <1>1, <1>11 DEF vars
<1> QED BY <1>4, <1>5, <1>6, <1>7, <1>8, <1>9, <1>10, <1>11 DEF Next, Client, Lvgl, Agent

(* A subscription is applied "once (or as soon as) the connection comes    *)
(* up" (host.h:33), however the two tasks that send one interleave with    *)
(* each other, with the widgets and with the agent: no send given up, an   *)
(* agent with nothing on its way pushes what the open widget asked for.    *)
THEOREM SubscriptionApplied ==
  ASSUME ~SendTimesOut
  PROVE  Spec => []AppliedWhenQuiet
<1>1. Init => AppliedInv
  <2>1. Init => Handshake /\ Sending /\ Told
    BY DEF Init, Handshake, Sending, Told
  <2> QED BY <2>1, InitUp DEF AppliedInv
<1>2. AppliedInv /\ [Next]_vars => AppliedInv'
  BY NextUp, NextHandshake, NextSending, NextTold DEF AppliedInv
<1>3. AppliedInv => AppliedWhenQuiet
  BY DEF AppliedInv, Told, AppliedWhenQuiet, Quiet
<1> QED BY <1>1, <1>2, <1>3, PTL DEF Spec
=============================================================================
