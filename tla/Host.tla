-------------------------------- MODULE Host --------------------------------
(***************************************************************************)
(* The PC-agent client, components/host/host.c, and the agent it talks to, *)
(* agent/DeskosAgent/DeviceServer.cs: discovery, hello, subscribe, data.   *)
(*                                                                         *)
(* Four tasks share the client's file-scope variables:                     *)
(*   - the supervisor creates and destroys the websocket client;           *)
(*   - the client's own task delivers connection events and messages, with *)
(*     the client's lock held (esp_websocket_client, external);            *)
(*   - the LVGL task changes the subscription, as widgets open and close;  *)
(*   - the agent's receive and push loops, at the other end of the socket. *)
(* What one connection has in flight, and what the agent knows of it, goes *)
(* with the connection.                                                    *)
(***************************************************************************)
EXTENDS Naturals, Sequences

CONSTANTS
  Topics,        \* topics a widget's "host" sources may name
  Supported,     \* SupportedTopics of the agent
  FailThreshold, \* HOST_FAIL_THRESHOLD
  MaxInFlight,   \* bound on the messages in one direction of a connection
  MaxFaults,     \* bound on the connections the network breaks
  SendTimesOut   \* may a 2 s send give up with the connection still there

ASSUME HostAssumption ==
  /\ Supported \subseteq Topics
  /\ FailThreshold \in Nat \ {0} /\ MaxInFlight \in Nat \ {0} /\ MaxFaults \in Nat
  /\ SendTimesOut \in BOOLEAN

Tokens == {"", "good", "bad"}   \* what agent.json can hold, "" for no file

Messages ==
  [type : {"hello"}, token : Tokens] \cup [type : {"subscribe"}, topics : SUBSET Topics]
    \cup [type : {"hello_ack", "error"}] \cup [type : {"data"}, topic : Supported]

VARIABLES
  file,      \* the token in agent.json on the card
  token,     \* s_token
  state,     \* s_state
  client,    \* s_client is not NULL
  fatal,     \* s_fatal_error
  streak,    \* s_fail_streak, counted up to FailThreshold
  want,      \* s_topics
  dataCb,    \* s_data_cb is not NULL
  sup,       \* where the supervisor's pass is
  ws, wsMsg, \* where the client's task is in handle_message(), its subscribe
  ui, uiMsg, \* where the LVGL task is in host_set_topics(), its subscribe
  link,      \* the client has a connection
  toAgent, toDevice,  \* what is in flight on it
  session,   \* the agent's end: "none", "open", after hello "accepted"
  subs,      \* the agent's `subscribed` set of that connection
  agentUp,   \* the agent runs and answers mDNS
  faults     \* connections broken so far

confVars  == <<file, token>>
supVars   == <<client, fatal, streak, sup>>
uiVars    == <<want, dataCb, ui, uiMsg>>
wsVars    == <<ws, wsMsg>>
wireVars  == <<toAgent, toDevice>>
agentVars == <<session, subs>>
envVars   == <<agentUp, faults>>
vars == <<confVars, state, supVars, uiVars, wsVars, link, wireVars, agentVars, envVars>>

Subscribe(topics) == [type |-> "subscribe", topics |-> topics]
HasRoom(queue)    == Len(queue) < MaxInFlight

(* The connection is gone, with all it carried and the agent's end of it.  *)
Unplug == /\ link' = FALSE /\ toAgent' = <<>> /\ toDevice' = <<>>
          /\ session' = "none" /\ subs' = {}

Failed(n) == IF n < FailThreshold THEN n + 1 ELSE n   \* s_fail_streak++

-----------------------------------------------------------------------------
(* supervisor_task().                                                      *)

(* teardown_client(): stop() waits for the client's task to leave its      *)
(* handler. Nothing waits for the LVGL task to leave the client.           *)
Teardown ==
  IF client THEN ws = "idle" /\ client' = FALSE /\ state' = "down" /\ Unplug
  ELSE UNCHANGED <<client, state, link, wireVars, agentVars>>

SupToken ==
  /\ sup = "token"
  /\ token' = file
  /\ IF file = ""
     THEN sup' = sup /\ Teardown
     ELSE sup' = "fatal" /\ UNCHANGED <<client, state, link, wireVars, agentVars>>
  /\ UNCHANGED <<file, fatal, streak, uiVars, wsVars, envVars>>

SupFatalKept ==                  \* mutant: s_fatal_error is not cleared
  /\ sup = "fatal"
  /\ sup' = IF fatal \/ (client /\ streak >= FailThreshold) THEN "stop" ELSE "find"
  /\ UNCHANGED <<confVars, state, fatal, client, streak, uiVars, wsVars, link, wireVars,
                 agentVars, envVars>>

(* s_fatal_error is cleared before the client it is about is stopped.      *)
SupFatal ==
  /\ sup = "fatal"
  /\ sup' = IF fatal \/ (client /\ streak >= FailThreshold) THEN "stop" ELSE "find"
  /\ fatal' = FALSE
  /\ UNCHANGED <<confVars, state, client, streak, uiVars, wsVars, link, wireVars,
                 agentVars, envVars>>

SupStop ==
  /\ sup = "stop"
  /\ Teardown
  /\ sup' = "find"
  /\ UNCHANGED <<confVars, fatal, streak, uiVars, wsVars, envVars>>

(* mDNS, then a new client. The pass ends with a 3 s delay.                *)
SupFind ==
  /\ sup = "find"
  /\ sup' = "token"
  /\ IF ~client /\ agentUp
     THEN client' = TRUE /\ streak' = 0 /\ state' = "connecting"
     ELSE UNCHANGED <<client, streak, state>>
  /\ UNCHANGED <<confVars, fatal, uiVars, wsVars, link, wireVars, agentVars, envVars>>

-----------------------------------------------------------------------------
(* ws_event_handler(), on the client's task.                               *)

Connected ==
  /\ client /\ ~link /\ agentUp /\ ws = "idle"
  /\ link' = TRUE /\ session' = "open"
  /\ state' = "connecting"
  /\ toAgent' = <<[type |-> "hello", token |-> token]>>
  /\ UNCHANGED <<confVars, supVars, uiVars, wsVars, toDevice, subs, envVars>>

(* A (re)connect that fails.                                               *)
ConnectFails ==
  /\ client /\ ~link /\ ~agentUp /\ ws = "idle"
  /\ streak' = Failed(streak) /\ state' = "down"
  /\ UNCHANGED <<confVars, client, fatal, sup, uiVars, wsVars, link, wireVars, agentVars, envVars>>

DisconnectedUnseen ==            \* mutant: the state is left as it is
  /\ link /\ ws = "idle"
  /\ \/ session = "none" /\ toDevice = <<>> /\ UNCHANGED faults
     \/ faults < MaxFaults /\ faults' = faults + 1
  /\ Unplug
  /\ streak' = Failed(streak)
  /\ UNCHANGED <<confVars, state, client, fatal, sup, uiVars, wsVars, agentUp>>

(* The agent closed the connection, or the network broke it.               *)
Disconnected ==
  /\ link /\ ws = "idle"
  /\ \/ session = "none" /\ toDevice = <<>> /\ UNCHANGED faults
     \/ faults < MaxFaults /\ faults' = faults + 1
  /\ Unplug
  /\ streak' = Failed(streak) /\ state' = "down"
  /\ UNCHANGED <<confVars, client, fatal, sup, uiVars, wsVars, agentUp>>

Receives(type) ==
  /\ link /\ ws = "idle"
  /\ toDevice # <<>> /\ Head(toDevice).type = type
  /\ toDevice' = Tail(toDevice)

(* handle_message(): "hello_ack" goes on to send_subscribe().              *)
HelloAckOnly ==                  \* mutant: no subscribe follows
  /\ Receives("hello_ack")
  /\ streak' = 0 /\ state' = "up" /\ ws' = "idle"
  /\ UNCHANGED <<confVars, client, fatal, sup, uiVars, wsMsg, link, toAgent, agentVars, envVars>>

HelloAck ==
  /\ Receives("hello_ack")
  /\ streak' = 0 /\ state' = "up" /\ ws' = "snapshot"
  /\ UNCHANGED <<confVars, client, fatal, sup, uiVars, wsMsg, link, toAgent, agentVars, envVars>>

Error ==
  /\ Receives("error")
  /\ fatal' = TRUE
  /\ UNCHANGED <<confVars, state, client, streak, sup, uiVars, wsVars, link, toAgent,
                 agentVars, envVars>>

(* "data" calls s_data_cb, when there is one, whatever the topic.          *)
Data ==
  /\ Receives("data")
  /\ UNCHANGED <<confVars, state, supVars, uiVars, wsVars, link, toAgent, agentVars, envVars>>

(* send_subscribe() on the client's task: s_topics under its mutex, then   *)
(* the send; one that fails here breaks the connection.                    *)
WsSnapshot ==
  /\ ws = "snapshot"
  /\ ws' = "send" /\ wsMsg' = want
  /\ UNCHANGED <<confVars, state, supVars, uiVars, link, wireVars, agentVars, envVars>>

WsSend ==
  /\ ws = "send"
  /\ ws' = "idle" /\ wsMsg' = {}
  /\ \/ session = "none" /\ UNCHANGED toAgent
     \/ session # "none" /\ HasRoom(toAgent) /\ toAgent' = Append(toAgent, Subscribe(wsMsg))
  /\ UNCHANGED <<confVars, state, supVars, uiVars, link, toDevice, agentVars, envVars>>

-----------------------------------------------------------------------------
(* host_on_data() and host_set_topics(), on the LVGL task.                 *)

(* widget_open() registers its callback, widget_close() NULL, and both go  *)
(* on to host_set_topics().                                                *)
OnData(topics) ==
  /\ ui = "idle" /\ topics # want
  /\ dataCb' = (topics # {})
  /\ ui' = "set" /\ uiMsg' = topics
  /\ UNCHANGED <<confVars, state, supVars, want, wsVars, link, wireVars, agentVars, envVars>>

SetTopicsLocally ==              \* mutant: the agent is not told
  /\ ui = "set"
  /\ want' = uiMsg
  /\ ui' = "idle" /\ uiMsg' = {}
  /\ UNCHANGED <<confVars, state, supVars, dataCb, wsVars, link, wireVars, agentVars, envVars>>

SetTopics ==
  /\ ui = "set"
  /\ want' = uiMsg
  /\ ui' = "test" /\ uiMsg' = {}
  /\ UNCHANGED <<confVars, state, supVars, dataCb, wsVars, link, wireVars, agentVars, envVars>>

(* if (s_state == HOST_UP && s_client), then send_subscribe() again.       *)
UiTest ==
  /\ ui = "test"
  /\ IF state = "up" /\ client
     THEN ui' = "snapshot" ELSE ui' = "idle"
  /\ UNCHANGED <<confVars, state, supVars, want, dataCb, uiMsg, wsVars, link, wireVars,
                 agentVars, envVars>>

(* The call gets a NULL handle or finds no connection and returns, or it   *)
(* is in the client from here on.                                          *)
UiSnapshot ==
  /\ ui = "snapshot"
  /\ IF client /\ link
     THEN ui' = "send" /\ uiMsg' = want
     ELSE ui' = "idle" /\ uiMsg' = {}
  /\ UNCHANGED <<confVars, state, supVars, want, dataCb, wsVars, link, wireVars, agentVars, envVars>>

(* Sent under the client's lock; or the lock or the network takes over 2 s *)
(* and it gives up, which no one looks at; or the connection is gone.      *)
UiSend ==
  /\ ui = "send"
  /\ ui' = "idle" /\ uiMsg' = {}
  /\ \/ /\ session # "none" /\ ws = "idle" /\ HasRoom(toAgent)
        /\ toAgent' = Append(toAgent, Subscribe(uiMsg))
     \/ session = "none" /\ ws = "idle" /\ UNCHANGED toAgent
     \/ SendTimesOut /\ UNCHANGED toAgent
  /\ UNCHANGED <<confVars, state, supVars, want, dataCb, wsVars, link, toDevice, agentVars, envVars>>

(* A client destroyed under the call: the call returns (UiSend), or what   *)
(* it touches is no longer a client and the device resets.                 *)
Crash ==
  /\ ui = "send" /\ ~client
  /\ token' = "" /\ state' = "down" /\ fatal' = FALSE /\ streak' = 0 /\ sup' = "token"
  /\ want' = {} /\ dataCb' = FALSE /\ ui' = "idle" /\ uiMsg' = {}
  /\ ws' = "idle" /\ wsMsg' = {}
  /\ UNCHANGED <<file, client, link, wireVars, agentVars, envVars>>

-----------------------------------------------------------------------------
(* The agent: HandleDeviceAsync() and PushLoopAsync().                     *)

Gets(type) ==
  /\ session # "none"
  /\ toAgent # <<>> /\ Head(toAgent).type = type
  /\ toAgent' = Tail(toAgent)

(* HandleHelloAsync(): after an error the agent closes the connection.     *)
AgentHello ==
  /\ Gets("hello") /\ HasRoom(toDevice)
  /\ IF Head(toAgent).token = "good"
     THEN session' = "accepted" /\ toDevice' = Append(toDevice, [type |-> "hello_ack"])
     ELSE session' = "none" /\ toDevice' = Append(toDevice, [type |-> "error"])
  /\ UNCHANGED <<confVars, state, supVars, uiVars, wsVars, link, subs, envVars>>

AgentAdds ==                     \* mutant: no subscribed.Clear()
  /\ Gets("subscribe")
  /\ subs' = subs \cup (Head(toAgent).topics \cap Supported)
  /\ UNCHANGED <<confVars, state, supVars, uiVars, wsVars, link, toDevice, session, envVars>>

AgentTakesAll ==                 \* mutant: SupportedTopics is not asked
  /\ Gets("subscribe")
  /\ subs' = Head(toAgent).topics
  /\ UNCHANGED <<confVars, state, supVars, uiVars, wsVars, link, toDevice, session, envVars>>

AgentSubscribe ==
  /\ Gets("subscribe")
  /\ subs' = Head(toAgent).topics \cap Supported
  /\ UNCHANGED <<confVars, state, supVars, uiVars, wsVars, link, toDevice, session, envVars>>

AgentPush(topic) ==
  /\ session = "accepted" /\ topic \in subs /\ HasRoom(toDevice)
  /\ toDevice' = Append(toDevice, [type |-> "data", topic |-> topic])
  /\ UNCHANGED <<confVars, state, supVars, uiVars, wsVars, link, toAgent, agentVars, envVars>>

(* The PC goes to sleep or comes back; the agent starts and stops.         *)
AgentChanges ==
  /\ agentUp' = ~agentUp
  /\ session' = "none" /\ subs' = {} /\ toAgent' = <<>>
  /\ toDevice' = <<>>
  /\ UNCHANGED <<confVars, state, supVars, uiVars, wsVars, link, faults>>

(* Someone writes, replaces or removes agent.json.                         *)
Repair(t) ==
  /\ t # file
  /\ file' = t
  /\ UNCHANGED <<token, state, supVars, uiVars, wsVars, link, wireVars, agentVars, envVars>>

-----------------------------------------------------------------------------
Init ==
  /\ file \in Tokens /\ token = "" /\ state = "down"
  /\ client = FALSE /\ fatal = FALSE /\ streak = 0 /\ sup = "token"
  /\ want = {} /\ dataCb = FALSE /\ ui = "idle" /\ uiMsg = {}
  /\ ws = "idle" /\ wsMsg = {}
  /\ link = FALSE /\ toAgent = <<>> /\ toDevice = <<>>
  /\ session = "none" /\ subs = {}
  /\ agentUp \in BOOLEAN /\ faults = 0

Supervisor == SupToken \/ SupFatal \/ SupStop \/ SupFind
Client     == Connected \/ ConnectFails \/ HelloAck \/ Error \/ Data \/ WsSnapshot \/ WsSend
Lvgl       == SetTopics \/ UiTest \/ UiSnapshot \/ UiSend
Agent      == AgentHello \/ AgentSubscribe
Widgets    == \E topics \in SUBSET Topics : OnData(topics)
World      == \/ Disconnected \/ AgentChanges \/ Crash
              \/ \E t \in Tokens : Repair(t)
              \/ \E topic \in Supported : AgentPush(topic)

Next == Supervisor \/ Client \/ Lvgl \/ Agent \/ Widgets \/ World

(* Every task of the device runs, a live agent answers, and a connection   *)
(* that has ended is noticed. Nothing makes the agent push, the world      *)
(* change or a widget open.                                                *)
Fairness ==
  /\ WF_vars(Supervisor) /\ WF_vars(Client) /\ WF_vars(Lvgl) /\ WF_vars(Agent)
  /\ WF_vars(Disconnected /\ UNCHANGED faults)

Spec     == Init /\ [][Next]_vars
FairSpec == Spec /\ Fairness

-----------------------------------------------------------------------------
(* Properties.                                                             *)

InFlight(queue) == queue \in Seq(Messages) /\ Len(queue) <= MaxInFlight

(* Every variable of host.c and of the connection holds a value of its     *)
(* type, and no queue is longer than its bound.                            *)
TypeOK ==
  /\ file \in Tokens /\ token \in Tokens
  /\ state \in {"down", "connecting", "up"}
  /\ client \in BOOLEAN /\ fatal \in BOOLEAN /\ streak \in 0 .. FailThreshold
  /\ sup \in {"token", "fatal", "stop", "find"}
  /\ want \in SUBSET Topics /\ dataCb \in BOOLEAN
  /\ ui \in {"idle", "set", "test", "snapshot", "send"} /\ uiMsg \in SUBSET Topics
  /\ ws \in {"idle", "snapshot", "send"} /\ wsMsg \in SUBSET Topics
  /\ link \in BOOLEAN
  /\ InFlight(toAgent) /\ InFlight(toDevice)
  /\ session \in {"none", "open", "accepted"} /\ subs \in SUBSET Supported
  /\ agentUp \in BOOLEAN /\ faults \in 0 .. MaxFaults

(* A subscription is applied "once (or as soon as) the connection comes    *)
(* up" (host.h:33): with the handshake done and nothing on the way, the    *)
(* agent pushes exactly what the open widget asked for last.               *)
Quiet == /\ state = "up" /\ ui = "idle" /\ ws = "idle"
         /\ session = "accepted" /\ toAgent = <<>>
AppliedWhenQuiet == Quiet => subs = want \cap Supported

(* HOST_UP means "handshake done" (host.h:14): the agent took this very    *)
(* connection's hello, unless it is gone and the device has yet to notice. *)
UpIsAccepted == state = "up" => client /\ link /\ session \in {"accepted", "none"}

(* A device whose token is right, next to an agent that stays, gets (and   *)
(* keeps getting back) to HOST_UP: no flag or count left over from an      *)
(* earlier connection tears the working one down for ever.                 *)
Settled == file = "good" /\ agentUp
EventuallyUp == <>[]Settled => <>[](state = "up")

(* host_set_topics() is "safe to call whether or not the client is         *)
(* currently connected" (host.h:32): the client is never destroyed under   *)
(* a task that is inside one of its calls.                                 *)
ClientOutlivesCalls == ui = "send" => client

=============================================================================
