------------------------------- MODULE Net_proofs -------------------------------
(***************************************************************************)
(* Proofs about WiFi, for any networks, forms and number of retry tasks:   *)
(* the types and, in a world slower than any one stretch of the code, that *)
(* the open access point does not outlive the setup, and, unless a cancel  *)
(* and the apply timer have run at once, that the device keeps trying to   *)
(* connect and says NET_UP only while it is connected.                     *)
(***************************************************************************)
EXTENDS Net, SeqLemmas

-----------------------------------------------------------------------------
(* The types.                                                              *)

Kinds == {"start", "disc", "ip"}
Radios == {"ap", "idle", "connecting", "up"}

LEMMA Taken ==
  ASSUME NEW q, Queued(q), q # <<>>
  PROVE  Queued(Tail(q))
<1>1. q \in Seq(Kinds) /\ Len(q) <= MaxEvents
  BY DEF Queued, Kinds
<1>2. Tail(q) \in Seq(Kinds) /\ Len(Tail(q)) = Len(q) - 1 /\ Len(q) \in Nat
  BY <1>1, TakenOut, Zenon
<1> QED BY <1>1, <1>2, NetAssumption DEF NetAssumption, Queued, Kinds

LEMMA Put ==
  ASSUME NEW q, Queued(q), Len(q) < MaxEvents, NEW e \in Kinds
  PROVE  Queued(Append(q, e))
<1>1. q \in Seq(Kinds)
  BY DEF Queued, Kinds
<1>2. Append(q, e) \in Seq(Kinds) /\ Len(Append(q, e)) = Len(q) + 1 /\ Len(q) \in Nat
  BY <1>1, PutIn
<1> QED BY <1>2, NetAssumption DEF NetAssumption, Queued, Kinds

LEMMA First ==
  \A q : q = <<"start">> => Queued(q)
<1>1. <<"start">> \in Seq(Kinds) /\ Len(<<"start">>) = 1
  BY DEF Kinds
<1>2. 1 <= MaxEvents
  BY NetAssumption DEF NetAssumption
<1> QED BY <1>1, <1>2, Zenon DEF Queued, Kinds

LEMMA Calls ==
  ASSUME TypeOK
  PROVE  /\ HasRoom => Len(events) < MaxEvents
         /\ HasRoom => Queued(Quieted)
         /\ Disconnect \/ StationMode => Queued(events') /\ radio' \in Radios
         /\ \A s : Connecting(s) \in Radios
         /\ \A s \in Ssids : Configure(s) => cfg' \in Ssids
         /\ LoadCredentials \in Ssids
         /\ None \in Ssids
<1>1. HasRoom => Len(events) < MaxEvents
  <2>1. Len(events) \in Nat
    BY DEF TypeOK, Queued
  <2> QED BY <2>1, NetAssumption DEF NetAssumption, HasRoom
<1>2. HasRoom => Queued(Quieted)
  BY <1>1, Put DEF Quieted, TypeOK, Kinds
<1>3. Disconnect \/ StationMode => Queued(events') /\ radio' \in Radios
  BY <1>1, <1>2, Put DEF Disconnect, StationMode, TypeOK, Kinds, Radios
<1>4. None \in Ssids /\ LoadCredentials \in Ssids
  BY NetAssumption DEF NetAssumption, LoadCredentials, Ssids, TypeOK
<1> QED BY <1>1, <1>2, <1>3, <1>4 DEF Connecting, Configure, TypeOK, Radios

LEMMA Counts ==
  /\ 0 \in 0 .. 2 /\ 0 \in 0 .. MaxRetries /\ 0 \in 0 .. MaxForms
  /\ TypeOK => /\ settle # 2 => settle + 1 \in 0 .. 2
               /\ retries < MaxRetries => retries + 1 \in 0 .. MaxRetries
               /\ retries > 0 => retries - 1 \in 0 .. MaxRetries
               /\ forms < MaxForms => forms + 1 \in 0 .. MaxForms
BY NetAssumption DEF NetAssumption, TypeOK

LEMMA InitTyped == Init => TypeOK
<1> SUFFICES ASSUME Init PROVE TypeOK
  OBVIOUS
<1>1. None \in Ssids /\ LoadCredentials \in Ssids
  BY NetAssumption DEF NetAssumption, LoadCredentials, Ssids, Init
<1> QED BY <1>1, Counts, First DEF Init, TypeOK

LEMMA NextTyped == TypeOK /\ [Next]_vars => TypeOK'
<1> SUFFICES ASSUME TypeOK, [Next]_vars PROVE TypeOK'
  OBVIOUS
<1> USE DEF credVars, setupVars, formVars, uiVars, radioVars
<1>1. CASE ApMode
  <2>1. Queued(events') /\ radio' \in Radios
    BY <1>1, Calls DEF ApMode, TypeOK, Radios
  <2>2. /\ server' \in BOOLEAN /\ state' \in {"down", "connecting", "up", "softap"}
        /\ ui' \in {"idle", "ap", "stop", "server", "blank", "load", "config", "down"}
        /\ panel' \in BOOLEAN
        /\ settle' \in 0 .. 2
    BY <1>1, Counts DEF ApMode, TypeOK
  <2> QED BY <1>1, <2>1, <2>2 DEF ApMode, TypeOK, Radios
<1>2. CASE Stop
  <2>1. CASE StopTimer \/ StopServer
    BY <1>2, <2>1 DEF StopTimer, StopServer, TypeOK
  <2>2. CASE StopBlank \/ StopLoad
    BY <2>2, Calls DEF StopBlank, StopLoad, TypeOK, Radios
  <2>3. CASE StopConfig
    <3>1. cfg' \in Ssids /\ state' \in {"down", "connecting", "up", "softap"} /\ settle' \in 0 .. 2
      BY <2>3, Calls, Counts DEF StopConfig, TypeOK
    <3> QED BY <2>3, <3>1 DEF StopConfig, TypeOK
  <2> QED BY <1>2, <2>1, <2>2, <2>3 DEF Stop
<1>3. CASE Tick
  <2>1. settle' \in 0 .. 2 /\ panel' \in BOOLEAN
    BY <1>3, Counts DEF Tick, TypeOK
  <2>2. UNCHANGED <<credVars, state, setupVars, formVars, ui, tmr, retries, radioVars, air>>
    BY <1>3 DEF Tick
  <2> QED BY <2>1, <2>2 DEF TypeOK
<1>4. CASE Timer
  <2>1. CASE Apply \/ ApplyServer \/ ApplyFlag
    BY <2>1 DEF Apply, ApplyServer, ApplyFlag, Persist, TypeOK
  <2>2. CASE ApplyMode
    BY <2>2, Calls DEF ApplyMode, TypeOK, Radios
  <2>3. CASE ApplyConfig
    BY <2>3, Calls DEF ApplyConfig, TypeOK
  <2>4. CASE WebApply
    <3>1. Queued(events') /\ radio' \in Radios /\ nvs' \in Ssids /\ tmr' \in {"idle", "web"}
      BY <2>4, Calls DEF WebApply, Persist, TypeOK, Radios
    <3> QED BY <2>4, <3>1 DEF WebApply, TypeOK, Radios
  <2>5. CASE WebConnect
    <3>1. ssid' \in Ssids
      BY <2>5, Calls DEF WebConnect, TypeOK
    <3>2. /\ cfg' \in Ssids /\ radio' \in Radios
          /\ state' \in {"down", "connecting", "up", "softap"}
      BY <2>5, <3>1, Calls DEF WebConnect, TypeOK, Radios
    <3> QED BY <2>5, <3>1, <3>2 DEF WebConnect, TypeOK, Radios
  <2>6. CASE WebBlank
    BY <2>6, Calls DEF WebBlank, TypeOK
  <2> QED BY <1>4, <2>1, <2>2, <2>3, <2>4, <2>5, <2>6 DEF Timer
<1>5. CASE Events
  <2>1. Queued(events')
    BY <1>5, Taken DEF Events, OnStart, OnDisconnected, OnGotIp, Handles, TypeOK
  <2>2. CASE OnStart
    <3>1. radio' \in Radios /\ state' \in {"down", "connecting", "up", "softap"}
      BY <2>2, Calls DEF OnStart, TypeOK, Radios
    <3> QED BY <2>1, <2>2, <3>1 DEF OnStart, TypeOK, Radios
  <2>3. CASE OnDisconnected
    BY <2>1, <2>3, Counts DEF OnDisconnected, TypeOK
  <2>4. CASE OnGotIp
    BY <2>1, <2>4 DEF OnGotIp, TypeOK
  <2> QED BY <1>5, <2>2, <2>3, <2>4 DEF Events
<1>6. CASE Retry
  <2>1. radio' \in Radios
    BY <1>6, Calls DEF Retry, TypeOK, Radios
  <2> QED BY <1>6, <2>1, Counts DEF Retry, TypeOK, Radios
<1>7. CASE Radio
  <2>1. Queued(events')
    BY <1>7, Put DEF Radio, Joins, Loses, Post, TypeOK, Kinds
  <2> QED BY <1>7, <2>1 DEF Radio, Joins, Loses, TypeOK
<1>8. CASE World
  <2>1. CASE WifiClicked
    <3>1. Queued(events') /\ radio' \in Radios
      BY <2>1, Calls DEF WifiClicked, TypeOK, Radios
    <3>2. /\ active' \in BOOLEAN /\ ui' \in {"idle", "ap"} /\ panel' \in BOOLEAN
          /\ settle' \in 0 .. 2
      BY <2>1, Counts DEF WifiClicked, TypeOK
    <3> QED BY <2>1, <3>1, <3>2 DEF WifiClicked, TypeOK, Radios
  <2>2. CASE Cancel
    BY <2>2, Counts DEF Cancel, TypeOK
  <2>3. CASE WebcfgClicked
    BY <2>3 DEF WebcfgClicked, TypeOK
  <2>4. CASE AirChanges
    BY <2>4 DEF AirChanges, TypeOK
  <2>5. ASSUME NEW s \in Ssids, SetupForm(s)  PROVE TypeOK'
    BY <2>5, Counts DEF SetupForm, TypeOK
  <2>6. ASSUME NEW s \in Ssids, WebForm(s)  PROVE TypeOK'
    BY <2>6, Counts DEF WebForm, TypeOK
  <2> QED BY <1>8, <2>1, <2>2, <2>3, <2>4, <2>5, <2>6 DEF World
<1>9. CASE UNCHANGED vars
  BY <1>9 DEF vars, TypeOK
<1> QED BY <1>1, <1>2, <1>3, <1>4, <1>5, <1>6, <1>7, <1>8, <1>9 DEF Next

(* What net.c, the two forms and the driver hold is always of its type,    *)
(* and no more events, retry tasks and forms are there than the bounds say. *)
THEOREM NetTypeCorrect == Spec => []TypeOK
<1> QED BY InitTyped, NextTyped, PTL DEF Spec

-----------------------------------------------------------------------------
(* The access point, in a world slower than the code.                      *)

WebSteps == {"idle", "web", "webload"}

(* The open access point and its server are up only while a setup is, or   *)
(* while a task that ends the setup has yet to come to them. A form waits  *)
(* only in a setup whose access point is up.                               *)
Access ==
  /\ timer => active /\ ui # "ap" /\ tmr \in WebSteps
  /\ ui = "ap" => active /\ tmr \in WebSteps
  /\ tmr = "flag" => ~server
  /\ server => active \/ ui = "server" \/ tmr = "server"
  /\ radio = "ap" => active \/ ui \in {"server", "blank", "load"} \/ tmr = "mode"

LEMMA NextAccess == SlowWorld /\ TypeOK /\ Access /\ [Next]_vars => Access'
<1> SUFFICES ASSUME SlowWorld, TypeOK, Access, [Next]_vars PROVE Access'
  OBVIOUS
<1> USE DEF credVars, setupVars, formVars, uiVars, radioVars, WebSteps
<1>1. UNCHANGED <<timer, active, server, ui, tmr>> /\ (radio' = "ap" => radio = "ap") => Access'
  BY DEF Access
<1>2. \A s : Connecting(s) = "ap" => radio = "ap"
  BY DEF Connecting
<1>3. CASE ApMode
  BY <1>3 DEF ApMode, Access
<1>4. CASE Stop
  <2>1. CASE StopTimer \/ StopServer
    BY <2>1 DEF StopTimer, StopServer, Access
  <2>2. CASE StopBlank \/ StopLoad \/ StopConfig
    BY <2>2 DEF StopBlank, StopLoad, StationMode, StopConfig, Access
  <2> QED BY <1>4, <2>1, <2>2 DEF Stop
<1>5. CASE Timer
  <2>1. CASE Apply
    BY <2>1 DEF Apply, Access
  <2>5. CASE ApplyServer
    BY <2>5 DEF ApplyServer, Access
  <2>6. CASE ApplyFlag
    <3>1. /\ tmr = "flag" /\ tmr' = "mode" /\ ~active' /\ ~server
          /\ UNCHANGED <<timer, ui, server, radio>>
      BY <2>6 DEF ApplyFlag, Access
    <3>2. ~timer /\ ui # "ap"
      BY <3>1 DEF Access, WebSteps
    <3> QED BY <3>1, <3>2 DEF Access
  <2>2. CASE ApplyMode
    BY <2>2 DEF ApplyMode, StationMode, Access
  <2>3. CASE ApplyConfig \/ WebApply \/ WebBlank
    BY <2>3 DEF ApplyConfig, WebApply, WebBlank, Disconnect, Access
  <2>4. CASE WebConnect
    <3>1. radio' = "ap" => radio = "ap"
      BY <1>2, <2>4 DEF WebConnect
    <3> QED BY <2>4, <3>1 DEF WebConnect, Access
  <2> QED BY <1>5, <2>1, <2>2, <2>3, <2>4, <2>5, <2>6 DEF Timer
<1>6. CASE Events \/ Retry \/ Radio \/ Tick
  BY <1>1, <1>2, <1>6 DEF Events, OnStart, OnDisconnected, OnGotIp, Retry, Radio, Joins, Loses, Tick
<1>7. CASE World
  <2>1. CASE WifiClicked
    <3>1. ui = "idle" /\ tmr = "idle"
      BY <2>1 DEF WifiClicked, Undisturbed
    <3> QED BY <2>1, <3>1 DEF WifiClicked, Disconnect, Access
  <2>2. CASE Cancel
    BY <2>2 DEF Cancel, Access
  <2>3. ASSUME NEW s \in Ssids, SetupForm(s)  PROVE Access'
    BY <2>3 DEF SetupForm, Undisturbed, Access
  <2>4. ASSUME WebcfgClicked \/ AirChanges \/ \E s \in Ssids : WebForm(s)  PROVE Access'
    BY <1>1, <2>4 DEF WebcfgClicked, AirChanges, WebForm
  <2> QED BY <1>7, <2>1, <2>2, <2>3, <2>4 DEF World
<1>8. CASE UNCHANGED vars
  BY <1>1, <1>8 DEF vars
<1> QED BY <1>3, <1>4, <1>5, <1>6, <1>7, <1>8 DEF Next

(* The open access point is up only while a setup is (net.c:437), whether  *)
(* a form, a cancel or both end it, and though its start may fail half     *)
(* way: what the device says of the setup is never less than what is on    *)
(* the air, once no task is on its way to change it.                       *)
THEOREM ApOnlyWhileSetup ==
  ASSUME SlowWorld
  PROVE  Spec => []ApOnlyInSetup
<1>1. Init => TypeOK /\ Access
  BY InitTyped DEF Init, Access, WebSteps
<1>2. TypeOK /\ Access /\ [Next]_vars => (TypeOK /\ Access)'
  BY NextTyped, NextAccess
<1>3. TypeOK /\ Access => ApOnlyInSetup
  BY DEF Access, ApOnlyInSetup, Quiet
<1> QED BY <1>1, <1>2, <1>3, PTL DEF Spec

-----------------------------------------------------------------------------
(* The station, where also no start of the access point fails half way and *)
(* the device has credentials on its card or built in.                     *)

Configured == Default # None \/ sd # None

(* There are always credentials to load, to apply and to connect with,     *)
(* except while load_credentials() has emptied s_ssid and reads.           *)
Credentials ==
  /\ Configured
  /\ timer \/ tmr \in {"server", "flag", "mode"} => pending # None
  /\ ssid = None => ui = "load" \/ tmr = "webload"
  /\ cfg = None => tmr = "webload" /\ radio # "connecting"

(* A cancel and the apply timer do not overlap, and no setup begins while  *)
(* an earlier one ends; the setup that is on has left the station, or is   *)
(* about to, and the cancel of a setup keeps to the access point until it  *)
(* has loaded the credentials.                                             *)
Setup ==
  /\ ui = "idle" \/ tmr \in WebSteps
  /\ ui \in {"server", "blank", "load", "config"} \/ tmr \in {"mode", "config"} => ~active
  /\ active => radio = "ap" \/ ui = "ap"
  /\ ui \in {"stop", "server", "blank", "load"} => radio = "ap"

(* The newest event is an address only while the station still has it, and *)
(* after an older one comes the loss of it.                                *)
Lost(q) == \E i \in 1 .. Len(q) : q[i] = "disc"

Tidy(q) ==
  \A i \in 1 .. Len(q) : q[i] = "ip" =>
    i = Len(q) \/ \E j \in i + 1 .. Len(q) : q[j] = "disc"

Told == Tidy(events) /\ (events # <<>> /\ Newest(events) = "ip" => radio = "up")

(* An idle station is connected by an event, by a retry that finds the     *)
(* device not up, or by the task that made it idle; a station that is no   *)
(* longer up has an event to say so, or credentials coming to connect with.*)
Trying ==
  /\ radio = "idle" =>
       events # <<>> \/ (retries > 0 /\ state # "up") \/ ui = "ap" \/ tmr \in {"web", "webload"}
  /\ state = "up" =>
       radio \in {"up", "ap"} \/ events # <<>> \/ ui = "ap" \/ (radio = "idle" /\ tmr = "webload")
  /\ state = "up" /\ radio = "connecting" => Lost(events) \/ ui = "ap"

StationInv == TypeOK /\ Access /\ (~raced => Credentials /\ Setup /\ Told /\ Trying)

LEMMA Posted ==
  ASSUME TypeOK, NEW e \in Kinds
  PROVE  Append(events, e) # <<>> /\ Newest(Append(events, e)) = e
<1>1. events \in Seq(Kinds)
  BY DEF TypeOK, Queued, Kinds
<1> QED BY <1>1, PutIn

LEMMA Handled ==
  ASSUME TypeOK, NEW e, Handles(e)
  PROVE  /\ events # <<>>
         /\ events' = <<>> => Newest(events) = e
         /\ events' # <<>> => Newest(events') = Newest(events)
BY TakenOut DEF TypeOK, Queued, Handles

LEMMA TidyPut ==
  ASSUME TypeOK, Tidy(events), NEW e \in Kinds,
         e = "disc" \/ events = <<>> \/ Newest(events) # "ip"
  PROVE  Tidy(Append(events, e)) /\ (Lost(events) \/ e = "disc" => Lost(Append(events, e)))
<1> DEFINE q == Append(events, e)
           n == Len(events)
<1>1. /\ n \in Nat /\ Len(q) = n + 1 /\ q[n + 1] = e
      /\ \A i \in 1 .. n : q[i] = events[i]
  BY PutIn DEF TypeOK, Queued, Kinds
<1>2. ASSUME NEW i \in 1 .. Len(q), q[i] = "ip", i # Len(q)
      PROVE  \E j \in i + 1 .. Len(q) : q[j] = "disc"
  <2>1. i \in 1 .. n /\ events[i] = "ip" /\ n # 0
    BY <1>1, <1>2
  <2>2. CASE i = n
    <3>1. e = "disc"
      BY <2>1, <2>2 DEF Newest
    <3> QED BY <1>1, <2>1, <3>1
  <2>3. CASE i # n
    <3>1. PICK j \in i + 1 .. n : events[j] = "disc"
      BY <2>1, <2>3 DEF Tidy
    <3>2. j \in i + 1 .. Len(q) /\ q[j] = "disc"
      BY <1>1, <2>1, <3>1
    <3> QED BY <3>2
  <2> QED BY <2>2, <2>3
<1>3. ASSUME Lost(events) \/ e = "disc"  PROVE Lost(q)
  BY <1>1, <1>3 DEF Lost
<1> HIDE DEF q
<1>4. Tidy(q)
  BY <1>2 DEF Tidy
<1> QED BY <1>3, <1>4 DEF q

LEMMA TidyTaken ==
  ASSUME TypeOK, Tidy(events), NEW e, Handles(e)
  PROVE  /\ Tidy(events')
         /\ Lost(events) /\ e # "disc" => Lost(events')
         /\ e = "ip" => events' = <<>> \/ Lost(events')
<1> DEFINE q == Tail(events)
           n == Len(events)
<1>1. /\ events[1] = e /\ n \in Nat \ {0} /\ Len(q) = n - 1 /\ events' = q
      /\ q \in Seq(Kinds) /\ \A i \in 1 .. Len(q) : q[i] = events[i + 1]
  BY TakenOut DEF TypeOK, Queued, Kinds, Handles
<1>2. ASSUME NEW j \in 2 .. n, events[j] = "disc"
      PROVE  j - 1 \in 1 .. Len(q) /\ q[j - 1] = "disc"
  <2>1. j - 1 \in 1 .. Len(q) /\ (j - 1) + 1 = j
    BY <1>1
  <2> QED BY <1>1, <1>2, <2>1
<1>3. ASSUME NEW i \in 1 .. Len(q), q[i] = "ip", i # Len(q)
      PROVE  \E j \in i + 1 .. Len(q) : q[j] = "disc"
  <2>1. i + 1 \in 1 .. n /\ events[i + 1] = "ip" /\ i + 1 # n
    <3>1. i \in 1 .. n - 1 /\ i # n - 1 /\ Len(q) = n - 1 /\ n \in Nat
      BY <1>1, <1>3
    <3>2. events[i + 1] = q[i]
      BY <1>1
    <3> QED BY <3>1, <3>2, <1>3
  <2>2. PICK j \in i + 2 .. n : events[j] = "disc"
    <3>1. PICK j \in (i + 1) + 1 .. n : events[j] = "disc"
      BY <2>1 DEF Tidy
    <3> QED BY <3>1
  <2>3. j \in 2 .. n /\ j - 1 \in i + 1 .. Len(q)
    BY <1>1, <2>2
  <2> QED BY <1>2, <2>2, <2>3
<1>4. ASSUME Lost(events), e # "disc"  PROVE Lost(q)
  <2>1. PICK j \in 1 .. n : events[j] = "disc"
    BY <1>4 DEF Lost
  <2>2. j \in 2 .. n
    BY <1>1, <1>4, <2>1
  <2> QED BY <1>2, <2>1, <2>2 DEF Lost
<1>5. ASSUME e = "ip", q # <<>>  PROVE Lost(q)
  <2>1. n # 1
    BY <1>1, <1>5
  <2>2. PICK j \in 2 .. n : events[j] = "disc"
    <3>1. 1 \in 1 .. n /\ events[1] = "ip" /\ 1 + 1 = 2
      BY <1>1, <1>5
    <3>2. \E j \in 1 + 1 .. n : events[j] = "disc"
      BY <2>1, <3>1 DEF Tidy
    <3> QED BY <3>1, <3>2
  <2> QED BY <1>2, <2>2 DEF Lost
<1> HIDE DEF q
<1>6. Tidy(q)
  BY <1>3 DEF Tidy
<1> QED BY <1>1, <1>4, <1>5, <1>6

(* What the driver's calls make of the radio and of its events.            *)
LEMMA Called ==
  ASSUME TypeOK, Told
  PROVE  /\ Quieted # events => Quieted # <<>> /\ Newest(Quieted) = "disc"
         /\ Quieted = events => radio \notin {"connecting", "up"}
         /\ Tidy(Quieted) /\ (Lost(events) => Lost(Quieted))
         /\ StationMode => \/ radio # "ap" /\ UNCHANGED <<radio, events>>
                           \/ /\ radio = "ap" /\ radio' = "idle" /\ Tidy(events')
                              /\ events' # <<>> /\ Newest(events') = "start"
         /\ \A s : s # None => Connecting(s) = IF radio = "idle" THEN "connecting" ELSE radio
<1>1. /\ Append(events, "disc") # <<>> /\ Newest(Append(events, "disc")) = "disc"
      /\ Append(events, "start") # <<>> /\ Newest(Append(events, "start")) = "start"
  BY Posted DEF Kinds
<1>2. Append(events, "disc") # events
  <2>1. /\ events \in Seq(Kinds) /\ Len(events) \in Nat
        /\ Len(Append(events, "disc")) = Len(events) + 1
    BY PutIn DEF TypeOK, Queued, Kinds
  <2> QED BY <2>1
<1>3. /\ Tidy(Append(events, "disc")) /\ Lost(Append(events, "disc"))
      /\ radio = "ap" => Tidy(Append(events, "start"))
  BY TidyPut DEF Told, Kinds
<1> QED BY <1>1, <1>2, <1>3 DEF Quieted, StationMode, Connecting, Told

LEMMA NextCredentials ==
  SlowWorld /\ TypeOK /\ Credentials /\ Setup /\ [Next]_vars => Credentials'
<1> SUFFICES ASSUME SlowWorld, TypeOK, Credentials, Setup, [Next]_vars PROVE Credentials'
  OBVIOUS
<1> USE DEF credVars, setupVars, formVars, uiVars, radioVars
<1>1. UNCHANGED <<sd, ssid, cfg, timer, ui, tmr, pending>>
        /\ (radio' = "connecting" => radio = "connecting" \/ cfg # None) => Credentials'
  BY DEF Credentials, Configured
<1>2. LoadCredentials # None
  BY DEF LoadCredentials, Credentials, Configured
<1>3. \A s : s = None => Connecting(s) = radio
  BY DEF Connecting
<1>4. CASE Stop
  <2>1. CASE StopBlank \/ StopTimer \/ StopServer
    BY <2>1 DEF StopBlank, StopTimer, StopServer, Credentials, Configured
  <2>2. CASE StopLoad
    BY <1>2, <2>2 DEF StopLoad, StationMode, Credentials, Configured
  <2>3. CASE StopConfig
    BY <2>3 DEF StopConfig, Configure, Credentials, Configured
  <2> QED BY <1>4, <2>1, <2>2, <2>3 DEF Stop
<1>5. CASE Timer
  <2>1. CASE Apply \/ ApplyServer \/ ApplyFlag
    BY <2>1 DEF Apply, ApplyServer, ApplyFlag, Credentials, Configured
  <2>2. CASE ApplyMode
    BY <2>2 DEF ApplyMode, StationMode, Credentials, Configured
  <2>3. CASE ApplyConfig
    BY <2>3 DEF ApplyConfig, Configure, Credentials, Configured, Setup, WebSteps
  <2>4. CASE WebApply \/ WebBlank
    BY <2>4 DEF WebApply, WebBlank, Disconnect, Credentials, Configured
  <2>5. CASE WebConnect
    <3>1. ssid' # None /\ cfg' # None
      BY <1>2, <2>5 DEF WebConnect, Configure, Credentials
    <3> QED BY <2>5, <3>1 DEF WebConnect, Credentials, Configured
  <2> QED BY <1>5, <2>1, <2>2, <2>3, <2>4, <2>5 DEF Timer
<1>6. CASE ApMode
  BY <1>6 DEF ApMode, Credentials, Configured
<1>7. CASE Tick \/ Events \/ Retry \/ Radio
  BY <1>1, <1>3, <1>7 DEF Tick, Events, OnStart, OnDisconnected, OnGotIp, Retry, Radio, Joins, Loses
<1>8. CASE World
  <2>1. ASSUME NEW s \in Ssids, SetupForm(s)  PROVE Credentials'
    BY <2>1 DEF SetupForm, Undisturbed, Credentials, Configured
  <2>2. ASSUME NEW s \in Ssids, WebForm(s)  PROVE Credentials'
    BY <2>2 DEF WebForm, Credentials, Configured
  <2>3. CASE WifiClicked \/ Cancel
    BY <2>3 DEF WifiClicked, Disconnect, Cancel, Credentials, Configured
  <2>4. CASE WebcfgClicked \/ AirChanges
    BY <1>1, <2>4 DEF WebcfgClicked, AirChanges
  <2> QED BY <1>8, <2>1, <2>2, <2>3, <2>4 DEF World
<1>9. CASE UNCHANGED vars
  BY <1>1, <1>9 DEF vars
<1> QED BY <1>4, <1>5, <1>6, <1>7, <1>8, <1>9 DEF Next

LEMMA NextSetup ==
  SlowWorld /\ ~StartFails /\ ~raced' /\ TypeOK /\ Access /\ Setup /\ [Next]_vars => Setup'
<1> SUFFICES ASSUME SlowWorld, ~StartFails, ~raced', TypeOK, Access, Setup, [Next]_vars
             PROVE  Setup'
  OBVIOUS
<1> USE DEF credVars, setupVars, formVars, uiVars, radioVars, WebSteps
<1>1. UNCHANGED <<ui, tmr, active>> /\ (radio = "ap" => radio' = "ap") => Setup'
  BY DEF Setup
<1>2. \A s : radio = "ap" => Connecting(s) = "ap"
  BY DEF Connecting
<1>3. CASE ApMode
  BY <1>3 DEF ApMode, Access, Setup
<1>4. CASE Stop
  <2>1. CASE StopTimer \/ StopServer \/ StopBlank \/ StopConfig
    BY <2>1 DEF StopTimer, StopServer, StopBlank, StopConfig, Setup
  <2>2. CASE StopLoad
    BY <2>2 DEF StopLoad, Setup
  <2> QED BY <1>4, <2>1, <2>2 DEF Stop
<1>5. CASE Timer
  <2>1. CASE Apply
    BY <2>1 DEF Apply, Access, Setup
  <2>5. CASE ApplyServer
    BY <2>5 DEF ApplyServer, Setup
  <2>6. CASE ApplyFlag
    BY <2>6 DEF ApplyFlag, Setup
  <2>2. CASE ApplyMode \/ ApplyConfig
    BY <2>2 DEF ApplyMode, ApplyConfig, Setup
  <2>3. CASE WebApply \/ WebBlank
    BY <2>3 DEF WebApply, WebBlank, Disconnect, Setup
  <2>4. CASE WebConnect
    <3>1. radio = "ap" => radio' = "ap"
      BY <1>2, <2>4 DEF WebConnect
    <3> QED BY <2>4, <3>1 DEF WebConnect, Setup
  <2> QED BY <1>5, <2>1, <2>2, <2>3, <2>4, <2>5, <2>6 DEF Timer
<1>6. CASE Tick \/ Events \/ Retry \/ Radio
  BY <1>1, <1>2, <1>6 DEF Tick, Events, OnStart, OnDisconnected, OnGotIp, Retry, Radio, Joins, Loses
<1>7. CASE World
  <2>1. CASE WifiClicked
    BY <2>1 DEF WifiClicked, Undisturbed, Disconnect, Setup
  <2>2. CASE Cancel
    <3>1. active => tmr \in WebSteps /\ radio = "ap"
      BY <2>2 DEF Cancel, Setup, TypeOK
    <3> QED BY <2>2, <3>1 DEF Cancel, Setup
  <2>3. CASE WebcfgClicked \/ AirChanges \/ \E s \in Ssids : SetupForm(s) \/ WebForm(s)
    BY <1>1, <2>3 DEF WebcfgClicked, AirChanges, SetupForm, WebForm
  <2> QED BY <1>7, <2>1, <2>2, <2>3 DEF World
<1>8. CASE UNCHANGED vars
  BY <1>1, <1>8 DEF vars
<1> QED BY <1>3, <1>4, <1>5, <1>6, <1>7, <1>8 DEF Next

LEMMA NextTold == TypeOK /\ Told /\ [Next]_vars => Told'
<1> SUFFICES ASSUME TypeOK, Told, [Next]_vars PROVE Told'
  OBVIOUS
<1> USE DEF credVars, setupVars, formVars, uiVars, radioVars
<1>1. UNCHANGED events /\ (radio = "up" => radio' = "up") => Told'
  BY DEF Told
<1>2. \A s : radio = "up" => Connecting(s) = "up"
  BY DEF Connecting
<1>3. events' = Quieted => Told'
  <2>1. Quieted # <<>> /\ Newest(Quieted) = "ip" => Quieted = events /\ radio # "up"
    BY Called DEF Told
  <2>2. ~(Quieted # <<>> /\ Newest(Quieted) = "ip")
    BY <2>1 DEF Told
  <2> QED BY <2>2, Called DEF Told
<1>4. StationMode => Told'
  BY Called DEF Told
<1>5. CASE ApMode
  BY <1>1, <1>3, <1>5 DEF ApMode
<1>6. CASE Stop \/ Timer
  BY <1>1, <1>2, <1>3, <1>4, <1>6
     DEF Stop, StopTimer, StopServer, StopBlank, StopLoad, StopConfig, Timer, Apply, ApplyServer,
         ApplyFlag, ApplyMode, ApplyConfig, WebApply, WebBlank, WebConnect, Disconnect
<1>7. CASE Events
  <2>1. ASSUME NEW e, Handles(e), radio = "up" => radio' = "up"  PROVE Told'
    BY <2>1, Handled, TidyTaken DEF Told
  <2> QED BY <1>2, <1>7, <2>1 DEF Events, OnStart, OnDisconnected, OnGotIp
<1>8. CASE Radio
  BY <1>8, Posted, TidyPut DEF Radio, Joins, Loses, Post, Kinds, Told
<1>9. CASE Tick \/ Retry \/ World
  BY <1>1, <1>2, <1>3, <1>9 DEF Tick, Retry, World, WifiClicked, Disconnect, Cancel, WebcfgClicked,
                                AirChanges, SetupForm, WebForm
<1>10. CASE UNCHANGED vars
  BY <1>1, <1>10 DEF vars
<1> QED BY <1>5, <1>6, <1>7, <1>8, <1>9, <1>10 DEF Next

LEMMA NextTrying ==
  SlowWorld /\ ~StartFails /\ ~raced /\ StationInv /\ [Next]_vars => Trying'
<1> SUFFICES ASSUME SlowWorld, ~StartFails, ~raced, StationInv, [Next]_vars PROVE Trying'
  OBVIOUS
<1> USE DEF credVars, setupVars, formVars, uiVars, radioVars, WebSteps
<1>1. TypeOK /\ Access /\ Credentials /\ Setup /\ Told /\ Trying /\ LoadCredentials # None
  BY DEF StationInv, Credentials, Configured, LoadCredentials
<1>2. /\ cfg = None => tmr = "webload" /\ radio # "connecting"
      /\ ssid = None => tmr = "webload" \/ radio = "ap"
  BY <1>1 DEF Credentials, Setup
<1>3. UNCHANGED <<events, radio, retries, state, ui, tmr>> => Trying'
  BY <1>1 DEF Trying
<1>4. CASE ApMode
  BY <1>1, <1>4 DEF ApMode, Trying
<1>5. CASE Stop
  <2>1. CASE StopTimer \/ StopServer \/ StopBlank
    BY <1>1, <2>1 DEF StopTimer, StopServer, StopBlank, Trying
  <2>2. CASE StopLoad
    BY <1>1, <2>2, Called DEF StopLoad, Trying
  <2>3. CASE StopConfig
    BY <1>1, <2>3 DEF StopConfig, Trying
  <2> QED BY <1>5, <2>1, <2>2, <2>3 DEF Stop
<1>6. CASE Timer
  <2>1. CASE Apply \/ ApplyServer \/ ApplyFlag
    BY <1>1, <2>1 DEF Apply, ApplyServer, ApplyFlag, Trying
  <2>2. CASE ApplyMode
    BY <1>1, <2>2, Called DEF ApplyMode, Trying
  <2>3. CASE ApplyConfig
    BY <1>1, <2>3 DEF ApplyConfig, Trying
  <2>4. CASE WebApply
    BY <1>1, <2>4, Called DEF WebApply, Disconnect, Trying
  <2>5. CASE WebBlank
    BY <1>1, <2>5 DEF WebBlank, Trying
  <2>6. CASE WebConnect
    <3>1. ssid' # None
      BY <1>1, <2>6 DEF WebConnect
    <3>2. Lost(events) => events # <<>>
      BY <1>1 DEF TypeOK, Queued, Lost
    <3> QED BY <1>1, <2>6, <3>1, <3>2, Called DEF WebConnect, Trying
  <2> QED BY <1>6, <2>1, <2>2, <2>3, <2>4, <2>5, <2>6 DEF Timer
<1>7. CASE Events
  <2>1. Queued(events') /\ (Lost(events') => events' # <<>>)
    <3>1. Queued(events')
      BY <1>1, <1>7, NextTyped DEF TypeOK
    <3> QED BY <3>1 DEF Queued, Lost
  <2>2. CASE OnStart
    <3>1. Handles("start") /\ (Lost(events) => Lost(events'))
      <4>1. Handles("start")
        BY <2>2 DEF OnStart
      <4> QED BY <1>1, <4>1, TidyTaken DEF Told
    <3>2. CASE ssid # None
      BY <1>1, <1>2, <2>2, <3>1, <3>2, Called DEF OnStart, Connecting, Trying
    <3>3. CASE ssid = None
      BY <1>1, <1>2, <2>1, <2>2, <3>1, <3>3 DEF OnStart, Trying, TypeOK
    <3> QED BY <3>2, <3>3
  <2>3. CASE OnDisconnected
    <3>1. ~active => retries' > 0
      BY <1>1, <2>3 DEF OnDisconnected, TypeOK
    <3> QED BY <1>1, <2>3, <3>1 DEF OnDisconnected, Setup, Trying
  <2>4. CASE OnGotIp
    <3>1. Handles("ip")
      BY <2>4 DEF OnGotIp
    <3>2. (events' = <<>> => radio = "up") /\ (radio # "up" => Lost(events'))
      BY <1>1, <3>1, Handled, TidyTaken DEF Told
    <3> QED BY <1>1, <2>1, <2>4, <3>2 DEF OnGotIp, Trying
  <2> QED BY <1>7, <2>2, <2>3, <2>4 DEF Events
<1>8. CASE Retry
  BY <1>1, <1>2, <1>8, Called DEF Retry, Connecting, Trying
<1>9. CASE Radio
  <2>1. CASE Joins
    BY <1>1, <2>1, Posted DEF Joins, Post, Kinds, Trying
  <2>2. CASE Loses
    BY <1>1, <2>2, Posted DEF Loses, Post, Kinds, Trying
  <2> QED BY <1>9, <2>1, <2>2 DEF Radio
<1>10. CASE World
  <2>1. CASE WifiClicked
    BY <1>1, <2>1, Called DEF WifiClicked, Disconnect, Trying
  <2>2. CASE Cancel
    BY <1>1, <2>2 DEF Cancel, Trying
  <2>3. CASE WebcfgClicked \/ AirChanges \/ \E s \in Ssids : SetupForm(s) \/ WebForm(s)
    BY <1>3, <2>3 DEF WebcfgClicked, AirChanges, SetupForm, WebForm
  <2> QED BY <1>10, <2>1, <2>2, <2>3 DEF World
<1>11. CASE Tick
  BY <1>3, <1>11 DEF Tick
<1>12. CASE UNCHANGED vars
  BY <1>3, <1>12 DEF vars
<1> QED BY <1>4, <1>5, <1>6, <1>7, <1>8, <1>9, <1>10, <1>11, <1>12 DEF Next

(* A race is never forgotten.                                              *)
LEMMA RacedStays == [Next]_vars /\ ~raced' => ~raced
BY DEF Next, ApMode, Stop, StopTimer, StopServer, StopBlank, StopLoad, StopConfig, Tick, Timer, Apply,
       ApplyServer, ApplyFlag, ApplyMode, ApplyConfig, WebApply, WebBlank, WebConnect, Events, OnStart,
       OnDisconnected, OnGotIp, Retry, Radio, Joins, Loses, World, WifiClicked, Cancel, WebcfgClicked,
       AirChanges, SetupForm, WebForm, vars, setupVars

LEMMA InitStation == Init /\ Configured => StationInv
<1> SUFFICES ASSUME Init, Configured PROVE StationInv
  OBVIOUS
<1>1. TypeOK /\ Access /\ Setup
  BY InitTyped DEF Init, Access, Setup, WebSteps
<1>2. Credentials
  BY DEF Init, LoadCredentials, Credentials, Configured
<1>3. Told /\ Trying
  <2>1. events # <<>> /\ Newest(events) = "start" /\ state = "down" /\ Tidy(events)
    <3>1. <<"start">> # <<>> /\ Newest(<<"start">>) = "start" /\ Tidy(<<"start">>)
      BY DEF Newest, Tidy
    <3> QED BY <3>1, Zenon DEF Init
  <2> QED BY <2>1 DEF Told, Trying
<1> QED BY <1>1, <1>2, <1>3 DEF StationInv

LEMMA NextStation ==
  SlowWorld /\ ~StartFails /\ StationInv /\ [Next]_vars => StationInv'
<1> SUFFICES ASSUME SlowWorld, ~StartFails, StationInv, [Next]_vars PROVE StationInv'
  OBVIOUS
<1>1. TypeOK' /\ Access'
  BY NextTyped, NextAccess DEF StationInv
<1>2. ASSUME ~raced'  PROVE Credentials' /\ Setup' /\ Told' /\ Trying'
  <2>1. ~raced /\ TypeOK /\ Access /\ Credentials /\ Setup /\ Told
    BY <1>2, RacedStays DEF StationInv
  <2> QED BY <1>2, <2>1, NextCredentials, NextSetup, NextTold, NextTrying
<1> QED BY <1>1, <1>2 DEF StationInv

(* The device "should keep trying forever" (net.c:33): where there are     *)
(* credentials on the card or built in, and the access point starts when   *)
(* asked to, an idle station has an event or a retry coming that connects  *)
(* it again, whatever setups, forms, cancels and lost networks went before, *)
(* as long as no cancel and apply timer have run at once.                  *)
THEOREM DeviceKeepsTrying ==
  ASSUME SlowWorld, ~StartFails
  PROVE  Spec /\ Configured => []KeepsTrying
<1>1. StationInv => KeepsTrying
  BY DEF StationInv, Trying, KeepsTrying, Quiet
<1> QED BY InitStation, NextStation, <1>1, PTL DEF Spec

(* NET_UP means "associated and holding an IP" (net.h:22), once the        *)
(* driver's events have been handled and no setup is going on, as long as  *)
(* no cancel and apply timer have run at once.                             *)
THEOREM UpMeansConnected ==
  ASSUME SlowWorld, ~StartFails
  PROVE  Spec /\ Configured => []UpIsUp
<1>1. StationInv => UpIsUp
  BY DEF StationInv, Access, Trying, UpIsUp, Quiet
<1> QED BY InitStation, NextStation, <1>1, PTL DEF Spec
=============================================================================
