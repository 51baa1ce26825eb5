---------------------------------- MODULE Net ----------------------------------
(***************************************************************************)
(* WiFi: components/net/net.c with the two ways to change its credentials, *)
(* the SoftAP setup panel (settings.c) and the web form (webcfg.c).        *)
(*                                                                         *)
(* Five kinds of task share net.c's variables: the LVGL task starts and    *)
(* cancels the setup, the servers' tasks take the forms, the esp_timer     *)
(* task applies them 800 ms later, the event task follows the driver, and  *)
(* a retry task per lost connection sleeps and reconnects. The WiFi driver *)
(* is external: it queues its events and refuses to connect unless idle.   *)
(* An SSID stands for itself and its password, None for the empty one.     *)
(***************************************************************************)
EXTENDS Naturals, Sequences

CONSTANTS
  Nets,       \* the networks there may be
  Default,    \* CONFIG_DESKOS_WIFI_SSID, or None
  MaxEvents,  \* bound on the driver's events not yet handled
  MaxRetries, \* bound on the retry tasks alive
  MaxForms,   \* bound on the forms submitted
  SlowWorld,  \* users and radio are slower than any one stretch of code, and
              \* a setup form is applied before the next is sent
  StartFails, \* may net_softap_start() fail half way
  None

ASSUME NetAssumption ==
  /\ None \notin Nets /\ Default \in Nets \cup {None}
  /\ MaxEvents \in Nat \ {0} /\ MaxRetries \in Nat \ {0} /\ MaxForms \in Nat
  /\ SlowWorld \in BOOLEAN /\ StartFails \in BOOLEAN

Ssids == Nets \cup {None}

VARIABLES
  sd, nvs,     \* the SSID in /sd/wifi.json and in NVS
  ssid,        \* s_ssid
  state,       \* s_state
  active,      \* s_softap_active
  server,      \* s_softap_httpd is not NULL
  raced,       \* ghost: a cancel and the apply timer have run at once
  pending, timer,       \* net.c's s_pending_ssid and s_softap_apply_timer
  webPending, webTimer, \* webcfg.c's
  web,         \* webcfg.c's s_httpd is not NULL
  ui,          \* where the LVGL task is in net_softap_start() or _stop()
  panel, settle,        \* s_wifi_panel is open, s_wifi_settle_ticks
  tmr,         \* where the esp_timer task is in a callback
  retries,     \* retry tasks asleep
  cfg,         \* the driver: its station configuration,
  radio,       \* what it does ("ap" in AP mode),
  events,      \* and the events it has queued
  air,         \* the networks in reach
  forms        \* forms submitted so far

credVars  == <<sd, nvs, ssid>>
setupVars == <<active, server, raced>>
formVars  == <<pending, timer, webPending, webTimer, web, forms>>
uiVars    == <<ui, panel, settle>>
radioVars == <<cfg, radio, events>>
vars == <<credVars, state, setupVars, formVars, uiVars, tmr, retries, radioVars, air>>

-----------------------------------------------------------------------------
(* The driver's calls.                                                     *)

HasRoom == Len(events) + 1 < MaxEvents     \* the driver itself needs a place

(* esp_wifi_connect() with configuration c does nothing unless idle.       *)
Connecting(c) == IF radio = "idle" /\ c # None THEN "connecting" ELSE radio

(* What leaves the air when a station goes quiet: one "disc" event.        *)
Quieted == IF radio \in {"connecting", "up"} THEN Append(events, "disc") ELSE events

(* esp_wifi_disconnect().                                                  *)
Disconnect ==
  /\ HasRoom
  /\ events' = Quieted
  /\ radio' = IF radio = "ap" THEN "ap" ELSE "idle"

(* esp_wifi_set_mode(WIFI_MODE_STA) starts the station if it was stopped.  *)
StationMode ==
  /\ HasRoom
  /\ events' = IF radio = "ap" THEN Append(events, "start") ELSE events
  /\ radio'  = IF radio = "ap" THEN "idle" ELSE radio

(* esp_wifi_set_config() is refused while the station connects.            *)
Configure(s) == cfg' = IF radio = "connecting" THEN cfg ELSE s

(* load_credentials(): the card's file, else NVS, else the default.        *)
LoadCredentials == IF sd # None THEN sd ELSE IF nvs # None THEN nvs ELSE Default

(* persist_credentials(); an empty ssid erases the keys. NVS may be full.  *)
Persist(s) == nvs' = s

-----------------------------------------------------------------------------
(* The LVGL task: wifi_clicked(), net_softap_start(), net_softap_stop().   *)

Undisturbed == SlowWorld => ui = "idle" /\ tmr = "idle"

WifiClicked ==
  /\ ui = "idle" /\ ~panel /\ Undisturbed
  /\ UNCHANGED <<credVars, state, server, raced, formVars, tmr, retries, cfg, air>>
  /\ IF active
     THEN panel' = TRUE /\ settle' = 0 /\ UNCHANGED <<active, ui, radio, events>>
     ELSE /\ active' = TRUE
          /\ Disconnect
          /\ ui' = "ap" /\ UNCHANGED <<panel, settle>>

(* esp_wifi_set_mode(WIFI_MODE_AP), its configuration and the server. If   *)
(* one of the first two fails the call returns as it is, the access point  *)
(* off or on; if the server cannot start, setup is stopped.                *)
ApMode ==
  /\ ui = "ap"
  /\ UNCHANGED <<credVars, active, raced, formVars, tmr, retries, cfg, air>>
  /\ \/ /\ HasRoom /\ radio' = "ap" /\ events' = Quieted
        /\ \/ server' = TRUE /\ state' = "softap" /\ ui' = "idle" /\ panel' = TRUE /\ settle' = 0
           \/ StartFails /\ ui' \in {"stop", "idle"} /\ UNCHANGED <<state, server, panel, settle>>
     \/ StartFails /\ ui' = "idle" /\ UNCHANGED <<state, server, panel, settle, radio, events>>

(* Cancel: wifi_setup_close(true) calls net_softap_stop(), which does      *)
(* nothing when the setup is over already.                                 *)
Cancel ==
  /\ ui = "idle" /\ panel
  /\ IF active THEN ui' = "stop" /\ UNCHANGED panel ELSE panel' = FALSE /\ UNCHANGED ui
  /\ settle' = 0            \* not looked at again before WifiClicked resets it
  /\ raced' = (raced \/ (active /\ tmr \in {"server", "flag"}))
  /\ UNCHANGED <<credVars, state, active, server, formVars, tmr, retries, radioVars, air>>

(* net_softap_stop() up to httpd_stop(), which waits for a form in hand.   *)
(* Of what may come of stopping the server that Apply is stopping as well, *)
(* which is undefined, the model has that both calls return.               *)
StopTimer ==
  /\ ui = "stop"
  /\ active' = FALSE /\ timer' = FALSE
  /\ ui' = IF server THEN "server" ELSE "blank"
  /\ UNCHANGED <<credVars, state, server, raced, pending, webPending, webTimer, web, forms, panel,
                 settle, tmr, retries, radioVars, air>>

StopServer ==
  /\ ui = "server"
  /\ server' = FALSE
  /\ ui' = "blank"
  /\ UNCHANGED <<credVars, state, active, raced, formVars, panel, settle, tmr, retries,
                 radioVars, air>>

(* load_credentials() empties s_ssid before it reads the card.             *)
StopBlank ==
  /\ ui = "blank"
  /\ ssid' = None
  /\ ui' = "load"
  /\ UNCHANGED <<sd, nvs, state, setupVars, formVars, panel, settle, tmr, retries, radioVars, air>>

StopApStays ==                   \* mutant: the mode is not switched back
  /\ ui = "load"
  /\ ssid' = LoadCredentials
  /\ ui' = IF ssid' # None THEN "config" ELSE "down"
  /\ UNCHANGED <<sd, nvs, state, setupVars, formVars, panel, settle, tmr, retries, radioVars, air>>

StopLoad ==
  /\ ui = "load"
  /\ ssid' = LoadCredentials
  /\ StationMode
  /\ ui' = IF ssid' # None THEN "config" ELSE "down"
  /\ UNCHANGED <<sd, nvs, state, setupVars, formVars, panel, settle, tmr, retries, cfg, air>>

StopConfig ==
  /\ \/ ui = "config" /\ Configure(ssid) /\ UNCHANGED state
     \/ ui = "down" /\ state' = "down" /\ UNCHANGED cfg
  /\ ui' = "idle" /\ panel' = FALSE /\ settle' = 0
  /\ UNCHANGED <<credVars, setupVars, formVars, tmr, retries, radio, events, air>>

TickPastThree ==                 \* mutant: the ticks are not counted from 0 again
  /\ ui = "idle" /\ panel
  /\ IF state = "softap" THEN UNCHANGED <<panel, settle>>
     ELSE IF settle = 2 THEN panel' = FALSE /\ settle' = settle + 1
     ELSE settle' = settle + 1 /\ UNCHANGED panel
  /\ UNCHANGED <<credVars, state, setupVars, formVars, ui, tmr, retries, radioVars, air>>

(* wifi_setup_tick(): the panel closes itself at the third tick in a row   *)
(* that finds the setup over.                                              *)
Tick ==
  /\ ui = "idle" /\ panel
  /\ IF state = "softap" THEN settle' = 0 /\ UNCHANGED panel
     ELSE IF settle = 2 THEN panel' = FALSE /\ settle' = 0
     ELSE settle' = settle + 1 /\ UNCHANGED panel
  /\ UNCHANGED <<credVars, state, setupVars, formVars, ui, tmr, retries, radioVars, air>>

-----------------------------------------------------------------------------
(* The forms, on their servers' tasks.                                     *)

(* softap_post_handler(): a form without an SSID is refused, but has set   *)
(* the pending SSID by then.                                               *)
SetupForm(s) ==
  /\ server /\ forms < MaxForms /\ Undisturbed /\ (SlowWorld => ~timer)
  /\ pending' = s
  /\ timer' = (timer \/ s # None)
  /\ forms' = forms + 1
  /\ UNCHANGED <<credVars, state, setupVars, webPending, webTimer, web, uiVars, tmr, retries,
                 radioVars, air>>

(* webcfg_clicked() stops the web server, or starts it once there is an IP *)
(* address to show; nothing else stops it.                                 *)
WebcfgClicked ==
  /\ ui = "idle" /\ ~panel
  /\ web \/ state = "up"
  /\ web' = ~web
  /\ UNCHANGED <<credVars, state, setupVars, pending, timer, webPending, webTimer, forms, uiVars,
                 tmr, retries, radioVars, air>>

(* webcfg's post_handler() with an SSID, or (None) only a password.        *)
WebForm(s) ==
  /\ web /\ radio \in {"up", "ap"} /\ Undisturbed /\ forms < MaxForms
  /\ sd' = IF s # None THEN s ELSE sd
  /\ webPending' = sd'
  /\ webTimer' = TRUE
  /\ forms' = forms + 1
  /\ UNCHANGED <<nvs, ssid, state, setupVars, pending, timer, web, uiVars, tmr, retries,
                 radioVars, air>>

-----------------------------------------------------------------------------
(* The esp_timer task: softap_apply_cb() and wifi_apply_cb().              *)

Apply ==
  /\ tmr = "idle" /\ timer
  /\ timer' = FALSE
  /\ tmr' = IF server THEN "server" ELSE "flag"
  /\ raced' = (raced \/ ui # "idle")
  /\ UNCHANGED <<credVars, state, active, server, pending, webPending, webTimer, web, forms, uiVars,
                 retries, radioVars, air>>

(* httpd_stop() has returned.                                              *)
ApplyServer ==
  /\ tmr = "server"
  /\ server' = FALSE
  /\ tmr' = "flag"
  /\ UNCHANGED <<credVars, state, active, raced, formVars, uiVars, retries, radioVars, air>>

ApplyFlag ==
  /\ tmr = "flag"
  /\ active' = FALSE
  /\ Persist(pending) \/ UNCHANGED nvs
  /\ tmr' = "mode"
  /\ UNCHANGED <<sd, ssid, state, server, raced, formVars, uiVars, retries, radioVars, air>>

ApplyMode ==
  /\ tmr = "mode"
  /\ ssid' = pending
  /\ StationMode
  /\ tmr' = "config"
  /\ UNCHANGED <<sd, nvs, state, setupVars, formVars, uiVars, retries, cfg, air>>

ApplyConfig ==
  /\ tmr = "config"
  /\ Configure(ssid)
  /\ tmr' = "idle"
  /\ UNCHANGED <<credVars, state, setupVars, formVars, uiVars, retries, radio, events, air>>

(* net_set_credentials(): to NVS first, and no further if that fails.      *)
WebApply ==
  /\ tmr = "idle" /\ webTimer
  /\ webTimer' = FALSE
  /\ \/ Persist(webPending) /\ Disconnect /\ tmr' = "web"
     \/ UNCHANGED <<nvs, tmr, radio, events>>
  /\ UNCHANGED <<sd, ssid, state, setupVars, pending, timer, webPending, web, forms, uiVars,
                 retries, cfg, air>>

(* With no SSID to apply, load_credentials() empties s_ssid and reads.     *)
WebBlank ==
  /\ tmr = "web" /\ webPending = None
  /\ ssid' = None
  /\ tmr' = "webload"
  /\ UNCHANGED <<sd, nvs, state, setupVars, formVars, uiVars, retries, radioVars, air>>

WebConnect ==
  /\ \/ tmr = "web" /\ webPending # None /\ ssid' = webPending
     \/ tmr = "webload" /\ ssid' = LoadCredentials
  /\ IF ssid' = None THEN state' = "down" /\ UNCHANGED <<cfg, radio>>
     ELSE IF radio = "connecting" THEN UNCHANGED <<cfg, radio, state>>
     ELSE Configure(ssid') /\ radio' = Connecting(ssid') /\ state' = "connecting"
  /\ tmr' = "idle"
  /\ UNCHANGED <<sd, nvs, setupVars, formVars, uiVars, retries, events, air>>

-----------------------------------------------------------------------------
(* on_wifi_event() and on_got_ip(), on the event task, and retry_task().   *)

Handles(e) == events # <<>> /\ Head(events) = e /\ events' = Tail(events)

OnStart ==
  /\ Handles("start")
  /\ IF ssid # None THEN radio' = Connecting(cfg) /\ state' = "connecting"
                    ELSE UNCHANGED <<radio, state>>
  /\ UNCHANGED <<credVars, setupVars, formVars, uiVars, tmr, retries, cfg, air>>

DisconnectedUnseen ==            \* mutant: the state is left as it is
  /\ Handles("disc")
  /\ IF active THEN UNCHANGED retries
     ELSE retries < MaxRetries /\ retries' = retries + 1
  /\ UNCHANGED <<credVars, state, setupVars, formVars, uiVars, tmr, cfg, radio, air>>

DisconnectedInSetup ==           \* mutant: s_softap_active is not cleared in time
  /\ Handles("disc")
  /\ IF active \/ panel THEN UNCHANGED <<state, retries>>
     ELSE retries < MaxRetries /\ retries' = retries + 1 /\ state' = "connecting"
  /\ UNCHANGED <<credVars, setupVars, formVars, uiVars, tmr, cfg, radio, air>>

OnDisconnected ==
  /\ Handles("disc")
  /\ IF active THEN UNCHANGED <<state, retries>>
     ELSE retries < MaxRetries /\ retries' = retries + 1 /\ state' = "connecting"
  /\ UNCHANGED <<credVars, setupVars, formVars, uiVars, tmr, cfg, radio, air>>

OnGotIp ==
  /\ Handles("ip")
  /\ state' = "up"
  /\ UNCHANGED <<credVars, setupVars, formVars, uiVars, tmr, retries, cfg, radio, air>>

RetryOnlyDown ==                 \* mutant: s_state == NET_DOWN
  /\ retries > 0
  /\ retries' = retries - 1
  /\ radio' = IF state = "down" THEN Connecting(cfg) ELSE radio
  /\ UNCHANGED <<credVars, state, setupVars, formVars, uiVars, tmr, cfg, events, air>>

Retry ==
  /\ retries > 0
  /\ retries' = retries - 1
  /\ radio' = IF state # "up" THEN Connecting(cfg) ELSE radio
  /\ UNCHANGED <<credVars, state, setupVars, formVars, uiVars, tmr, cfg, events, air>>

-----------------------------------------------------------------------------
(* The radio and the networks around.                                      *)

Post(e) == Len(events) < MaxEvents /\ events' = Append(events, e)

Joins ==
  /\ radio = "connecting" /\ cfg \in air /\ Undisturbed
  /\ radio' = "up" /\ Post("ip")
  /\ UNCHANGED <<credVars, state, setupVars, formVars, uiVars, tmr, retries, cfg, air>>

Loses ==
  /\ radio \in {"connecting", "up"} /\ cfg \notin air
  /\ radio' = "idle" /\ Post("disc")
  /\ UNCHANGED <<credVars, state, setupVars, formVars, uiVars, tmr, retries, cfg, air>>

AirChanges ==
  /\ air' \in SUBSET Nets
  /\ UNCHANGED <<credVars, state, setupVars, formVars, uiVars, tmr, retries, radioVars>>

-----------------------------------------------------------------------------
(* net_init(), with whatever the card and NVS were left with.              *)
Init ==
  /\ sd \in Ssids /\ nvs \in Ssids
  /\ ssid = LoadCredentials /\ cfg = ssid
  /\ radio = "idle" /\ events = <<"start">>
  /\ state = "down" /\ retries = 0
  /\ active = FALSE /\ server = FALSE /\ raced = FALSE
  /\ pending = None /\ timer = FALSE /\ webPending = None /\ webTimer = FALSE
  /\ web = FALSE
  /\ ui = "idle" /\ panel = FALSE /\ settle = 0 /\ tmr = "idle"
  /\ air \in SUBSET Nets /\ forms = 0

Stop   == StopTimer \/ StopServer \/ StopBlank \/ StopLoad \/ StopConfig
Timer  == \/ Apply \/ ApplyServer \/ ApplyFlag \/ ApplyMode \/ ApplyConfig
          \/ WebApply \/ WebBlank \/ WebConnect
Events == OnStart \/ OnDisconnected \/ OnGotIp
Radio  == Joins \/ Loses
World  == \/ WifiClicked \/ Cancel \/ WebcfgClicked \/ AirChanges
          \/ \E s \in Ssids : SetupForm(s) \/ WebForm(s)

Next == ApMode \/ Stop \/ Tick \/ Timer \/ Events \/ Retry \/ Radio \/ World

(* Every task of the device and the radio go on. Users need not, and the   *)
(* networks around come and go as they like.                               *)
Fairness ==
  /\ WF_vars(ApMode \/ Stop) /\ WF_vars(Tick) /\ WF_vars(Timer)
  /\ WF_vars(Events) /\ WF_vars(Retry) /\ WF_vars(Radio)

Spec     == Init /\ [][Next]_vars
FairSpec == Spec /\ Fairness

-----------------------------------------------------------------------------
(* Properties.                                                             *)

Queued(queue) == queue \in Seq({"start", "disc", "ip"}) /\ Len(queue) <= MaxEvents

(* Every variable holds a value of its type, within the bounds.            *)
TypeOK ==
  /\ sd \in Ssids /\ nvs \in Ssids /\ ssid \in Ssids /\ cfg \in Ssids
  /\ state \in {"down", "connecting", "up", "softap"}
  /\ {active, server, raced, panel} \subseteq BOOLEAN
  /\ pending \in Ssids /\ timer \in BOOLEAN /\ webPending \in Ssids /\ webTimer \in BOOLEAN
  /\ web \in BOOLEAN
  /\ ui \in {"idle", "ap", "stop", "server", "blank", "load", "config", "down"}
  /\ settle \in 0 .. 2 /\ retries \in 0 .. MaxRetries
  /\ tmr \in {"idle", "server", "flag", "mode", "config", "web", "webload"}
  /\ radio \in {"ap", "idle", "connecting", "up"}
  /\ Queued(events)
  /\ air \in SUBSET Nets /\ forms \in 0 .. MaxForms

Quiet == ui = "idle" /\ tmr = "idle"

(* The device "should keep trying forever" (net.c:33): with credentials    *)
(* and no setup going on, an idle station has an event or a retry coming   *)
(* that connects it again. Not so once a cancel and the apply timer have   *)
(* run at once: an STA_START handled while one of them has emptied s_ssid, *)
(* or a configuration filled then, leaves the station idle for good.       *)
KeepsTrying ==
  Quiet /\ ~raced /\ radio = "idle" /\ ssid # None => events # <<>> \/ retries > 0

(* NET_UP means "associated and holding an IP" (net.h:22), once the        *)
(* driver's events have been handled and no setup is going on, with the    *)
(* same exception.                                                         *)
UpIsUp ==
  Quiet /\ ~raced /\ ~active /\ state = "up" /\ events = <<>> => radio = "up"

(* The open access point is up only while a setup is (net.c:437): neither  *)
(* a form, nor a cancel, nor the two at once leave it behind.              *)
ApOnlyInSetup == Quiet /\ radio = "ap" => active

(* Once the network the device is configured for stays in reach, and the   *)
(* user stays out of the setup, the device gets online and stays so, with  *)
(* the same exception.                                                     *)
Settled == /\ Quiet /\ ~raced /\ radio # "ap" /\ ~timer /\ ~webTimer
           /\ ssid # None /\ cfg \in air
Reconnects == <>[]Settled => <>[](state = "up")
=============================================================================
