--------------------------------- MODULE Shell ---------------------------------
(***************************************************************************)
(* The shell, components/shell/shell.c: Home, Full list and Settings, and  *)
(* the way button events and touches lead from one to the other, with the  *)
(* pinned apps of settings.c and the screens that widget.c and settings.c  *)
(* open and delete.                                                        *)
(*                                                                         *)
(* The events come from Buttons, which Input implements. Everything else   *)
(* here runs in the LVGL task: shell_tick() takes the events until none is *)
(* left, the keypad's read callback turns the ring of keys into presses    *)
(* and releases, a touch clicks what is on the active screen. A step is    *)
(* one event, one read of the keypad, one click or one tick of a timer.    *)
(*                                                                         *)
(* Left out: what a widget and a view of Settings draw and do (Widget,     *)
(* Settings), the status bar, the count of seconds before the showcase     *)
(* advances, calibration. After a deleted screen has been loaded nothing   *)
(* is modelled: LVGL then works on freed memory.                           *)
(***************************************************************************)
EXTENDS Naturals, Sequences, Picks

CONSTANTS
  Present,    \* input_get_present_mask()
  QueueLen,   \* the input queue's length
  RingLen,    \* the keys s_key_ring can hold
  Registries, \* what a scan may find: sequences of app ids
  Binding,    \* the apps whose manifest binds B1+B2 click to refresh
  NeedsPc,    \* the apps that are unavailable without the PC agent
  MaxPins,    \* PINNED_MAX_APPS
  Patient,    \* the user waits until what was pressed before has been handled
  BlindEnter, \* may Enter be pressed over a widget opened from Full list
  None

Ids == UNION {{r[i] : i \in 1 .. Len(r)} : r \in Registries}
B1 == "B1"   B2 == "B2"   B3 == "B3"
Keys == {"PREV", "NEXT", "ENTER", "ESC"}

ASSUME ShellAssumption ==
  /\ {B1, B2} \subseteq Present /\ Present \subseteq {B1, B2, B3}
  /\ {QueueLen, RingLen, MaxPins} \subseteq Nat
  /\ Patient \in BOOLEAN /\ BlindEnter \in BOOLEAN
  /\ Registries # {} /\ Registries \subseteq Seq(Ids)
  /\ None \notin Ids \cup Keys

VARIABLES
  gesture, mask, last, queue, \* Buttons
  busy,      \* shell_tick() is in its loop
  mode,      \* s_mode: "home" or "list"
  editing,   \* s_brightness_editing
  scr,       \* the screens, see Screens
  focus,     \* the focused tile of Full list; the last one is Settings
  ring,      \* s_key_ring
  key,       \* s_key_active while s_key_pressed
  apps,      \* the registry's s_apps
  pins,      \* the pinned ids in NVS
  pinned,    \* s_pinned, as indices into apps
  pinnedIdx, \* s_pinned_idx
  showcase,  \* settings_showcase_enabled()
  rescan     \* the timer of rescan_clicked(): "off", "armed", or "late" once
             \* it has scanned with Settings closed

inputVars == <<gesture, mask, last>>
keyVars   == <<ring, key>>
homeVars  == <<pinned, pinnedIdx>>
settingsVars == <<apps, pins, showcase, rescan>>
vars == <<inputVars, queue, busy, mode, editing, scr, focus, keyVars, homeVars, settingsVars>>

Buttons == INSTANCE Buttons

(* What is on the display: the active screen, the open widget's slot in    *)
(* the registry with the app it was opened for, the s_prev_screen of       *)
(* widget.c and settings.c ("none": nothing open), and whether every       *)
(* screen that was loaded still existed.                                   *)
Screens == [active : {"home", "list", "widget", "settings", "gone"},
            widget : Nat, opened : Ids \cup {None},
            widgetPrev : {"none", "home", "list", "widget", "settings", "gone"},
            settingsPrev : {"none", "home", "list", "widget", "settings", "gone"},
            loaded : {"sound", "freed"}]

InWidget(r)   == r.widgetPrev # "none"
InSettings(r) == r.settingsPrev # "none"

-----------------------------------------------------------------------------
(* Screens.                                                                *)

Load(r, s) == [r EXCEPT !.active = s, !.loaded = IF s = "gone" THEN "freed" ELSE @]

Gone(s, d) == IF s = d THEN "gone" ELSE s
Delete(r, d) == [r EXCEPT !.active = Gone(@, d),
                          !.widgetPrev = Gone(@, d), !.settingsPrev = Gone(@, d)]

(* widget.c's statics: the app, its slot, the screen to go back to.        *)
WidgetIs(r, slot, id, prev) == [r EXCEPT !.widget = slot, !.opened = id, !.widgetPrev = prev]

WidgetClosedOver(r) ==   \* mutant: deleted with nothing loaded before
  IF ~InWidget(r) THEN r ELSE Delete(WidgetIs(r, 0, None, "none"), "widget")

(* widget_close(), settings_close().                                       *)
WidgetClosed(r) ==
  IF ~InWidget(r) THEN r
  ELSE Delete(WidgetIs(Load(r, r.widgetPrev), 0, None, "none"), "widget")

SettingsClosed(r) ==
  IF ~InSettings(r) THEN r
  ELSE Delete([Load(r, r.settingsPrev) EXCEPT !.settingsPrev = "none"], "settings")

(* widget_open(): the one before is closed first, and without memory for   *)
(* the new one nothing is open.                                            *)
WidgetOpened(r, slot) ==
  LET c == WidgetClosed(r)
  IN {c, Load(WidgetIs(c, slot, apps[slot], c.active), "widget")}

SettingsOpened(r) ==
  IF InSettings(r) THEN r
  ELSE Load([r EXCEPT !.settingsPrev = r.active], "settings")

-----------------------------------------------------------------------------
(* Home and Full list.                                                     *)

SlotOf(id) == CHOOSE i \in 1 .. Len(apps) :
                apps[i] = id /\ \A j \in 1 .. i - 1 : apps[j] # id
Found == Picked(pins, {apps[i] : i \in 1 .. Len(apps)})

(* settings_pinned_apps(): a pin whose app is gone is skipped.             *)
PinnedApps == [i \in 1 .. Len(Found) |-> SlotOf(Found[i])]

ShowHomeCounted(r) ==   \* mutant: the pins are read when their number changes
  /\ mode' = "home"
  /\ pinned' = IF Len(Found) = Len(pinned) THEN pinned ELSE PinnedApps
  /\ pinnedIdx' = IF pinnedIdx >= Len(pinned') THEN 0 ELSE pinnedIdx
  /\ scr' \in IF pinned' = <<>> THEN {Load(r, "home")}
              ELSE WidgetOpened(Load(r, "home"), pinned'[pinnedIdx' + 1])
  /\ UNCHANGED <<focus, keyVars, settingsVars>>

ShowHome(r) ==
  /\ mode' = "home"
  /\ pinned' = PinnedApps
  /\ pinnedIdx' = IF pinnedIdx >= Len(pinned') THEN 0 ELSE pinnedIdx
  /\ scr' \in IF pinned' = <<>> THEN {Load(r, "home")}
              ELSE WidgetOpened(Load(r, "home"), pinned'[pinnedIdx' + 1])
  /\ UNCHANGED <<focus, keyVars, settingsVars>>

HomeStep(dir) ==   \* dir: how many to go on, Len - 1 to go back
  /\ IF pinned = <<>> THEN UNCHANGED <<scr, pinnedIdx>>
     ELSE /\ pinnedIdx' = (pinnedIdx + dir) % Len(pinned)
          /\ scr' \in WidgetOpened(scr, pinned[pinnedIdx' + 1])
  /\ UNCHANGED <<mode, editing, focus, keyVars, pinned, settingsVars>>

ShowFullListOver ==   \* mutant: the pinned widget stays open
  /\ mode' = "list" /\ scr' = Load(scr, "list")
  /\ UNCHANGED <<editing, focus, keyVars, homeVars, settingsVars>>

ShowFullList ==
  /\ mode' = "list" /\ scr' = Load(WidgetClosed(scr), "list")
  /\ UNCHANGED <<editing, focus, keyVars, homeVars, settingsVars>>

(* Home from wherever one is, closing what is open.                        *)
LeaveOnly ==   \* mutant: Settings stays open
  ShowHome(WidgetClosed(scr)) /\ UNCHANGED editing

Leave ==
  /\ ShowHome(SettingsClosed(WidgetClosed(scr)))
  /\ editing' = (editing /\ ~InSettings(scr))

GoHome ==
  \/ mode = "list" /\ Leave
  \/ mode # "list" /\ UNCHANGED <<mode, editing, scr, focus, keyVars, homeVars, settingsVars>>

-----------------------------------------------------------------------------
(* Events.                                                                 *)

Three == B3 \in Present

IsEnter(ev) == ev.kind = "click" /\ ev.mask = IF Three THEN {B3} ELSE {B1, B2}
IsForce(ev) == ev.kind = "long"  /\ ev.mask = IF Three THEN {B1, B2, B3} ELSE {B1, B2}
IsHome(ev) ==
  \/ ev.mask = {B1} /\ ev.kind = "long"
  \/ Three /\ ev.mask = {B1, B3} /\ ev.kind = "click"

Refreshes(ev) ==
  /\ InWidget(scr) /\ scr.opened \in Binding
  /\ ev.mask = {B1, B2} /\ ev.kind = "click"

(* translate_key().                                                        *)
KeyOf(ev) ==
  IF ev.mask = {B1} /\ ev.kind \in {"click", "repeat"} THEN "PREV"
  ELSE IF ev.mask = {B2} /\ ev.kind \in {"click", "repeat"} THEN "NEXT"
  ELSE IF IsEnter(ev) THEN "ENTER"
  ELSE IF Three /\ ev.mask = {B3} /\ ev.kind = "long" THEN "ESC"
  ELSE None

(* handle_system_chord() and shell_tick(): who gets the event, the first   *)
(* that wants it.                                                          *)
Steps(ev) == ev.kind = "click" /\ ev.mask \in {{B1}, {B2}}
Route(ev) ==
  IF IsHome(ev) THEN "home"
  ELSE IF mode = "home" /\ ~InSettings(scr) /\ IsEnter(ev) THEN "list"
  ELSE IF IsForce(ev) THEN "force"
  ELSE IF mode = "home" /\ Steps(ev) THEN "step"
  ELSE IF editing /\ Steps(ev) THEN "brightness"
  ELSE IF Refreshes(ev) THEN "refresh"
  ELSE IF KeyOf(ev) # None THEN "key"
  ELSE "nobody"

KeyPush(k) ==
  /\ ring' = IF Len(ring) < RingLen THEN Append(ring, k) ELSE ring
  /\ UNCHANGED <<mode, editing, scr, focus, key, homeVars, settingsVars>>

Dispatch(ev) ==
  \/ Route(ev) = "home" /\ GoHome
  \/ Route(ev) = "list" /\ ShowFullList
  \/ Route(ev) = "force" /\ Leave
  \/ Route(ev) = "step" /\ HomeStep(IF ev.mask = {B1} THEN Len(pinned) - 1 ELSE 1)
  \/ Route(ev) = "key" /\ KeyPush(KeyOf(ev))
  \/ /\ Route(ev) \in {"brightness", "refresh", "nobody"}
     /\ UNCHANGED <<mode, editing, scr, focus, keyVars, homeVars, settingsVars>>

(* shell_tick(): one event of its loop, which runs until none is left.     *)
Tick ==
  /\ Buttons!Take /\ Dispatch(Head(queue))
  /\ busy' = (queue' # <<>>)

(* showcase_tick(), when its count is up.                                  *)
Showcase ==
  /\ ~busy /\ mode = "home" /\ Len(pinned) >= 2 /\ showcase
  /\ HomeStep(1)
  /\ UNCHANGED <<inputVars, queue, busy>>

-----------------------------------------------------------------------------
(* What a click does.                                                      *)

Tiles == 1 .. Len(apps) + 1

(* app_clicked(), settings_clicked().                                      *)
TileClicked(i) ==
  /\ scr' \in IF i = Len(apps) + 1 THEN {SettingsOpened(scr)}
              ELSE WidgetOpened(scr, i) \cup (IF apps[i] \in NeedsPc THEN {scr} ELSE {})
  /\ UNCHANGED <<mode, editing, homeVars, settingsVars>>

(* Settings' rows, as far as the shell depends on them.                    *)
Without(s, id) == Picked(s, Ids \ {id})
PinToggledPastEnd(id) ==   \* mutant: n <= PINNED_MAX_APPS
  IF \E i \in 1 .. Len(pins) : pins[i] = id THEN Without(pins, id) ELSE Append(pins, id)

PinToggled(id) ==
  IF \E i \in 1 .. Len(pins) : pins[i] = id THEN Without(pins, id)
  ELSE IF Len(pins) < MaxPins THEN Append(pins, id) ELSE pins

PinSwitched ==
  /\ \E i \in 1 .. Len(apps) : pins' = PinToggled(apps[i])
  /\ UNCHANGED <<editing, focus, apps, showcase, rescan>>

ShowcaseSwitched == showcase' = ~showcase /\ UNCHANGED <<editing, focus, apps, pins, rescan>>

(* The brightness slider, or what leaves it.                               *)
SliderClicked == editing' = ~editing /\ UNCHANGED <<focus, apps, pins, showcase, rescan>>

(* app_registry_scan() finds what is on the card by now and                *)
(* shell_refresh_app_list() builds the tiles anew; show_view() then builds *)
(* the view of Settings anew.                                              *)
Scanned     == apps' \in Registries /\ focus' = 1 /\ UNCHANGED <<pins, showcase>>
ViewScanned == Scanned /\ editing' = FALSE

(* A delete confirmed scans at once (as another theme builds the tiles     *)
(* anew); rescan_clicked() has a timer of 30 ms do it, and disables its    *)
(* row: no one gets to a new row before the timer has run.                 *)
DeleteConfirmed == ViewScanned /\ UNCHANGED rescan
RescanClicked ==
  /\ rescan = "off" /\ rescan' = "armed"
  /\ UNCHANGED <<editing, focus, apps, pins, showcase>>

RowClicked ==
  /\ PinSwitched \/ ShowcaseSwitched \/ SliderClicked \/ DeleteConfirmed \/ RescanClicked
  /\ UNCHANGED <<mode, scr, homeVars>>

(* rescan_do(), which settings_close() does not call off: with Settings    *)
(* closed show_view() follows the scan on a list that is not there.        *)
RescanDo ==
  /\ ~busy /\ rescan = "armed"
  /\ \/ InSettings(scr) /\ ViewScanned /\ rescan' = "off"
     \/ ~InSettings(scr) /\ Scanned /\ rescan' = "late" /\ UNCHANGED editing
  /\ UNCHANGED <<inputVars, queue, busy, mode, scr, keyVars, homeVars>>

(* catalog_install_status_cb() and fetch_status_cb() at the end of a job,  *)
(* on the job's task: the first scans if Settings is open.                 *)
InstallEnds ==
  /\ ~busy /\ InSettings(scr) /\ ViewScanned
  /\ UNCHANGED <<inputVars, queue, busy, mode, scr, keyVars, homeVars, rescan>>

FetchEnds ==
  /\ ~busy /\ focus' = 1
  /\ UNCHANGED <<inputVars, queue, busy, mode, editing, scr, keyVars, homeVars, settingsVars>>

(* keypad_read_cb(), twice per key. PREV and NEXT act when pressed, ENTER  *)
(* clicks when released, on the group of Settings while it is open and on  *)
(* the tiles otherwise, whatever screen is active.                         *)
Moved(k) ==
  CASE InSettings(scr) \/ k \notin {"PREV", "NEXT"} -> focus
    [] k = "NEXT" -> IF focus = Len(apps) + 1 THEN 1 ELSE focus + 1
    [] OTHER      -> IF focus = 1 THEN Len(apps) + 1 ELSE focus - 1

KeyPressed ==
  /\ ~busy /\ key = None /\ ring # <<>>
  /\ key' = Head(ring) /\ ring' = Tail(ring) /\ focus' = Moved(key')
  /\ UNCHANGED <<inputVars, queue, busy, mode, editing, scr, homeVars, settingsVars>>

KeyReleased ==
  /\ ~busy /\ key # None /\ key' = None
  /\ \/ key = "ENTER" /\ InSettings(scr) /\ RowClicked
     \/ key = "ENTER" /\ ~InSettings(scr) /\ TileClicked(focus) /\ UNCHANGED focus
     \/ key # "ENTER" /\ UNCHANGED <<mode, editing, scr, focus, homeVars, settingsVars>>
  /\ UNCHANGED <<inputVars, queue, busy, ring>>

Quiet == queue = <<>> /\ ring = <<>> /\ key = None

Touch ==
  /\ ~busy /\ (Patient => Quiet)
  /\ \/ /\ scr.active = "list"
        /\ \E i \in Tiles : TileClicked(i) /\ focus' = i
     \/ scr.active = "settings" /\ RowClicked
  /\ UNCHANGED <<inputVars, queue, busy, keyVars>>

(* Enter where a tile one cannot see would be clicked.                     *)
Blind(ev) == /\ IsEnter(ev) /\ ~Refreshes(ev)
             /\ mode = "list" /\ scr.active = "widget"

Press ==
  /\ Buttons!User
  /\ Patient /\ queue' # queue => Quiet
  /\ BlindEnter \/ \A i \in Len(queue) + 1 .. Len(queue') : ~Blind(queue'[i])
  /\ UNCHANGED <<busy, mode, editing, scr, focus, keyVars, homeVars, settingsVars>>

(* shell_start() after app_registry_scan(): Home as it was left in NVS.    *)
Booted == [active |-> "home", widget |-> 0, opened |-> None, widgetPrev |-> "none",
           settingsPrev |-> "none", loaded |-> "sound"]
Start ==
  /\ Buttons!Init /\ busy = FALSE
  /\ mode = "home" /\ editing = FALSE /\ focus = 1
  /\ ring = <<>> /\ key = None /\ rescan = "off"
  /\ apps \in Registries
  /\ pinned = PinnedApps /\ pinnedIdx = 0
  /\ scr \in IF pinned = <<>> THEN {Booted} ELSE WidgetOpened(Booted, pinned[1])

PinLists == {s \in UNION {[1 .. n -> Ids] : n \in 0 .. MaxPins} :
               \A i, j \in DOMAIN s : s[i] = s[j] => i = j}

Init == pins \in PinLists /\ showcase \in BOOLEAN /\ Start

(* show_view() hands LVGL the s_list that settings_close() has set to      *)
(* NULL: LVGL stops there, on an assertion or a fault. Nothing follows but *)
(* a reset, which only NVS survives.                                       *)
Reset ==
  /\ rescan = "late" /\ UNCHANGED <<pins, showcase>>
  /\ gesture' = "none" /\ mask' = {} /\ last' = {} /\ queue' = <<>>
  /\ busy' = FALSE /\ mode' = "home" /\ editing' = FALSE /\ focus' = 1
  /\ ring' = <<>> /\ key' = None /\ rescan' = "off"
  /\ apps' \in Registries
  /\ pinned' = PinnedApps' /\ pinnedIdx' = 0
  /\ scr' \in IF pinned' = <<>> THEN {Booted} ELSE WidgetOpened(Booted, pinned[1])'

Next ==
  /\ scr.loaded = "sound"
  /\ \/ Reset
     \/ /\ rescan # "late"
        /\ \/ Press \/ Tick \/ Showcase \/ KeyPressed \/ KeyReleased \/ Touch
           \/ RescanDo \/ InstallEnds \/ FetchEnds
Spec == Init /\ [][Next]_vars

-----------------------------------------------------------------------------
TypeOK ==
  /\ Buttons!TypeOK
  /\ busy \in BOOLEAN /\ editing \in BOOLEAN /\ mode \in {"home", "list"} /\ scr \in Screens
  /\ focus \in Tiles
  /\ ring \in Seq(Keys) /\ Len(ring) <= RingLen
  /\ key \in Keys \cup {None}
  /\ apps \in Registries /\ showcase \in BOOLEAN /\ rescan \in {"off", "armed", "late"}
  /\ pins \in Seq(Ids) /\ Len(pins) <= MaxPins
  /\ \A i, j \in 1 .. Len(pins) : pins[i] = pins[j] => i = j
  /\ pinned \in Seq(Nat \ {0}) /\ pinnedIdx \in Nat

(* What is on the display is the newest of what is open: nothing that was  *)
(* closed is shown, nothing open is hidden under a list, and no screen is  *)
(* waiting to go back to one that was deleted.                             *)
ScreenShown ==
  /\ scr.active = IF InSettings(scr) THEN "settings" ELSE IF InWidget(scr) THEN "widget" ELSE mode
  /\ "gone" \notin {scr.widgetPrev, scr.settingsPrev}

(* "Any screen: B1 long: always Home" (docs/shell-navigation.md), and the  *)
(* escape hatch likewise: after either, Home is shown, on its pinned       *)
(* widget if there is one, with Settings closed, and no deleted screen was *)
(* loaded on the way.                                                      *)
AtHome ==
  /\ mode = "home" /\ ~InSettings(scr) /\ scr.loaded = "sound"
  /\ scr.active = IF InWidget(scr) THEN "widget" ELSE "home"
Escapes == queue # <<>> /\ queue' = Tail(queue) /\ (IsHome(Head(queue)) \/ IsForce(Head(queue)))
HomeReached == [][Escapes => AtHome']_vars

(* Home shows pinned apps only, the one its index counts to among those    *)
(* whose app is there, whatever was pinned, unpinned, renumbered by scans  *)
(* or stepped through since, up to a reset that a late rescan leads to.    *)
HomeShowsPin ==
  mode = "home" /\ InWidget(scr) /\ rescan # "late" =>
    pinnedIdx < Len(Found) /\ scr.opened = Found[pinnedIdx + 1]

(* The slot an open widget was opened from still holds the same app: its   *)
(* id, directory and name are read there for as long as it is open. The    *)
(* one scan that runs under a widget is that of a rescan clicked just      *)
(* before Settings was closed, and it ends in a reset.                     *)
AppStable ==
  InWidget(scr) => \/ rescan = "late"
                   \/ scr.widget <= Len(apps) /\ apps[scr.widget] = scr.opened
=============================================================================
