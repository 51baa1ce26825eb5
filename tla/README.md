# deskos: models and proofs

TLA+ models of the firmware in `src/components` (an ESP32 desk display: widgets
described by JSON files on an SD card, drawn with LVGL, on FreeRTOS tasks), and
of the part of the PC agent (`src/agent/DeskosAgent`) it talks to. TLC checks
each model on a small installation; TLAPS proves, for every installation, every
invariant that the runs check, the action properties, and that the button decoder
implements its abstract specification. What is left to TLC alone is liveness.

## 1. The system

Everything runs on one dual-core chip. Tasks share file-scope `static`
variables. There is one big lock, the LVGL port's (`lvgl_port_lock`), held by
every LVGL callback and timer and taken, with a timeout, by the other tasks
when they want to draw; there are few other locks. Results are handed over by
callbacks. Most of the hard behaviour follows from that: state read before a
lock and used after it, callbacks into a screen that has been closed, timers
and tasks that outlive what started them, locks that time out.

| Component | Source | State it keeps | Operations |
|---|---|---|---|
| Widget runtime | `widget/widget.c` | the open app, its sources, host topics, config, combined document, cache mark, status, pages, one task per widget | open, close, next page, refresh, the refresh and clock tasks, host push, cache file |
| Data sources | `widget/datasource*.c` | none (pure), or one HTTP request | fetch JSON, render a template with filters |
| Host client | `host/host.c` | token, state, client handle, fatal flag, fail streak, subscription, data callback | supervisor pass, connection events, set topics, register callback |
| PC agent | `agent/DeskosAgent/DeviceServer.cs` | per connection: accepted, subscribed topics | hello, subscribe, push loop |
| WiFi | `net/net.c` | credentials (card, NVS, default), state, setup flag, setup form and its timer | station events, retry, setup start, stop and apply, new credentials |
| Web configuration | `webcfg/webcfg.c` | server handle, pending SSID and its timer | start, stop, form, apply |
| Settings screen | `shell/settings.c` | the list shown, pointers to some rows, two panels, timers, pinned apps | category views, panels, delete, rescan, start of jobs, their reports |
| Background jobs | `fetch/fetch.c`, `catalog/catalog.c`, `ota/ota.c` | one running flag per job, last result | run, check, install, update |
| App registry | `registry/app_registry.c` | array of at most 32 apps, scan errors | scan, find, action lookup, delete |
| Shell | `shell/shell.c` | screens, focus groups, key ring, mode, calibration | chords, key translation, home, full list, showcase |
| Input | `input/input.c` | the debounced sample, the chord and its stamps, the last click, the event queue | poll and decode, take an event |
| Boot | `main/main.c`, with `ota/ota.c` and the bootloader | the two image slots, otadata, the unpacked files, how far `app_main()` is | unpack files, bring up, confirm, update, reset |
| Board | `bsp/*` | hardware handles | initialise once |

How they interact. The shell's LVGL callbacks open and close widgets and the
settings screen. A widget calls `host_set_topics()` and `host_on_data()`; the
host's websocket task calls back into the widget. The settings screen starts
jobs; the jobs' tasks call back into it. The settings screen starts and cancels
the WiFi setup; the esp_timer task applies a form two seconds after it came;
the event task reacts to the driver. The web form goes through
`net_set_credentials()`. A rescan changes the registry's array under everyone
who holds a pointer into it.

What makes each part correct:

- Widget: a widget shows and caches only what it fetched itself; closing waits
  for the task and leaves none behind; the
  widget's own config wins over an old cache; a due source is fetched; pages
  are restored. (That cached data is always marked does not hold: see the hazards.)
- Host: the agent ends up with the subscription of the widget that is open; UP
  means accepted; a bad token does not wedge the client; the client handle is
  not destroyed under a caller.
- WiFi: a configured device never stops trying; the state shown is the state
  of the radio; the open access point is on only during the setup. (That
  cancelling restores and that blank fields touch nothing does not hold: see the
  hazards.)
- Settings and jobs: no pointer to a deleted row is used; a report is not lost;
  what the list shows is what the registry holds; what is deleted is what was
  confirmed.
- Shell: Home is reachable from every screen; the display shows the newest of
  what is open and goes back to nothing deleted; Home shows a pinned app.
- Input: a press of one or more buttons is one gesture, a click or a long press;
  no bounce makes a button; every press is decided and ends.
- Boot: there is always an image to fall back on; the image confirmed last stays;
  its files are its own; the device comes up again.

## 2. Modules

| Module | Models | Extended by |
|---|---|---|
| `Widget` | widget.c with its tasks, the host callback's two halves, and a card and network that change | `MCWidget` (a weather widget, a desk widget, a clock), `Widget_proofs` |
| `Host` | host.c's supervisor, websocket task and LVGL calls, the socket, DeviceServer.cs's receive and push loops | run directly, `Host_proofs` |
| `Settings` | settings.c, the tasks of fetch.c, catalog.c and ota.c as far as the screen sees them, scan and delete of app_registry.c, and the card | `MCSettings`, `Settings_proofs` |
| `Net` | net.c, the WiFi setup panel of settings.c, the WiFi half of webcfg.c, the driver and the networks around | run directly, `Net_proofs` |
| `Buttons` | abstract: what input.h promises of the events of a press | instantiated by `Input` and `Shell` |
| `Input` | input.c's decoder task and its queue | run directly, `Input_proofs` |
| `Shell` | shell.c, with the screens of widget.c and settings.c and the pins of settings.c; its events come from `Buttons` | `MCShell` (a card whose apps come and go), `Shell_proofs` |
| `Boot` | main.c, the slots ota.c writes, the bootloader | run directly, `Boot_proofs` |
| `Picks` | no part of the system: what a loop that copies the wanted entries of an array leaves (`SelectSeq`, without the recursion that no prover here follows) | used by `Settings` and `Shell`; `MCSettings` and `MCShell` compare it with `SelectSeq` |
| `SeqLemmas` | no part of the system: lemmas about queues, picked entries and first places | used by `Host_proofs`, `Net_proofs`, `Settings_proofs`, `Shell_proofs` |

Every action is one stretch of one task between two points where another task
may get in: taking or dropping the lock, a blocking call, a wait, a FreeRTOS
delay. `PROJECT.json` maps each definition to the lines it stands for.

### 2.1 Widget

The LVGL task is `ui`/`next`: `Open` and `Close` go as far as the wait loop of
`widget_close()` (which gives the LVGL lock up), `CloseDone`/`CloseGivesUp` are
what happens when the task has gone, or has not after two seconds. A refresh
task goes through `Top`, `Scan`, `Fetched`, `Merge`, `WriteCache`, `Status`,
`Sleep`, `Count`; `Merge` is the critical section, `WriteCache` runs after the lock has
been dropped and reads `s_app` again, as the code does. After its delay the task
counts the second for each source without the lock: `Sleep` reads the first
`elapsed_s`, each `Count` writes one and reads the next, so a
`widget_refresh_now()` in between is undone, as in the code. `PushStarts` and
`PushLands` are the two halves of a host push: `host.c` has tested the callback
pointer, then calls it.

Data is reduced to provenance. A body is named by the URL it was fetched from, a
pushed value by its topic, a config value by the version of the ui.jsonl it was
read from; so "whose data is this" is visible in the document and in the cache
files. `MergeAll` and `Overlay` are `merge_source()` and `merge_fields()` on
such documents.

`TaskOutlastsClose` says whether a task may take longer than the 2 s that
`widget_close()` waits, wherever it is: in a fetch (timeout 10 s in
`datasource_http.c`), in the wait for the lock, in the write of the cache. The code
allows it, and gives up. With TRUE, `widget_slices` shows what goes wrong; with FALSE
the runs and proofs show that nothing else does.

### 2.2 Host

`sup` is the position in a supervisor pass, `ws` that of the websocket task in
`handle_message()`, `ui` that of the LVGL task in `host_set_topics()`. The
subscribe of a `hello_ack` and that of `host_set_topics()` each take a snapshot
of the topics and send later. The agent handles messages in order; the two
queues are bounded by `MaxInFlight` and go with the connection.

### 2.3 Net

`ui` is the LVGL task in `net_softap_start()`/`net_softap_stop()`, `tmr` the
esp_timer task in `softap_apply_cb()`/`wifi_apply_cb()`, `events` the queue
between the driver and the event task, `retries` the retry tasks alive. `radio`
and `air` are the external driver and networks: `connecting` always ends in
`up` or in a DISCONNECTED event, a mode change loses pending connections, a
connect with an empty configuration fails without an event (external: modelled
from the documented behaviour of esp_wifi as net.c relies on it).
`load_credentials()` empties `s_ssid` before it reads the card: `StopBlank` and
`StopLoad` are its two halves under Cancel, `WebBlank` and `WebApply` under the web
form; `Apply`, `ApplyServer`, `ApplyFlag`, `ApplyMode` and `ApplyConfig` are the
pieces of `softap_apply_cb()`. `raced` remembers that a cancel and that callback
have run at once.
`SlowWorld` excludes coincidences a person cannot produce: a form that arrives
within the microseconds of a running apply or cancel. `StartFails` is a failure
of the access point to start.

### 2.4 Settings

`view` and `ptrs` are `s_list` and the file-scope pointers to some of its rows:
`ShowView` is `show_view()`, which deletes all rows, nulls every pointer and
builds the rows of a view; `Closed` is the end of `settings_close()`, which
nulls them one by one. A use of a pointer whose row is gone is undefined, so
the model lets it do nothing or restart the device (`Wild`, `trigger = "gone"`);
a use that LVGL or the code certainly traps (a NULL label, a view without a
screen) restarts it. `panel` is one of the two panels that cover the list:
while one is open no row can be clicked, but reports may rebuild what is under
it.

The four jobs are `fetch`, `check`, `install` and `ota`; each step of theirs is
what the task does between two reports, and each `...Report`, `...Starts` or
`...Ends` is one callback under the LVGL lock, or without effect where the lock
was not had in 200 ms (`LockTimesOut`). The running flag of a job is folded into
its last report. On the card only the manifest of each app directory is kept:
absent, half written or unreadable, or good; a file is truncated before it is
filled. `apps` is the registry's array; `tiles` and `rows` are the apps that the
tiles of the full list and the rows of the Apps view were built from.

Fetch and install write to different directories (`SettingsAssumption`); that
the code lets them write to the same one is a hazard no property covers. Left
out: theme and clock format (each one stored value), HTTP, JSON, progress and the
comparison of versions. Pins, the brightness slider and the showcase switch are
in `Shell`.

### 2.5 Input and Buttons

A step of `Input` is one turn of the loop in `input_task()`: it samples any set of
buttons (a bounce is two samples that differ), debounces (`Debounce`) and runs the
state machine (`Idle`, `Begin`, `Collect`, `Hold`, `Released`). A time stamp is an
age in polls, and a turn may come up to `MaxLate` polls late. `Get` is the reader.
`downAge` and `steady` are ghosts: how long each button has been sampled down, and
which have been down for the debounce time since the decoder was last idle.

`Buttons` says what the reader of the events may rely on, without clocks: a gesture
gathers buttons, settles, and ends as a click (with a double click if it repeats
the last) or as a long press with its repeats and its release. `ImplementsButtons`
is that `Input` is `Buttons` when `ST_COLLECT` is read as gathering and `ST_HELD`
as settled, or as long once `long_fired`. `Shell` takes `Buttons` for its
environment, so what holds in `Shell` holds with the decoder.

### 2.6 Shell

Everything in shell.c runs in the LVGL task, one callback after the other: `Tick`
is one event in the loop of `shell_tick()` (`busy` while it loops), `Route` the
order in which system chords, Home, the brightness slider, the widget's own
bindings and the keypad are asked; `KeyPressed` and `KeyReleased` are the two
reads of a key; `Touch` and `Showcase` are the others. `scr` is what LVGL holds:
the active screen, the widget with the slot and app it was opened for, and the two
`s_prev_screen` pointers of widget.c and settings.c. A screen that is deleted turns
every pointer to it into "gone"; `loaded` says whether one such was ever loaded,
after which nothing more is modelled.

A row of Settings is one of `PinSwitched`, `ShowcaseSwitched`, `SliderClicked`,
`DeleteConfirmed` and `RescanClicked`. The last only starts the timer of 30 ms whose
callback is `RescanDo`. `settings_close()` does not delete that timer: if Settings
is closed first, `rescan` is "late" between the scan and the use of the closed
screen's list in the same callback, and `Reset` is what follows. `InstallEnds` and
`FetchEnds` are the reports that rebuild Full list; here `Scanned` couples the scan
and the new tiles, as each of their call sites does (`Settings` has the same for
`TilesFresh`).

`TileClicked` clicks what is focused in Full list's group, which is what Enter
does whatever screen is on the display. Two constants say what a user does not do:
`Patient`, act again before what was pressed before has been handled (10 ms ticks
and two keypad reads), and `BlindEnter`, press Enter over a widget that was opened
from Full list and binds nothing to it. The second is easily done, and
`shell_blind` shows what comes of it.

### 2.7 Boot

`step` is how far `app_main()` is. `Provision` is `write_if_changed()` for one file,
which may also fail to open it or leave it short; `BringUp` stands for all the
checks from the display to `shell_start()`, `Abort` for the one that fails, and
`Confirm` for `esp_ota_mark_app_valid_cancel_rollback()`, whose error is only logged
and leaves the image on trial. `good` is a ghost, the slot confirmed last. `Cut` is a reset or a
power cut anywhere. The bootloader and esp_https_ota are external (`PowerOn`,
`UpdateBegins`, `UpdateEnds`), modelled from what main.c and ota.c say of
them: an update goes to the slot that is not running and is refused under an
image on trial; an image reset before it was confirmed is not tried again. An
image either comes up (`Healthy`) or fails a check on the way (`Dead`). The image
flashed over USB is healthy. All images unpack the same list of files: a built-in app
that only another image had, which nothing removes, is outside the model.

## 3. Runs

| Run | Expect | Question |
|---|---|---|
| `widget_waits` | pass | Three apps, one task at a time, any interleaving with pushes, edits and the network: whose data is shown and cached, are tasks accounted for, does the config win, are pages restored |
| `widget_overrun` | pass | Two sources, a task that outlasts the close: is nothing left behind, is every due source fetched in the end |
| `widget_slices` | violation | A fetch that outlasts the close lands in the next widget's slice |
| `host_session` | pass | Does the subscription converge, does UP mean accepted, does the device come up again for good |
| `host_client` | violation | The client is destroyed under `host_set_topics()` |
| `net_setup` | pass | Setup, forms, events, retries, a cancel at the same time as the apply timer: is the access point on only in the setup, and, without that race, does the device never stop trying, is UP up, does it get online |
| `settings` | pass | All four jobs in any interleaving with clicks: is what is listed what the registry holds, is what is deleted what was tapped, is an update one that the last check found, does an install get listed |
| `settings_dangling` | violation | A job that goes on after Home reports to a row that is gone |
| `input` | pass | Two bouncing buttons and a late task: are the events those of `Buttons`, is no button made up, is every press decided and ended |
| `shell` | pass | Buttons, touches, showcase, pins, scans and a rescan that comes late: is the newest of what is open shown, does Home show the right pin, does no other scan run under a widget, is Home always reached |
| `shell_blind` | violation | Enter over a widget opens Settings behind it; going Home then loads a deleted screen |
| `boot` | pass | Resets and cuts anywhere, good and dead updates: is there always an image to fall back on, are its files its own, is the image confirmed last kept, does the device come up |

Bounds, and why they are enough.

- `widget_waits`: two widgets with sources or topics and a clock, so that every
  kind of task is opened after every other; two sources in one widget, one
  unnamed and one named, so that merging by index can go wrong; two versions of
  a ui.jsonl with two pages and one, so that a saved page can be out of range;
  `Every = 1`: a source is due at each tick (the code only compares with the
  period).
- `widget_slices`: two tasks, because a third one can only repeat what the second
  does to the first. `widget_overrun`: two sources with a period of two ticks, so
  that a source can be due while the other is not and a refresh can be undone; one
  task, which may outlast its widget (the next opening then gets none).
- `host_session`: two topics, one of them unsupported; one broken connection;
  two messages in flight in each direction; a threshold of two failures, the
  smallest that tells a streak from a single failure.
- `net_setup`: one network, two forms, four events, two retry tasks. A guard that needs
  a free slot waits for one; the queue of the ESP event loop is deeper than four. The device has credentials;
  one that never had any may be left idle by its first setup (see the hazards).
- `settings`: three app directories (one built in) for a registry of two, so that
  an install may push another app out of the list and renumber the slots, as
  happens at the limit of 32; catalogs that name one app, so that check and
  install can follow each other; reports get the lock: where a report
  is lost, nothing retries it, and `UpdateConfirmed` and `InstallListed` cannot
  hold. `TilesFresh` and `DeletesChosen` are proved for either value.
- `input`: the two buttons that `app_main()` wires. DEBOUNCE, CHORD, LONG, REPEAT
  and DOUBLE are 1, 2, 4, 2 and 4 polls (the code: 2, 10, 100, 50 and 60), in the
  same order, so that every test on an age goes both ways and a double click can
  follow a click, also with a late poll (`MaxLate = 2`); a queue of two, which a
  click with its double click fills, so that events are dropped. The proofs hold
  for every value.
- `shell`: two buttons; a registry that a scan finds with two or no apps, in
  either order, one built in that binds a refresh and one that needs the PC; up to two
  pins, any of them from the start, so that the index can be out of range and the limit is met; a queue
  and a ring of two (the code: 16 and 7). Everything the run checks is proved for
  every value.
- `boot`: two healthy images and a dead one, so that an update of an update and a
  failed one happen in either slot; two files.

The largest runs are `shell` (3.6 million states), `widget_waits` (2.6 million) and
`net_setup` (0.7 million).

Fairness. FreeRTOS schedules every ready task (all tasks involved block often),
so each task of the device is weakly fair. Users, widgets being opened, the
network, the agent's pushes and edits of the card are not. `AllServed` needs the
refresh task's fairness only, and leaves out a network that goes down and a widget
that is closed. In `Settings` only the
install's task is fair, as only it is the subject of a liveness property. A fetch ends: the
HTTP client has a timeout. In `Host` the noticing of an ended connection is
fair (the client pings), its breaking is not. `Input` is fair to the polls that
find something held or changed (the task runs for ever) and not to its reader: what
is promised holds whether or not events are taken. `Boot` is fair to the bootloader
and to `app_main()`; updates and cuts are not. `Shell` has no liveness property.

## 4. Proofs

`Widget_proofs`:

| Theorem | Says | Assumes |
|---|---|---|
| `TypeCorrect` | `Spec => []TypeOK` | `WidgetAssumption` |
| `ConfigAlwaysWins` | `Spec => []ConfigWins` | nothing more: also when tasks outlast closes |
| `TasksAccounted` | `[]TaskAccounted` | `~TaskOutlastsClose` |
| `AppThereToWrite` | `[]AppWhileWriting` | `~TaskOutlastsClose` |
| `WidgetsApart` | `[]SlicesOwned` (with the caches) | `~TaskOutlastsClose` |
| `CachesApart` | `[]CachesOwned` | `~TaskOutlastsClose` |
| `ClosedLeavesNothing` | `Spec => []ClosedIsClean` | nothing more: also when tasks outlast closes |
| `PageAlwaysRestored` | `Spec => []PageRestored` | nothing more |

They hold for any set of apps, sources, topics, fields, pages and task ids. The
argument for the two `...Apart`: `SlicesOwned` is not inductive, since a merge goes by index
into whatever `s_sources` holds. One has to know that (1) `s_sources` is what the
open app's ui.jsonl declares (`SrcsMatch`), (2) at most one task lives, and
none without `s_task` naming it, so that `Open` meets no task (`Accounted`),
(3) what that task has in hand was fetched from the source at that index of the
open app, and the cache text it carries is owned (`InHand`). The conjunction
`Owned` of those with the property is inductive. `ConfigWins` needs only
`SrcsMatch`: a source cannot land in the config field. `PageRestored` needs
only that a view that is shown is an open app's (`PageInv`); `ClosedIsClean` that
a merge that comes after the close finds no source to merge into (`SrcsMatch`
again). `WidgetAssumption` is
checked by TLC in every run of `MCWidget`.

`Host_proofs`:

| Theorem | Says | Assumes |
|---|---|---|
| `HostTypeCorrect` | `Spec => []TypeOK` | `HostAssumption` |
| `UpMeansAccepted` | `Spec => []UpIsAccepted` | the same |
| `SubscriptionApplied` | `Spec => []AppliedWhenQuiet` | `~SendTimesOut` |

They hold for any topics, tokens, thresholds and bounds of the queues.
`UpIsAccepted` needs that nothing of a connection outlives it and that the agent
answers no one whose hello it has not taken (`Linked`): an answer on its way is then
this connection's. For `AppliedWhenQuiet` one follows the last subscribe: the hello
goes first, so the agent drops none (`Handshake`); of the two tasks that send, the
one that sends last has a snapshot of what is wanted now (`Sending`); so the newest
message under way, or with none the agent itself, has it (`Told`). A send that times
out is never repeated (host.c:138, in the hazards), so there the property does not
hold and `~SendTimesOut` is a premise, as it is a constant of the run.

`Net_proofs`:

| Theorem | Says | Assumes |
|---|---|---|
| `NetTypeCorrect` | `Spec => []TypeOK` | `NetAssumption` |
| `ApOnlyWhileSetup` | `Spec => []ApOnlyInSetup` | `SlowWorld` |
| `DeviceKeepsTrying` | `Spec /\ Configured => []KeepsTrying`, unless `raced` | `SlowWorld`, `~StartFails` |
| `UpMeansConnected` | `Spec /\ Configured => []UpIsUp`, unless `raced` | `SlowWorld`, `~StartFails` |

They hold for any networks, cards, retry tasks and events. `Configured`, a condition
on the initial state, is that there are credentials on the card or built in: TLC
shows that without, and also where there are some in NVS only (a blank web form
erases these), a station can start before it has any, fail without an event, and
stay idle (net.c:353, in the hazards). Kconfig's default is empty, so this is the
device after its card was filled in, not every device. `~StartFails` is a premise for
the reason of the hazard at net.c:425; `ApOnlyInSetup` needs no such premise.
`Access` says which task, between which calls, may have the access point or its
server up with `s_softap_active` clear; `Credentials` that there is always something
to connect with; `Setup` that no setup begins while one ends. 
`KeepsTrying` and `UpIsUp` except what follows once a cancel and the apply timer have
run at once (`raced`): an STA_START handled, or a configuration filled, while the
cancel has emptied `s_ssid` (net.c:114) leaves the station idle for good, and TLC
finds it when the exception is dropped. Without that race the emptied `s_ssid` does
no harm: the cancel alone reads it again before it changes the mode, the web form
before it connects. `Trying` is the
strengthening of `KeepsTrying` to every state between two calls: an idle station has
an event, a retry that will find the device not up, or the task that made it idle;
and an address as the newest event is still the station's, so that handling it
cannot set NET_UP for a network that is gone.

`Settings_proofs`:

| Theorem | Says | Assumes |
|---|---|---|
| `SettingsTypeCorrect` | `Spec => []TypeOK` | `SettingsAssumption` |
| `ListsAreFresh` | `Spec => []TilesFresh` | `SettingsAssumption` |
| `DeletesWhatWasTapped` | `Spec => DeletesChosen` | ids are unique |
| `UpdatesAreConfirmed` | `Spec => UpdateConfirmed` | `~LockTimesOut` |

They hold for any directories, catalogs and registry size. `TilesFresh` is
inductive: every action that assigns `apps` assigns the tiles, and the rows with
them where the Apps view is shown. `DeletesChosen` needs that the id kept with
the panel is that of the row tapped (`AskedId`), which in turn needs
`TilesFresh`, since `delete_clicked()` reads the id from the slot and not from
the row. With two apps of one id, delete takes the first of them; the registry
does not refuse duplicates, so uniqueness is a premise. `UpdateConfirmed` needs
that a button that shows was shown by the last answer (`Offered`). The types say
that no list is longer than the registry's array (`LoadedIsList`, from `PickedFrom`);
they too need `TilesFresh`, for the id that `delete_clicked()` copies.

`Input_proofs`:

| Theorem | Says | Assumes |
|---|---|---|
| `TypeCorrect` | `Spec => []TypeOK` | `InputAssumption` |
| `NoPhantomPress` | `Spec => []NoPhantom` | the same |
| `Refines` | `Spec => ImplementsButtons` | the same |

They hold for any buttons, times and delays. `NoPhantom` is inductive together with
two facts of the debouncer: the buttons in `stable` are `steady`, and a button in
`candidate` has been down for at least `candidateAge` (`Counted`). `Refines`
needs that the chord is empty exactly when the decoder is idle and that
`long_fired` is set in `ST_HELD` only (`Started`), so that each branch of the state machine maps to one
step of `Buttons` or to none.

`Shell_proofs`:

| Theorem | Says | Assumes |
|---|---|---|
| `NewestShown` | `Spec => []ScreenShown` | `Prudent`: `Patient /\ ~BlindEnter` |
| `AlwaysHome` | `Spec => HomeReached` | the same |
| `HomeIsPinned` | `Spec => []HomeShowsPin` | the same |
| `WidgetsKeepTheirApp` | `Spec => []AppStable` | the same |
| `ShellTypeCorrect` | `Spec => []TypeOK` | the same |

They hold for any apps, pins, bindings, two or three buttons and any queue. The
inductive invariant (`Careful`) lists the shapes the screens can have (Home alone,
a pinned widget, Full list alone, a widget over Full list, Settings over Full list),
ties them to the mode, and says what may still be on its way: at most one key for
the keypad to read, none while an event that matters waits, and an Enter only where
Full list or Settings is on the display. The lemmas
`...Shape` say what each opening and closing makes of a shape. Without
`Prudent` the shape "Settings over a widget" appears, and the theorems fail.

`HomeShowsPin` and `AppStable` except one moment. A rescan that was clicked in the
30 ms before Settings was closed (settings.c:1348) scans under the widget that Home
has opened, and then uses the list of the closed screen, which ends in a reset:
`rescan = "late"`. Both hold again from the reset on, and everywhere else; without
the exception TLC finds Settings, Rescan, B1 long.

They rest on `HomeInv`: in the mode of Home `s_pinned` is
what `settings_pinned_apps()` would return now, the index is within it
(`HomeRead`), and an open widget's slot holds its app (`OnSlot`). Each is broken by
a row of Settings clicked at the wrong time; `Careful` says that there is none:
Settings is only ever over Full list, with no widget open, and so is the end of an
install; `StartHome` says that the start of the shell, after a reset too, makes
`HomeInv` true for whatever pins NVS holds. The types include the
ring's and the queue's bounds and that no app is pinned twice or beyond the limit.
Without `Patient` an Enter that is read late opens a tile over Home, and
`HomeShowsPin` fails.

`Boot_proofs`:

| Theorem | Says | Assumes |
|---|---|---|
| `TypeCorrect` | `Spec => []TypeOK` | `BootAssumption` |
| `AlwaysAFallback` | `Spec => []Fallback` | the same |
| `FilesAreCurrent` | `Spec => []FilesCurrent` | the same |
| `ImageKept` | `Spec => []Kept` | the same |

They hold for any images and any number of files. `Fallback` is not inductive: that
an update spares the last image known to work needs that what runs is what otadata
selects unless an update is waiting for its restart, that what came up is healthy
(`Selected`), and that an update is under way only where there is no trial
(`Settled`). `Unpacked` says that the files before `at` are current or failed.

Lemmas that several of these share are in `SeqLemmas`: what an `Append` or a
`Tail` makes of a queue and of its newest message (`PutIn`, `TakenOut`), that
picked entries are in the array, no more than it holds and as distinct as its own
(`PickedFrom`, by counting: `KthPlace`), and that what is in an array has a first
place there (`FirstPlace`). `SelectSeq` itself is recursive and no prover here can
do induction over data, hence `Picks`; the equality of the two is evaluated by TLC
for every array of up to three entries and every card of `MCSettings`. No module
declares a RECURSIVE operator.

Only model-checked: the liveness properties (`AllServed`, `EventuallyUp`, `Reconnects`,
`InstallListed`, `PressDecided`, `ReleaseSeen`, `Recovers`), which rest on fairness and ENABLED, which the prover does not do. What
the violation runs refute, and what fails without the premises named above, is not
proved because it does not hold.

## 5. Findings

See `findings` in `PROJECT.json`: each violation run quotes the line that
promises otherwise. Two of them (`widget_slices`, `host_client`) need a timing a
user meets rarely; `shell_blind` needs only a press of Enter on the wrong screen.
More defects and disagreements have no run of their own and are listed as hazards,
each at its line: the mark of cached data (widget.c:957), a refresh that the tick
undoes (widget.c:1037), Cancel (net.c:474) and Cancel together with the apply timer
(net.c:466), a late address that closes the setup panel with the access point left on
(net.c:584), blank fields (webcfg.c:364), the first setup (net.c:353), a rescan that
comes after Settings was closed (settings.c:1348). The models have the steps of all
of them; the last and the race in net.c are named exceptions of the properties they
would break. The touch zones can produce a chord (input.c:130; input.h:43-45 says
never), in `Input` with `SingleTouch = TRUE`; `app_main()` does not wire them.

## 6. Not modelled, and the plan

Not modelled, and not planned:

- Templates and filters (`datasource.c`): pure text, covered by a unit test.
- LVGL objects, layout, wording, drawing and the board drivers: straight-line
  code. The status bar, the theme's colours and the touch calibration of shell.c
  likewise.
- Progress counts, retries inside ESP-IDF's HTTP client, the comparison of versions.
- The PC agent's tray icon, configuration file and CPU sampling.
- The injection backend of input.c, the display diagnostic and the chord self test:
  not compiled in.

Left to do, in this order:

1. A composition of `Widget` and `Host`: the callback pointer and the topics as
   they pass between them, in place of the environment each has now; an abstract
   data link that it implements (what the open widget shows is what the agent last
   pushed for it).
2. An abstract catalog and registry, "the list is what the card holds", which
   `Settings` implements under a refinement mapping.
3. `Shell` over `Settings`: the views, panels and jobs that `Settings` has in place of
   the rows and reports that may come at any time in `Shell`.
4. Proofs: of the compositions and refinements above, as they are written; and the
   invariants on which the liveness properties rest (which task has the next step),
   as far as they are safety properties.
