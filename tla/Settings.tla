-------------------------------- MODULE Settings --------------------------------
(***************************************************************************)
(* The settings screen, components/shell/settings.c, with the background   *)
(* jobs it starts (fetch.c, catalog.c, ota.c) and the app registry they    *)
(* change (app_registry.c).                                                *)
(*                                                                         *)
(* The LVGL task rebuilds s_list for each view and keeps pointers to some  *)
(* of its rows. Four kinds of task report to the screen, each taking the   *)
(* LVGL lock for the length of its callback (or giving up after 200 ms):   *)
(* the fetch of /sd/fetch.json, the check of the catalog, an install, and  *)
(* the check for, or the download of, a firmware. A step is one stretch    *)
(* of a task under the lock, or between two reports. An app is named by    *)
(* its directory; on the card its manifest may be absent, "bad" (also:     *)
(* half written) or "ok". What a row says is left out. A job's running     *)
(* flag is cleared with its last report here, a moment later in the code;  *)
(* a click in between does nothing, like one before the report.            *)
(***************************************************************************)
EXTENDS Naturals, Sequences, Picks

CONSTANTS
  Dirs,         \* app directories in the order scans meet them
  BuiltIn,      \* those in internal flash
  IdOf,         \* the id in an app's manifest
  MaxApps,      \* APP_REGISTRY_MAX
  Catalogs,     \* the lists of apps the online catalog may hold
  FetchDir,     \* the app directory fetch.json writes to
  LockTimesOut, \* may a report find the LVGL lock taken for 200 ms
  None

AllDirs == {Dirs[i] : i \in 1 .. Len(Dirs)}
Ids     == {IdOf[d] : d \in AllDirs}
OnCard  == AllDirs \ BuiltIn

Views == {"menu", "about", "display", "network", "tz", "storage", "apps", "catalog"}

(* An install and a fetch do not write to the same directory.              *)
ASSUME SettingsAssumption ==
  /\ Dirs \in Seq(AllDirs) /\ BuiltIn \subseteq AllDirs
  /\ None \notin AllDirs \cup Ids \cup Views
  /\ MaxApps \in Nat /\ LockTimesOut \in BOOLEAN
  /\ FetchDir \in OnCard
  /\ Catalogs \subseteq Seq(OnCard \ {FetchDir})

(* The rows of each view that a file-scope pointer is kept of.             *)
RowsOf(v) ==
  CASE v = "about"   -> {"s_ota_btn", "s_ota_status_label", "s_ota_confirm_btn"}
    [] v = "display" -> {"s_brightness_slider"}
    [] v = "network" -> {"s_tz_btn", "s_wifi_btn", "s_webcfg_btn"}
    [] v = "storage" -> {"s_ram_arc", "s_ram_pct_label"}
    [] v = "apps"    -> {"s_fetch_status_label", "s_catalog_status_label"}
    [] v = "catalog" -> {"s_catalog_install_label"}
    [] OTHER         -> {}

VARIABLES
  view,     \* what s_list shows, None when s_screen is NULL
  ptrs,     \* the row pointers that are not NULL
  panel,    \* the panel over the list: "none", "wifi" or "delete"
  trigger,  \* s_delete_trigger_btn: "none", a "row", or one that is "gone"
  asked,    \* the row whose trash button opened the delete panel
  deleteId, \* s_delete_app_id
  rescan,   \* the 30 ms timer of rescan_clicked() is running
  confirm,  \* s_ota_confirm_btn is not hidden
  man,      \* the manifest in each directory
  apps,     \* the registry's s_apps
  tiles,    \* the apps Full list's tiles were built from
  rows,     \* the apps the Apps view's rows were built from
  catalog,  \* the catalog's s_apps
  fetch, check, install, ota,  \* where each job's task is
  target,   \* the directory the install writes
  verdict   \* the last check for a firmware found a newer one

listVars  == <<view, ptrs, rows, confirm>>
panelVars == <<panel, trigger, asked, deleteId>>
regVars   == <<man, apps, tiles>>
catVars   == <<catalog, check, install, target>>
otaVars   == <<ota, verdict>>
vars == <<listVars, panelVars, rescan, regVars, fetch, catVars, otaVars>>

Open == view # None
InReach(v) == view = v /\ panel = "none"   \* a panel hides the list

(* A pointer that is not NULL although its row is no more.                 *)
Dangles(p) == p \in ptrs /\ (Open => p \notin RowsOf(view))

-----------------------------------------------------------------------------
(* The registry.                                                           *)

(* app_registry_scan(): internal flash, then the card, up to the limit.    *)
Found(m) == Picked(Dirs, {d \in AllDirs : m[d] = "ok"})
FirstOf(s, n) == SubSeq(s, 1, IF Len(s) < n THEN Len(s) ELSE n)

LoadedPastEnd(m) == FirstOf(Found(m), MaxApps + 1)   \* mutant: s_count <= MAX
Loaded(m) == FirstOf(Found(m), MaxApps)

(* app_registry_delete(): the first app with the id, unless it is built    *)
(* in; its files may refuse to go.                                         *)
FirstMatch(id) ==
  {apps[i] : i \in {j \in 1 .. Len(apps) : /\ IdOf[apps[j]] = id
                                           /\ \A k \in 1 .. j - 1 : IdOf[apps[k]] # id}}
DeleteApp(id) ==
  \/ man' = [d \in AllDirs |-> IF d \in FirstMatch(id) \ BuiltIn THEN "none" ELSE man[d]]
  \/ UNCHANGED man

(* app_registry_scan(), then shell_refresh_app_list().                     *)
RescanQuietly == apps' = Loaded(man') /\ UNCHANGED tiles   \* mutant: no refresh
Rescan == apps' = Loaded(man') /\ tiles' = apps'

-----------------------------------------------------------------------------
(* Views.                                                                  *)

(* show_view(): s_list's rows are deleted, every pointer to one is NULL,   *)
(* and the rows of the view are built from the registry as it is now.      *)
ShowView(v) ==
  /\ view' = v /\ ptrs' = RowsOf(v)
  /\ rows' = IF v = "apps" THEN apps' ELSE <<>>
  /\ confirm' = FALSE

Rebuilt == IF trigger = "row" THEN "gone" ELSE trigger

(* The device restarts; the card is as the last step left it.              *)
Restart ==
  /\ view' = None /\ ptrs' = {} /\ rows' = <<>> /\ confirm' = FALSE
  /\ panel' = "none" /\ trigger' = "none" /\ asked' = None /\ deleteId' = None
  /\ rescan' = FALSE
  /\ Rescan /\ catalog' = <<>>
  /\ fetch' = "idle" /\ check' = "idle" /\ install' = "idle" /\ ota' = "idle"
  /\ target' = None /\ verdict' = FALSE

(* A panic, or a finished update.                                          *)
Reboot == UNCHANGED man /\ Restart

(* A use of a row that is gone may restart the device or do no harm.       *)
Wild(p) == Dangles(p) /\ Reboot

OpenSettings ==
  /\ ~Open
  /\ UNCHANGED <<panelVars, rescan, regVars, fetch, catVars, otaVars>>
  /\ ShowView("menu")

(* The end of settings_close(), which misses two of the pointers.          *)
Closed ==
  /\ view' = None /\ rows' = <<>> /\ confirm' = FALSE
  /\ ptrs' = ptrs \cap {"s_catalog_status_label", "s_catalog_install_label"}

(* settings_close(), from a system chord: closing the panels first.        *)
Close ==
  /\ Open
  /\ \/ panel = "wifi" /\ "s_wifi_btn" \notin ptrs /\ Reboot
     \/ trigger = "gone" /\ Reboot
     \/ /\ panel = "wifi" => "s_wifi_btn" \in ptrs
        /\ Closed
        /\ panel' = "none" /\ trigger' = "none"
        /\ asked' = None /\ deleteId' = None
        /\ UNCHANGED <<rescan, regVars, fetch, catVars, otaVars>>

Links ==
  ({"menu"} \X {"about", "display", "network", "storage", "apps"})
  \cup ({"about", "display", "network", "storage", "apps"} \X {"menu"})
  \cup {<<"network", "tz">>, <<"tz", "network">>, <<"catalog", "apps">>}

(* A row that leads to another view.                                       *)
Go(v) ==
  /\ Open /\ panel = "none" /\ <<view, v>> \in Links
  /\ UNCHANGED <<panelVars, rescan, regVars, fetch, catVars, otaVars>>
  /\ ShowView(v)

-----------------------------------------------------------------------------
(* Panels, rescan and delete.                                              *)

WifiClicked ==
  /\ InReach("network")
  /\ panel' = "wifi"
  /\ UNCHANGED <<listVars, trigger, asked, deleteId, rescan, regVars, fetch, catVars, otaVars>>

(* wifi_setup_close(), from Cancel or the panel's timer; wifi_label_update *)
(* sets the text of s_wifi_btn, NULL or not.                               *)
WifiEnds ==
  /\ panel = "wifi"
  /\ IF "s_wifi_btn" \in ptrs
     THEN /\ panel' = "none"
          /\ UNCHANGED <<listVars, trigger, asked, deleteId, rescan, regVars, fetch, catVars, otaVars>>
     ELSE Reboot

(* delete_clicked() copies the id from the registry's slot of the row.     *)
DeleteClicked(i) ==
  /\ InReach("apps") /\ i <= Len(rows) /\ rows[i] \in OnCard
  /\ panel' = "delete" /\ trigger' = "row"
  /\ asked' = [slot |-> i, dir |-> rows[i]] /\ deleteId' = IdOf[apps[i]]
  /\ UNCHANGED <<listVars, rescan, regVars, fetch, catVars, otaVars>>

PanelClosed == panel' = "none" /\ trigger' = "none" /\ asked' = None /\ deleteId' = None

(* delete_panel_close() focuses the trash button again.                    *)
DeleteCancel ==
  /\ panel = "delete"
  /\ \/ trigger = "gone" /\ Reboot
     \/ /\ PanelClosed
        /\ UNCHANGED <<listVars, rescan, regVars, fetch, catVars, otaVars>>

DeleteConfirmSlot ==             \* mutant: the row's pointer is kept, not the id
  /\ panel = "delete"
  /\ man' = IF asked.slot <= Len(apps) /\ apps[asked.slot] \notin BuiltIn
            THEN [man EXCEPT ![apps[asked.slot]] = "none"] ELSE man
  /\ Rescan /\ PanelClosed /\ ShowView("apps")
  /\ UNCHANGED <<rescan, fetch, catVars, otaVars>>

DeleteConfirm ==
  /\ panel = "delete"
  /\ DeleteApp(deleteId)
  /\ \/ trigger = "gone" /\ Restart
     \/ /\ Rescan /\ PanelClosed /\ ShowView("apps")
        /\ UNCHANGED <<rescan, fetch, catVars, otaVars>>

(* One timer at a time: a person cannot leave the view, come back and ask  *)
(* again within its 30 ms.                                                 *)
RescanClicked ==
  /\ InReach("apps") /\ ~rescan
  /\ rescan' = TRUE
  /\ UNCHANGED <<listVars, panelVars, regVars, fetch, catVars, otaVars>>

(* rescan_do(): show_view() on a screen that is closed is a panic.         *)
RescanDo ==
  /\ rescan
  /\ IF ~Open THEN Reboot
     ELSE /\ rescan' = FALSE /\ trigger' = Rebuilt
          /\ UNCHANGED man /\ Rescan /\ ShowView("apps")
          /\ UNCHANGED <<panel, asked, deleteId, fetch, catVars, otaVars>>

-----------------------------------------------------------------------------
(* What the jobs do to the card.                                           *)

(* fetch_one() truncates the file, then fills it or removes it.            *)
Truncate(d) == man' = [man EXCEPT ![d] = "bad"] /\ UNCHANGED <<apps, tiles>>
Deliver(d)  == \E m \in {"ok", "none"} : man' = [man EXCEPT ![d] = m] /\ UNCHANGED <<apps, tiles>>

FetchClicked ==
  /\ InReach("apps") /\ fetch = "idle"
  /\ fetch' = "get"
  /\ UNCHANGED <<listVars, panelVars, rescan, regVars, catVars, otaVars>>

FetchStep ==
  /\ \/ fetch = "get" /\ fetch' = "load" /\ Truncate(FetchDir)
     \/ fetch = "get" /\ fetch' = "done" /\ UNCHANGED regVars
     \/ fetch = "load" /\ fetch' = "done" /\ Deliver(FetchDir)
  /\ UNCHANGED <<listVars, panelVars, rescan, catVars, otaVars>>

(* fetch_status_cb(DONE or ERROR): the tiles are built anew, no rescan.    *)
FetchReport ==
  /\ fetch = "done"
  /\ fetch' = "idle"
  /\ tiles' = apps \/ (LockTimesOut /\ UNCHANGED tiles)
  /\ UNCHANGED <<listVars, panelVars, rescan, man, apps, catVars, otaVars>>

(* catalog_check() reports CHECKING at once, to a row that is there.       *)
CheckClicked ==
  /\ InReach("apps") /\ check = "idle"
  /\ check' = "get"
  /\ UNCHANGED <<listVars, panelVars, rescan, regVars, fetch, catalog, install, target, otaVars>>

CheckStep ==
  /\ \/ check = "get" /\ check' = "done" /\ catalog' \in Catalogs
     \/ check = "get" /\ check' = "error" /\ catalog' = <<>>
  /\ UNCHANGED <<listVars, panelVars, rescan, regVars, fetch, install, target, otaVars>>

(* catalog_check_status_cb().                                              *)
CheckReport ==
  /\ check \in {"done", "error"}
  /\ \/ check = "error" /\ Wild("s_catalog_status_label")
     \/ /\ check' = "idle"
        /\ UNCHANGED <<rescan, regVars, fetch, catalog, install, target, otaVars>>
        /\ \/ /\ check = "done" /\ Open
              /\ ShowView("catalog") /\ trigger' = Rebuilt
              /\ UNCHANGED <<panel, asked, deleteId>>
           \/ /\ (check = "done" /\ Open) => LockTimesOut
              /\ UNCHANGED <<listVars, panelVars>>

(* catalog_install_clicked() on the row of an app that is not installed,   *)
(* or whose version differs; the list may have changed since it was built. *)
InstallClicked(i) ==
  /\ InReach("catalog") /\ install = "idle" /\ fetch = "idle"
  /\ i <= Len(catalog)
  /\ target' = catalog[i] /\ install' = "start"
  /\ UNCHANGED <<listVars, panelVars, rescan, regVars, fetch, catalog, check, otaVars>>

(* The app's manifest is the one file of an install that matters here; the *)
(* list of its files may not be had at all.                                *)
InstallStep ==
  /\ \/ install = "get" /\ install' = "load" /\ Truncate(target)
     \/ install = "get" /\ install' = "done" /\ UNCHANGED regVars
     \/ install = "load" /\ install' = "done" /\ Deliver(target)
  /\ UNCHANGED <<listVars, panelVars, rescan, fetch, catalog, check, target, otaVars>>

(* catalog_install_status_cb(), with a first report and with DONE or ERROR.*)
InstallStarts ==
  /\ install = "start"
  /\ \/ Wild("s_catalog_install_label")
     \/ /\ install' = "get"
        /\ UNCHANGED <<listVars, panelVars, rescan, regVars, fetch, catalog, check, target, otaVars>>

InstallEndsUnlisted ==           \* mutant: only DONE, not ERROR, rescans
  /\ install = "done" /\ install' = "idle" /\ target' = None
  /\ UNCHANGED <<rescan, man, fetch, catalog, check, otaVars>>
  /\ IF Open /\ man[target] = "ok"
     THEN /\ Rescan /\ ShowView("catalog") /\ trigger' = Rebuilt
          /\ UNCHANGED <<panel, asked, deleteId>>
     ELSE UNCHANGED <<listVars, panelVars, apps, tiles>>

InstallEnds ==
  /\ install = "done"
  /\ \/ Wild("s_catalog_install_label")
     \/ /\ install' = "idle" /\ target' = None
        /\ UNCHANGED <<rescan, man, fetch, catalog, check, otaVars>>
        /\ \/ /\ Open /\ Rescan
              /\ ShowView("catalog") /\ trigger' = Rebuilt
              /\ UNCHANGED <<panel, asked, deleteId>>
           \/ /\ Open => LockTimesOut
              /\ UNCHANGED <<listVars, panelVars, apps, tiles>>

-----------------------------------------------------------------------------
(* Firmware updates. One flag serves the check and the update.             *)

OtaClicked ==
  /\ InReach("about") /\ ota = "idle"
  /\ ota' = "start"
  /\ UNCHANGED <<listVars, panelVars, rescan, regVars, fetch, catVars, verdict>>

(* ota_check_status_cb(): the confirm button shows while the last report   *)
(* said AVAILABLE. `newer` is FALSE for CHECKING and for an error too.     *)
ShowConfirmOnly(newer) ==        \* mutant: the button is shown, never hidden
  confirm' = (confirm \/ (newer /\ "s_ota_confirm_btn" \in ptrs))

ShowConfirm(newer) ==
  \/ confirm' = (newer /\ "s_ota_confirm_btn" \in ptrs)
  \/ LockTimesOut /\ UNCHANGED confirm

OtaChecking ==
  /\ ota = "start"
  /\ ota' = "check"
  /\ ShowConfirm(FALSE)
  /\ UNCHANGED <<view, ptrs, rows, panelVars, rescan, regVars, fetch, catVars, verdict>>

OtaAnswer(newer) ==
  /\ ota = "check"
  /\ ota' = "idle" /\ verdict' = newer
  /\ ShowConfirm(newer)
  /\ UNCHANGED <<view, ptrs, rows, panelVars, rescan, regVars, fetch, catVars>>

UpdateClicked ==
  /\ InReach("about") /\ confirm /\ ota = "idle"
  /\ ota' = "update"
  /\ UNCHANGED <<listVars, panelVars, rescan, regVars, fetch, catVars, verdict>>

(* ota_update_task(): an error, or a reboot into the new firmware; then a  *)
(* check would find the next one.                                          *)
UpdateEnds ==
  /\ ota = "update"
  /\ \/ Reboot
     \/ /\ ota' = "idle"
        /\ UNCHANGED <<listVars, panelVars, rescan, regVars, fetch, catVars, verdict>>

-----------------------------------------------------------------------------
Init ==
  /\ view = None /\ ptrs = {} /\ rows = <<>> /\ confirm = FALSE
  /\ panel = "none" /\ trigger = "none" /\ asked = None /\ deleteId = None
  /\ rescan = FALSE
  /\ man \in [AllDirs -> {"none", "ok"}] /\ \A d \in BuiltIn : man[d] = "ok"
  /\ apps = Loaded(man) /\ tiles = apps /\ catalog = <<>>
  /\ fetch = "idle" /\ check = "idle" /\ install = "idle" /\ ota = "idle"
  /\ target = None /\ verdict = FALSE

Clicks ==
  \/ OpenSettings \/ Close \/ (\E v \in Views : Go(v))
  \/ WifiClicked \/ RescanClicked \/ FetchClicked \/ CheckClicked \/ OtaClicked
  \/ UpdateClicked \/ DeleteCancel \/ DeleteConfirm
  \/ \E i \in 1 .. Len(Dirs) : DeleteClicked(i) \/ InstallClicked(i)

Fetch   == FetchStep \/ FetchReport
Check   == CheckStep \/ CheckReport
Install == InstallStep \/ InstallStarts \/ InstallEnds
Ota     == OtaChecking \/ (\E newer \in BOOLEAN : OtaAnswer(newer)) \/ UpdateEnds

Next == Clicks \/ WifiEnds \/ RescanDo \/ Fetch \/ Check \/ Install \/ Ota

(* The install's task runs, and each of its requests has a timeout.        *)
Fairness == WF_vars(Install)

Spec     == Init /\ [][Next]_vars
FairSpec == Spec /\ Fairness

-----------------------------------------------------------------------------
(* Properties.                                                             *)

Jobs     == {"idle", "get", "load", "done", "error", "start", "check", "update"}
IsList(s) == s \in Seq(AllDirs) /\ Len(s) <= MaxApps

(* Every variable holds a value of its type, and no list of apps has more  *)
(* than the registry's array has room for.                                 *)
TypeOK ==
  /\ view \in Views \cup {None} /\ ptrs \subseteq UNION {RowsOf(v) : v \in Views}
  /\ panel \in {"none", "wifi", "delete"} /\ trigger \in {"none", "row", "gone"}
  /\ asked = None \/ (asked.slot \in 1 .. Len(Dirs) /\ asked.dir \in OnCard)
  /\ deleteId \in Ids \cup {None} /\ rescan \in BOOLEAN /\ confirm \in BOOLEAN
  /\ man \in [AllDirs -> {"none", "bad", "ok"}]
  /\ IsList(apps) /\ IsList(tiles) /\ IsList(rows)
  /\ catalog \in Catalogs \cup {<<>>}
  /\ fetch \in Jobs /\ check \in Jobs /\ install \in Jobs /\ ota \in Jobs
  /\ target \in OnCard \cup {None} /\ verdict \in BOOLEAN

(* Tiles and the rows of the Apps view hold pointers into the registry's   *)
(* array (settings.c:103-105), which a scan refills: after every scan both *)
(* are built anew, so that a tap opens, pins or deletes the app it shows.  *)
TilesFresh == tiles = apps /\ (view = "apps" => rows = apps)

(* Confirming the delete panel deletes no app but the one whose trash      *)
(* button was tapped, whatever was installed, rescanned or shown under the *)
(* panel meanwhile.                                                        *)
DeletesChosen ==
  [][panel = "delete" /\ panel' # "delete" =>
       \A d \in AllDirs : man'[d] # man[d] => d = asked.dir]_vars

(* "Update now" is offered for the result of the last check only           *)
(* (settings.c:632-637): no update starts after an answer that there is    *)
(* none, as long as the reports get the lock.                              *)
UpdateConfirmed ==
  [][ota = "idle" /\ ota' = "update" => verdict]_vars

(* What an install did to the card, whole or in part, is in the registry   *)
(* in the end, without a manual rescan, as long as Settings stays open; a  *)
(* fetch has no such rescan, and its directory is never an install's.      *)
Has(s, d) == d \in {s[i] : i \in DOMAIN s}
Listed(d) == Has(apps, d) = Has(Loaded(man), d)
InstallListed ==
  \A d \in OnCard \ {FetchDir} :
    (install \in {"load", "done"} /\ target = d /\ Open /\ ~Listed(d))
      ~> (Listed(d) \/ ~Open)

(* "Every row pointer above lived inside s_list and is gone now ... null"  *)
(* it or the callback "would write through a dangling pointer the next     *)
(* time it reports progress" (settings.c:1728-1732): no report finds such  *)
(* a pointer.                                                              *)
ReportsFindRows ==
  /\ check = "error" => ~Dangles("s_catalog_status_label")
  /\ install \in {"start", "done"} => ~Dangles("s_catalog_install_label")
=============================================================================
