------------------------------- MODULE Widget -------------------------------
(***************************************************************************)
(* The layer A widget runtime, components/widget/widget.c.                 *)
(*                                                                         *)
(* Three kinds of task share the module's file-scope variables:            *)
(*   - the LVGL task opens and closes widgets, flips pages and asks for a  *)
(*     refresh, always holding the LVGL lock, which it gives up only while *)
(*     widget_close() waits for the widget's task to notice s_stop;        *)
(*   - a widget's own task (refresh_task, or clock_task) fetches without   *)
(*     the lock and merges and draws under it;                             *)
(*   - the websocket task delivers host data, widget_host_data_cb().       *)
(* A step of this module is one stretch of a task between two points where *)
(* it takes, drops or waits for the lock or blocks in a fetch, a delay or  *)
(* a flash write.                                                          *)
(***************************************************************************)
EXTENDS Naturals

CONSTANTS
  Apps,        \* the installed widgets
  MaxSources,  \* WIDGET_MAX_SOURCES
  Layout,      \* what each one's ui.jsonl declares, see LayoutType
  Urls,        \* what http sources fetch; a body is named by its url
  Topics,      \* host topics; a pushed value is named by its topic
  Keys,        \* top-level fields of the document views are drawn from
  FieldOf,     \* the field the body of a url spreads at the top level
  Config,      \* the field "data"/"config" lines write
  Versions,    \* the values of that field, one per edit of the ui.jsonl
  PagesOf,     \* number of pages each version of an app's ui.jsonl has
  TaskIds,     \* bounds the widget tasks alive at once
  Every,       \* a source's period, in ticks of the refresh task
  TaskOutlastsClose,  \* may a task, in a fetch of up to 10 s say, outlast the
                      \* 2 s that widget_close() waits for it
  None, Failed \* no value; a fetch that failed

Unnamed == "unnamed"   \* an http source without "as"

Idx        == 1 .. MaxSources
SourceType == [name : Keys \cup {Unnamed}, url : Urls]
LayoutType == [sources : [Idx -> SourceType \cup {None}], topics : SUBSET Topics,
               clock : BOOLEAN, config : BOOLEAN]
Values     == Urls \cup Topics \cup Versions

ASSUME WidgetAssumption ==
  /\ Layout \in [Apps -> LayoutType]
  /\ FieldOf \in [Urls -> Keys]
  /\ Topics \subseteq Keys /\ Config \in Keys
  /\ Every \in Nat \ {0} /\ MaxSources \in Nat
  /\ TaskOutlastsClose \in BOOLEAN
  /\ PagesOf \in [Apps -> [Versions -> Nat \ {0}]]
  /\ Urls \cap Topics = {} /\ Urls \cap Versions = {} /\ Topics \cap Versions = {}
  /\ None \notin Apps \cup Values \cup TaskIds \cup SourceType
  /\ Failed \notin Values \cup {None}

Docs     == [Keys -> Values \cup {None}]
EmptyDoc == [k \in Keys |-> None]      \* s_combined = NULL

VARIABLES
  app,         \* s_app
  screen,      \* s_screen: "none", the "error" page, or the widget's "view"
  srcs,        \* s_sources, None from s_nsources on
  topics,      \* s_host_topics, empty when s_nhosttopics = 0
  combined,    \* s_combined
  showing,     \* s_showing_cache
  status,      \* what the status corner says
  shown,       \* what the views were last drawn from: "none", "doc", "clock"
  page,        \* s_page
  nvsPage,     \* NVS keys pg_<id>
  version,     \* the version of each ui.jsonl on the card
  maxPage,     \* s_max_page
  config,      \* s_config: the value its "data"/"config" lines gave
  disk,        \* <dir>/.cache.json of each widget
  task,        \* s_task
  stop,        \* s_stop
  tasks,       \* the widget tasks alive
  ui,          \* the LVGL task: "idle", or in the "wait" of widget_close()
  next,        \* the widget widget_open() goes on to after the close
  dataCb,      \* host.c's s_data_cb is widget_host_data_cb
  push,        \* a value host.c is handing over: past its test of s_data_cb
  net          \* net_state() = NET_UP

uiVars   == <<app, screen, page, nvsPage, maxPage>>
docVars  == <<srcs, topics, config, combined, showing, status, shown>>
taskVars == <<task, stop, tasks>>
ctlVars  == <<ui, next>>
hostVars == <<dataCb, push>>
envVars  == <<version, net>>
vars == <<uiVars, docVars, taskVars, ctlVars, hostVars, envVars, disk>>

NoSources == [i \in Idx |-> None]
Active    == {i \in Idx : srcs[i] # None}    \* 0 .. s_nsources-1

NoBodies == [i \in Idx |-> None]
Idle     == [pc |-> "none", at |-> 0, got |-> NoBodies, text |-> EmptyDoc, count |-> 0]

-----------------------------------------------------------------------------
(* The document the views are drawn from.                                  *)

(* The field a body lands in: merge_source() nests a named source's body   *)
(* under the name, and spreads an unnamed one's own fields.                *)
SliceOf(name, body) == IF name = Unnamed THEN FieldOf[body] ELSE name

(* The merge loop of refresh_task(): source by source, in order, whatever  *)
(* s_sources says NOW, the body fetched at that index.                     *)
Landing(got, k) ==
  {i \in Active : got[i] \in Urls /\ SliceOf(srcs[i].name, got[i]) = k}

MergeAllUnnamed(doc, got) ==     \* mutant: "as" is ignored
  [k \in Keys |->
     LET at == {i \in Active : got[i] \in Urls /\ FieldOf[got[i]] = k} IN
     IF at = {} THEN doc[k] ELSE got[CHOOSE i \in at : TRUE]]

MergeAll(doc, got) ==
  [k \in Keys |->
     IF Landing(got, k) = {} THEN doc[k]
     ELSE got[CHOOSE i \in Landing(got, k) : \A j \in Landing(got, k) : j <= i]]

(* merge_fields(): spread a document over another.                         *)
Overlay(doc, over) == [k \in Keys |-> IF over[k] # None THEN over[k] ELSE doc[k]]

(* What the "data" and "config" lines of a ui.jsonl declare: s_config.     *)
Declared(a)  == IF Layout[a].config THEN version[a] ELSE None
ConfigDoc(v) == [EmptyDoc EXCEPT ![Config] = v]

(* apply_data() draws every view of the screen; with none it does nothing. *)
Apply(what) == shown' = IF screen = "view" THEN what ELSE shown

(* update_status(), with `stale` for fetched_any && !all_ok and `pc` for   *)
(* host_state() = HOST_UP. set_status() needs the label of an open widget. *)
UpdateStatus(stale, pc, cached) ==
  status' = IF screen # "view" THEN status
            ELSE IF Active # {} /\ ~net
              THEN IF cached THEN "cached" ELSE "waiting for network"
            ELSE IF topics # {} /\ ~pc THEN "waiting for pc"
            ELSE IF stale THEN "stale" ELSE ""

-----------------------------------------------------------------------------
(* Opening and closing, on the LVGL task.                                  *)

Live == {t \in TaskIds : tasks[t].pc # "none"}

(* xTaskCreatePinnedToCore(..., &s_task): it may find no memory.           *)
StartTask(pc) ==
  /\ stop' = FALSE
  /\ \/ \E t \in TaskIds \ Live :
          /\ task' = t
          /\ tasks' = [tasks EXCEPT ![t] = [Idle EXCEPT !.pc = pc]]
     \/ task' = None /\ UNCHANGED tasks

(* widget_close() unregisters from host.c only when s_nhosttopics > 0.     *)
StillRegistered == dataCb /\ topics = {}

(* Everything widget_close() frees once its task is gone (or given up on). *)
TornKeepsSources ==              \* mutant: s_nsources is not reset
  /\ app' = None /\ screen' = "none"
  /\ topics' = {} /\ config' = None /\ combined' = EmptyDoc
  /\ shown' = "none" /\ status' = "" /\ dataCb' = StillRegistered
  /\ UNCHANGED <<srcs, showing, page, nvsPage, maxPage, taskVars, disk>>

Torn ==
  /\ app' = None /\ screen' = "none"
  /\ srcs' = NoSources /\ topics' = {} /\ config' = None /\ combined' = EmptyDoc
  /\ shown' = "none" /\ status' = ""
  /\ dataCb' = StillRegistered
  /\ UNCHANGED <<showing, page, nvsPage, maxPage, taskVars, disk>>

(* widget_open() when the manifest's "entry" names no file.                *)
LoadError(a) ==
  /\ app' = a /\ screen' = "error"
  /\ srcs' = NoSources /\ topics' = {} /\ config' = None /\ combined' = EmptyDoc
  /\ shown' = "none" /\ status' = ""
  /\ dataCb' = StillRegistered
  /\ UNCHANGED <<showing, page, nvsPage, maxPage, taskVars, disk>>

(* The sources a ui.jsonl declares, each due on the first tick.            *)
SourcesOf(a) ==
  [i \in Idx |->
     LET s == Layout[a].sources[i] IN
     IF s = None THEN None ELSE [name |-> s.name, url |-> s.url, elapsed |-> Every]]

HasSources(a) == Layout[a].sources # NoSources

(* cache_load(): the cache of the last session is spread over the config,  *)
(* unless there is none or (the caller's choice) it is over an hour old;   *)
(* widget_open() then reasserts s_config over it.                          *)
LoadCacheAsIs(a, usable) ==      \* mutant: s_config is not reasserted
  IF HasSources(a) /\ usable /\ disk[a] # EmptyDoc
  THEN /\ combined' = Overlay(ConfigDoc(Declared(a)), disk[a])
       /\ showing' = TRUE /\ status' = "cached" /\ shown' = "doc"
  ELSE /\ combined' = ConfigDoc(Declared(a))
       /\ showing' = FALSE /\ status' = "loading" /\ shown' = "none"

LoadCache(a, usable) ==
  LET own == ConfigDoc(Declared(a)) IN
  IF HasSources(a) /\ usable /\ disk[a] # EmptyDoc
  THEN /\ combined' = Overlay(Overlay(own, disk[a]), own)
       /\ showing' = TRUE /\ status' = "cached" /\ shown' = "doc"
  ELSE /\ combined' = own
       /\ showing' = FALSE /\ status' = "loading" /\ shown' = "none"

(* widget_open() from the parse of the ui.jsonl on. A page saved for a     *)
(* ui.jsonl that had more of them starts over at 0.                        *)
LoadView(a) ==
  LET L == Layout[a]
      pages == PagesOf[a][version[a]]
  IN
  /\ app' = a /\ screen' = "view"
  /\ srcs' = SourcesOf(a) /\ topics' = L.topics /\ config' = Declared(a)
  /\ maxPage' = pages - 1
  /\ page' = IF nvsPage[a] < pages THEN nvsPage[a] ELSE 0
  /\ dataCb' = (StillRegistered \/ (~L.clock /\ L.topics # {}))
  /\ UNCHANGED <<nvsPage, disk>>
  /\ IF ~L.clock /\ (HasSources(a) \/ L.topics # {})
     THEN \E usable \in BOOLEAN : LoadCache(a, usable)
     ELSE /\ combined' = ConfigDoc(Declared(a))
          /\ showing' = FALSE /\ status' = "" /\ shown' = "none"
  /\ IF L.clock \/ HasSources(a) \/ L.topics # {}
     THEN StartTask(IF L.clock THEN "clock" ELSE "top")
     ELSE UNCHANGED taskVars

(* widget_open() after its widget_close(), or the end of a plain close; an *)
(* open that finds no memory for the file ends as a plain close too.       *)
Finish(a) == Torn \/ (a # None /\ (LoadError(a) \/ LoadView(a)))

(* widget_close(), called by widget_open(a) (a # None) or by the shell: it *)
(* unregisters from host.c, then tells its task to stop and waits for it   *)
(* with the lock released, or goes straight on when there is no task. The  *)
(* host callback may be registered only again by the open that follows.    *)
CloseThen(a) ==
  /\ ui = "idle"
  /\ UNCHANGED <<push, envVars>>
  /\ IF task # None
     THEN /\ ui' = "wait" /\ next' = a /\ stop' = TRUE
          /\ dataCb' = StillRegistered /\ topics' = {}
          /\ UNCHANGED <<uiVars, srcs, config, combined, showing, status, shown, task, tasks, disk>>
     ELSE /\ Finish(a)
          /\ UNCHANGED ctlVars

Open(a)   == CloseThen(a)
Close     == app # None /\ CloseThen(None)

(* The wait ends: the task is gone, or it is still there, wherever it is,  *)
(* after the 100 delays of 20 ms.                                          *)
EndWait ==
  /\ ui = "wait"
  /\ Finish(next)
  /\ ui' = "idle" /\ next' = None
  /\ UNCHANGED <<push, envVars>>

CloseAtOnce == EndWait           \* mutant: the handshake is not waited for

CloseDone == task = None /\ EndWait

CloseGivesUp ==
  /\ TaskOutlastsClose
  /\ task # None
  /\ EndWait

(* dispatch_tap_action("next_page").                                       *)
NextPageUnsaved ==               \* mutant: the page is not saved
  /\ ui = "idle" /\ screen = "view" /\ maxPage > 0
  /\ page' = (page + 1) % (maxPage + 1)
  /\ Apply("doc")
  /\ UNCHANGED <<app, screen, nvsPage, maxPage, srcs, topics, config, combined, showing,
                 status, taskVars, ctlVars, hostVars, envVars, disk>>

NextPagePastEnd ==               \* mutant: the modulus takes s_max_page for a count
  /\ ui = "idle" /\ screen = "view" /\ maxPage > 0
  /\ page' = IF page = maxPage THEN page - 2 ELSE page + 1
  /\ nvsPage' = [nvsPage EXCEPT ![app] = page']
  /\ Apply("doc")
  /\ UNCHANGED <<app, screen, maxPage, srcs, topics, config, combined, showing, status,
                 taskVars, ctlVars, hostVars, envVars, disk>>

NextPage ==
  /\ ui = "idle" /\ screen = "view" /\ maxPage > 0
  /\ page' = (page + 1) % (maxPage + 1)
  /\ nvsPage' = [nvsPage EXCEPT ![app] = page']
  /\ Apply("doc")
  /\ UNCHANGED <<app, screen, maxPage, srcs, topics, config, combined, showing, status,
                 taskVars, ctlVars, hostVars, envVars, disk>>

(* widget_refresh_now().                                                   *)
RefreshNow ==
  /\ ui = "idle" /\ Active # {}
  /\ srcs' = [i \in Idx |-> IF i \in Active THEN [srcs[i] EXCEPT !.elapsed = Every]
                             ELSE None]
  /\ status' = "refreshing..."
  /\ UNCHANGED <<uiVars, topics, config, combined, showing, shown, taskVars, ctlVars,
                 hostVars, envVars, disk>>

-----------------------------------------------------------------------------
(* A widget's task.                                                        *)

Goto(t, pc) == tasks' = [tasks EXCEPT ![t].pc = pc]

(* The loop of refresh_task() or clock_task() ends...                      *)
Leave(t) ==
  /\ tasks[t].pc \in {"top", "clock"} /\ stop
  /\ Goto(t, "exit")
  /\ UNCHANGED <<uiVars, docVars, task, stop, ctlVars, hostVars, envVars, disk>>

(* ...and the task with it: s_task = NULL, whichever task s_task names.    *)
ExitKeepsHandle(t) ==            \* mutant: s_task is left as it is
  /\ tasks[t].pc = "exit"
  /\ tasks' = [tasks EXCEPT ![t] = Idle]
  /\ UNCHANGED <<uiVars, docVars, task, stop, ctlVars, hostVars, envVars, disk>>

Exit(t) ==
  /\ tasks[t].pc = "exit"
  /\ tasks' = [tasks EXCEPT ![t] = Idle]
  /\ task' = None
  /\ UNCHANGED <<uiVars, docVars, stop, ctlVars, hostVars, envVars, disk>>

(* while (!s_stop): with the network up, look for sources that are due.    *)
Top(t) ==
  /\ tasks[t].pc = "top" /\ ~stop
  /\ IF Active # {} /\ net
     THEN tasks' = [tasks EXCEPT ![t] = [Idle EXCEPT !.pc = "scan", !.at = 1]]
     ELSE Goto(t, "status")
  /\ UNCHANGED <<uiVars, docVars, task, stop, ctlVars, hostVars, envVars, disk>>

(* The loop over s_sources, up to its next fetch. `got` is fetched[] with  *)
(* ok[]: a body, Failed, or None for a source that was not due.            *)
DueFrom(n) == {i \in Active : i >= n /\ srcs[i].elapsed >= Every}

Scan(t) ==
  LET due == DueFrom(tasks[t].at) IN
  /\ tasks[t].pc = "scan"
  /\ IF due # {}
     THEN \E i \in due :
          /\ \A j \in due : i <= j
          /\ srcs' = [srcs EXCEPT ![i].elapsed = 0]
          /\ tasks' = [tasks EXCEPT ![t].pc = "fetch", ![t].at = i,
                                    ![t].got[i] = srcs[i].url]
     ELSE /\ Goto(t, IF tasks[t].got = NoBodies THEN "status" ELSE "merge")
          /\ UNCHANGED srcs
  /\ UNCHANGED <<uiVars, topics, config, combined, showing, status, shown, task, stop,
                 ctlVars, hostVars, envVars, disk>>

(* datasource_fetch_json() returns.                                        *)
FetchedBreaks(t, ok) ==          \* mutant: at most one fetch a tick
  /\ tasks[t].pc = "fetch"
  /\ tasks' = [tasks EXCEPT ![t].pc = "merge",
                 ![t].got[tasks[t].at] = IF ok THEN @ ELSE Failed]
  /\ UNCHANGED <<uiVars, docVars, task, stop, ctlVars, hostVars, envVars, disk>>

Fetched(t, ok) ==
  /\ tasks[t].pc = "fetch"
  /\ tasks' = [tasks EXCEPT ![t].pc = "scan", ![t].at = @ + 1,
                 ![t].got[tasks[t].at] = IF ok THEN @ ELSE Failed]
  /\ UNCHANGED <<uiVars, docVars, task, stop, ctlVars, hostVars, envVars, disk>>

Outcomes(t) == {tasks[t].got[i] : i \in Idx}

(* Merge, build the cache text, draw and report, all under the lock.       *)
Merge(t) ==
  LET got == tasks[t].got
      any == Outcomes(t) \cap Urls # {}    \* any_success
      cached == showing /\ ~any
  IN
  /\ tasks[t].pc = "merge"
  /\ combined' = MergeAll(combined, got)
  /\ showing' = cached
  /\ Apply("doc")
  /\ \E pc \in BOOLEAN : UpdateStatus(Failed \in Outcomes(t), pc, cached)
  /\ tasks' = [tasks EXCEPT ![t] =
       IF any /\ combined' # EmptyDoc THEN [Idle EXCEPT !.pc = "write", !.text = combined']
       ELSE [Idle EXCEPT !.pc = "sleep"]]
  /\ UNCHANGED <<uiVars, srcs, topics, config, task, stop, ctlVars, hostVars, envVars, disk>>

(* lvgl_port_lock(500) or lvgl_port_lock(200) times out: nothing is merged *)
(* or reported, what was fetched is dropped.                               *)
LockTimesOut(t) ==
  /\ tasks[t].pc \in {"merge", "status"}
  /\ tasks' = [tasks EXCEPT ![t] = [Idle EXCEPT !.pc = "sleep"]]
  /\ UNCHANGED <<uiVars, docVars, task, stop, ctlVars, hostVars, envVars, disk>>

(* write_cache_file(), without the lock, into the directory of s_app.      *)
WriteCache(t) ==
  /\ tasks[t].pc = "write" /\ app # None
  /\ disk' = [disk EXCEPT ![app] = tasks[t].text]
  /\ tasks' = [tasks EXCEPT ![t] = [Idle EXCEPT !.pc = "sleep"]]
  /\ UNCHANGED <<uiVars, docVars, task, stop, ctlVars, hostVars, envVars>>

(* update_status(false, true) when this tick fetched nothing.              *)
Status(t) ==
  /\ tasks[t].pc = "status"
  /\ \E pc \in BOOLEAN : UpdateStatus(FALSE, pc, showing)
  /\ Goto(t, "sleep")
  /\ UNCHANGED <<uiVars, srcs, topics, config, combined, showing, shown, task, stop,
                 ctlVars, hostVars, envVars, disk>>

(* After its delay the task counts the tick for each source in turn,       *)
(* without the lock: s_sources[i].elapsed_s++ is a read and, with anything *)
(* in between, a write. The count stops at Every, where the source is due. *)
ReadCount(t, i) ==
  tasks' = [tasks EXCEPT ![t] =
    IF i \in Active
    THEN [Idle EXCEPT !.pc = "count", !.at = i, !.count = srcs[i].elapsed]
    ELSE [Idle EXCEPT !.pc = "top"]]

Sleep(t) ==
  /\ tasks[t].pc = "sleep"
  /\ ReadCount(t, 1)
  /\ UNCHANGED <<uiVars, docVars, task, stop, ctlVars, hostVars, envVars, disk>>

(* The write, and the read for the next source.                            *)
Count(t) ==
  LET i == tasks[t].at IN
  /\ tasks[t].pc = "count"
  /\ srcs' = IF i \in Active
             THEN [srcs EXCEPT ![i].elapsed =
                     IF tasks[t].count < Every THEN tasks[t].count + 1 ELSE Every]
             ELSE srcs
  /\ ReadCount(t, i + 1)
  /\ UNCHANGED <<uiVars, topics, config, combined, showing, status, shown, task, stop,
                 ctlVars, hostVars, envVars, disk>>

(* One tick of clock_task(): draws the time, unless the lock times out.    *)
Clock(t) ==
  /\ tasks[t].pc = "clock" /\ ~stop
  /\ Goto(t, "clocksleep")
  /\ \/ /\ Apply("clock")
        /\ status' \in IF screen = "view" THEN {"", "waiting for time sync"} ELSE {status}
     \/ UNCHANGED <<shown, status>>
  /\ UNCHANGED <<uiVars, srcs, topics, config, combined, showing, task, stop, ctlVars,
                 hostVars, envVars, disk>>

ClockSleep(t) ==
  /\ tasks[t].pc = "clocksleep"
  /\ Goto(t, "clock")
  /\ UNCHANGED <<uiVars, docVars, task, stop, ctlVars, hostVars, envVars, disk>>

-----------------------------------------------------------------------------
(* The websocket task, and what happens outside.                           *)

(* handle_message() in host.c has read s_data_cb and is about to call it.  *)
PushStarts(topic) ==
  /\ dataCb /\ push = None
  /\ push' = topic
  /\ UNCHANGED <<uiVars, docVars, taskVars, ctlVars, dataCb, envVars, disk>>

(* widget_host_data_cb(): merges under the lock, or times out on it.       *)
PushLands ==
  /\ push # None
  /\ push' = None
  /\ \/ combined' = [combined EXCEPT ![push] = push] /\ Apply("doc")
     \/ UNCHANGED <<combined, shown>>
  /\ UNCHANGED <<uiVars, srcs, topics, config, showing, status, taskVars, ctlVars,
                 dataCb, envVars, disk>>

NetChanges ==
  /\ net' = ~net
  /\ UNCHANGED <<uiVars, docVars, taskVars, ctlVars, hostVars, version, disk>>

(* Someone edits the widget's ui.jsonl or its config file on the card.     *)
Edit(a, v) ==
  /\ Layout[a].config /\ v # version[a]
  /\ version' = [version EXCEPT ![a] = v]
  /\ UNCHANGED <<uiVars, docVars, taskVars, ctlVars, hostVars, net, disk>>

(* cache_path() dereferences s_app; with no widget open that is a null     *)
(* pointer, the panic handler resets the chip and only NVS and the card    *)
(* survive.                                                                *)
Panic(t) ==
  /\ tasks[t].pc = "write" /\ app = None
  /\ app' = None /\ screen' = "none" /\ srcs' = NoSources /\ topics' = {}
  /\ combined' = EmptyDoc /\ showing' = FALSE /\ status' = "" /\ shown' = "none"
  /\ page' = 0 /\ maxPage' = 0 /\ config' = None
  /\ task' = None /\ stop' = FALSE /\ tasks' = [u \in TaskIds |-> Idle]
  /\ ui' = "idle" /\ next' = None /\ dataCb' = FALSE /\ push' = None
  /\ UNCHANGED <<nvsPage, version, disk, net>>

-----------------------------------------------------------------------------
Init ==
  /\ app = None /\ screen = "none" /\ srcs = NoSources /\ topics = {}
  /\ combined = EmptyDoc /\ showing = FALSE /\ status = "" /\ shown = "none"
  /\ page = 0 /\ maxPage = 0 /\ config = None
  /\ nvsPage = [a \in Apps |-> 0]
  /\ \E v \in Versions : version = [a \in Apps |-> v]
  /\ disk = [a \in Apps |-> EmptyDoc]
  /\ task = None /\ stop = FALSE /\ tasks = [t \in TaskIds |-> Idle]
  /\ ui = "idle" /\ next = None /\ dataCb = FALSE /\ push = None
  /\ net = FALSE

UiStep == (\E a \in Apps : Open(a)) \/ Close \/ NextPage \/ RefreshNow
CloseStep == CloseDone \/ CloseGivesUp

TaskStep(t) ==
  \/ Leave(t) \/ Exit(t) \/ Top(t) \/ Scan(t) \/ Merge(t) \/ LockTimesOut(t)
  \/ WriteCache(t) \/ Status(t) \/ Sleep(t) \/ Count(t)
  \/ Clock(t) \/ ClockSleep(t) \/ Panic(t)
  \/ \E ok \in BOOLEAN : Fetched(t, ok)

EnvStep ==
  \/ \E topic \in Topics : PushStarts(topic)
  \/ PushLands \/ NetChanges
  \/ \E a \in Apps, v \in Versions : Edit(a, v)

Next == UiStep \/ CloseStep \/ EnvStep \/ \E t \in TaskIds : TaskStep(t)

(* FreeRTOS runs every ready task: the widget tasks, the wait of a close   *)
(* and the websocket task go on; users, networks and editors need not.     *)
Fairness ==
  /\ WF_vars(CloseStep)
  /\ WF_vars(PushLands)
  /\ \A t \in TaskIds : WF_vars(TaskStep(t))

Spec     == Init /\ [][Next]_vars
FairSpec == Spec /\ Fairness

-----------------------------------------------------------------------------
(* Properties.                                                             *)

PCs == {"none", "top", "scan", "fetch", "merge", "write", "status", "sleep",
        "count", "clock", "clocksleep", "exit"}

Statuses == {"", "loading", "cached", "stale", "refreshing...",
             "waiting for network", "waiting for pc", "waiting for time sync"}

TaskType == [pc : PCs, at : Nat, got : [Idx -> Urls \cup {None, Failed}], text : Docs,
             count : 0 .. Every]

SourceState == [name : Keys \cup {Unnamed}, url : Urls, elapsed : 0 .. Every]

(* Every variable of widget.c holds a value of its C type.                 *)
TypeOK ==
  /\ app \in Apps \cup {None} /\ screen \in {"none", "error", "view"}
  /\ srcs \in [Idx -> SourceState \cup {None}]
  /\ topics \in SUBSET Topics /\ config \in Versions \cup {None}
  /\ combined \in Docs /\ showing \in BOOLEAN /\ status \in Statuses
  /\ shown \in {"none", "doc", "clock"}
  /\ page \in Nat /\ maxPage \in Nat /\ nvsPage \in [Apps -> Nat]
  /\ version \in [Apps -> Versions] /\ disk \in [Apps -> Docs]
  /\ task \in TaskIds \cup {None} /\ stop \in BOOLEAN
  /\ tasks \in [TaskIds -> TaskType]
  /\ ui \in {"idle", "wait"} /\ next \in Apps \cup {None}
  /\ dataCb \in BOOLEAN /\ push \in Topics \cup {None} /\ net \in BOOLEAN

(* The bodies app a's own sources may leave in field k of the document.    *)
OwnBodies(a, k) ==
  {u \in Urls : \E i \in Idx :
     LET s == Layout[a].sources[i] IN
     s # None /\ s.url = u /\ SliceOf(s.name, u) = k}

(* "each source updates its own slice" of s_combined (widget.c:218): a     *)
(* field never shows what was fetched for some other source, such as one   *)
(* of the widget open before.                                              *)
SlicesOwned ==
  app # None => \A k \in Keys : combined[k] \in Urls => combined[k] \in OwnBodies(app, k)

(* No widget's cache file ever holds what another widget fetched: it would *)
(* be shown as that widget's own data in the next session.                 *)
CachesOwned ==
  \A a \in Apps, k \in Keys : disk[a][k] \in Urls => disk[a][k] \in OwnBodies(a, k)

(* s_task accounts for every task alive, so that widget_close() knows whom *)
(* to wait for, and no task runs on once its widget is closed.             *)
TaskAccounted ==
  /\ Live = IF task = None THEN {} ELSE {task}
  /\ app = None => Live = {}

(* write_cache_file() runs without the lock and dereferences s_app: the    *)
(* widget is still open whenever a task gets there.                        *)
AppWhileWriting == \A t \in TaskIds : tasks[t].pc = "write" => app # None

(* A closed widget leaves nothing it fetched behind, even when its task    *)
(* outlives it and merges later.                                           *)
ClosedIsClean == app = None => \A k \in Keys : combined[k] \notin Urls

(* A stale cached field never outlives a live config change: the document  *)
(* keeps the config this opening read, over the cache and every fetch that *)
(* has no such field of its own.                                           *)
ConfigApart ==
  /\ Config \notin Topics /\ \A u \in Urls : FieldOf[u] # Config
  /\ \A a \in Apps, i \in Idx :
       Layout[a].sources[i] # None => Layout[a].sources[i].name # Config

ConfigWins == ConfigApart /\ screen = "view" /\ config # None => combined[Config] = config

(* The page on screen exists in the ui.jsonl that was opened, and is the   *)
(* one the next opening will restore unless the saved one has gone.        *)
PageRestored ==
  screen = "view" =>
    page \in 0 .. maxPage /\ (nvsPage[app] \in 0 .. maxPage => page = nvsPage[app])

(* Every source is served: one that is due, or that widget_refresh_now()   *)
(* has made due, is fetched in the end, if perhaps a period late because   *)
(* the tick's unlocked elapsed_s++ undid the request, unless the widget is *)
(* closed or left without a task or the network goes down. A source that   *)
(* is due often does not hold up the ones behind it.                       *)
Due(i)      == i \in Active /\ srcs[i].elapsed >= Every
Fetching(i) == \E t \in TaskIds : tasks[t].pc = "fetch" /\ tasks[t].at = i
AllServed ==
  \A i \in Idx : Due(i) ~> Fetching(i) \/ ~net \/ ui = "wait" \/ task = None

=============================================================================
