--------------------------- MODULE Widget_proofs ---------------------------
(***************************************************************************)
(* What Widget.tla promises for every installation: any number of widgets, *)
(* sources, topics and tasks. Type correctness and the priority of live    *)
(* config hold as they are; that no widget shows or caches what another    *)
(* one fetched holds when no task outlasts the wait of widget_close().     *)
(***************************************************************************)
EXTENDS Widget, WellFoundedInduction, TLAPS

LEMMA MaxIsNat == MaxSources \in Nat
BY WidgetAssumption DEF WidgetAssumption

(* The index a merge takes last exists: MergeAll's CHOOSE is not vacuous.  *)
LEMMA LastIndex ==
  ASSUME NEW S, S \subseteq Idx, S # {}
  PROVE  \E i \in S : \A j \in S : j <= i
<1> DEFINE T == {MaxSources - i : i \in S}
<1>1. T \subseteq Nat /\ T # {}
  <2>1. \A i \in S : i \in Nat /\ MaxSources - i \in Nat
    BY MaxIsNat DEF Idx
  <2>2. \A n \in T : n \in Nat
    BY <2>1
  <2>3. PICK i \in S : TRUE
    OBVIOUS
  <2>4. MaxSources - i \in T
    BY <2>3
  <2> QED
    BY <2>2, <2>4
<1>2. PICK m \in T : \A n \in T : ~(<<n, m>> \in OpToRel(<, Nat))
  BY <1>1, NatLessThanWellFounded, WFMin
<1>3. PICK i \in S : m = MaxSources - i
  OBVIOUS
<1>4. ASSUME NEW j \in S PROVE j <= i
  <2>1. MaxSources - j \in T
    OBVIOUS
  <2>2. ~(MaxSources - j < m)
    BY <1>1, <1>2, <2>1 DEF OpToRel
  <2> QED
    BY <1>3, <2>2, MaxIsNat DEF Idx
<1> QED
  BY <1>4

-----------------------------------------------------------------------------
(* Type correctness.                                                       *)

LEMMA ConstantTypes ==
  /\ Layout \in [Apps -> LayoutType] /\ FieldOf \in [Urls -> Keys]
  /\ Topics \subseteq Keys /\ Config \in Keys
  /\ Every \in Nat /\ Every > 0 /\ MaxSources \in Nat
  /\ PagesOf \in [Apps -> [Versions -> Nat \ {0}]]
  /\ None \notin Apps /\ None \notin Values /\ None \notin TaskIds /\ None \notin SourceType
  /\ Failed \notin Values /\ Failed # None
BY WidgetAssumption DEF WidgetAssumption

LEMMA IdleType == Idle \in TaskType
BY ConstantTypes DEF Idle, TaskType, PCs, NoBodies, EmptyDoc, Docs

LEMMA EmptyDocType == EmptyDoc \in Docs
BY DEF EmptyDoc, Docs

LEMMA ConfigDocType ==
  ASSUME NEW v \in Versions \cup {None}
  PROVE  ConfigDoc(v) \in Docs
BY EmptyDocType DEF ConfigDoc, Docs, Values

LEMMA OverlayType ==
  ASSUME NEW doc \in Docs, NEW over \in Docs
  PROVE  Overlay(doc, over) \in Docs
BY DEF Overlay, Docs

(* Every field of a merge is the document's own or one of the bodies.      *)
LEMMA MergeAllField ==
  ASSUME NEW doc, NEW got, NEW k \in Keys
  PROVE  \/ MergeAll(doc, got)[k] = doc[k]
         \/ \E i \in Landing(got, k) : MergeAll(doc, got)[k] = got[i]
<1>1. CASE Landing(got, k) = {}
  BY <1>1 DEF MergeAll
<1>2. CASE Landing(got, k) # {}
  <2>1. Landing(got, k) \subseteq Idx
    BY DEF Landing, Active
  <2>2. \E i \in Landing(got, k) : \A j \in Landing(got, k) : j <= i
    BY <1>2, <2>1, LastIndex
  <2> QED
    BY <1>2, <2>2 DEF MergeAll
<1> QED
  BY <1>1, <1>2

LEMMA MergeAllType ==
  ASSUME NEW doc \in Docs, NEW got
  PROVE  MergeAll(doc, got) \in Docs
<1>1. ASSUME NEW k \in Keys PROVE MergeAll(doc, got)[k] \in Values \cup {None}
  BY MergeAllField DEF Docs, Landing, Values
<1>2. MergeAll(doc, got) = [k \in Keys |-> MergeAll(doc, got)[k]]
  BY DEF MergeAll
<1> QED
  BY <1>1, <1>2 DEF Docs

LEMMA SourcesOfType ==
  ASSUME NEW a \in Apps
  PROVE  SourcesOf(a) \in [Idx -> SourceState \cup {None}]
<1>1. ASSUME NEW i \in Idx, Layout[a].sources[i] # None
      PROVE  [name |-> Layout[a].sources[i].name, url |-> Layout[a].sources[i].url,
              elapsed |-> Every] \in SourceState
  <2>1. Layout[a].sources[i] \in SourceType
    BY <1>1, ConstantTypes DEF LayoutType
  <2> QED
    BY <2>1, ConstantTypes DEF SourceType, SourceState
<1> QED
  BY <1>1 DEF SourcesOf

LEMMA StartTaskType ==
  ASSUME TypeOK, NEW pc \in PCs, StartTask(pc)
  PROVE  task' \in TaskIds \cup {None} /\ stop' \in BOOLEAN /\ tasks' \in [TaskIds -> TaskType]
<1>1. [Idle EXCEPT !.pc = pc] \in TaskType
  BY IdleType DEF TaskType
<1> QED
  BY <1>1 DEF StartTask, TypeOK, Live

(* What a close, or the open that follows it, leaves in the variables the  *)
(* LVGL task writes there.                                                 *)
OpenType ==
  /\ app \in Apps \cup {None} /\ screen \in {"none", "error", "view"}
  /\ srcs \in [Idx -> SourceState \cup {None}]
  /\ topics \in SUBSET Topics /\ config \in Versions \cup {None}
  /\ combined \in Docs /\ showing \in BOOLEAN /\ status \in Statuses
  /\ shown \in {"none", "doc", "clock"}
  /\ page \in Nat /\ maxPage \in Nat /\ nvsPage \in [Apps -> Nat]
  /\ task \in TaskIds \cup {None} /\ stop \in BOOLEAN
  /\ tasks \in [TaskIds -> TaskType]
  /\ dataCb \in BOOLEAN /\ disk \in [Apps -> Docs]

LEMMA FinishType ==
  ASSUME TypeOK, NEW a \in Apps \cup {None}, Finish(a)
  PROVE  OpenType'
<1> USE EmptyDocType DEF StillRegistered, Statuses
<1>1. NoSources \in [Idx -> SourceState \cup {None}]
  BY DEF NoSources
<1>2. CASE Torn
  BY <1>1, <1>2 DEF Torn, TypeOK, OpenType, uiVars, taskVars
<1>3. CASE a # None /\ LoadError(a)
  BY <1>1, <1>3 DEF LoadError, TypeOK, OpenType, taskVars
<1>4. CASE a # None /\ LoadView(a)
  <2>1. a \in Apps /\ Declared(a) \in Versions \cup {None}
    BY <1>4 DEF Declared, TypeOK
  <2>2. /\ Layout[a].topics \in SUBSET Topics /\ Layout[a].clock \in BOOLEAN
        /\ PagesOf[a][version[a]] \in Nat \ {0}
    <3>1. Layout[a] \in LayoutType /\ PagesOf[a] \in [Versions -> Nat \ {0}]
      BY <2>1, ConstantTypes
    <3>2. version[a] \in Versions
      BY <2>1 DEF TypeOK
    <3> QED
      BY <3>1, <3>2 DEF LayoutType
  <2>3. page' \in Nat /\ maxPage' \in Nat /\ nvsPage' \in [Apps -> Nat]
    <3>1. PICK pages \in Nat \ {0} : pages = PagesOf[a][version[a]]
      BY <2>2
    <3>2. maxPage' = pages - 1 /\ page' \in {nvsPage[a], 0} /\ nvsPage' = nvsPage
      BY <1>4, <3>1 DEF LoadView
    <3>3. nvsPage \in [Apps -> Nat] /\ nvsPage[a] \in Nat
      BY <2>1 DEF TypeOK
    <3> QED
      BY <3>1, <3>2, <3>3
  <2>4. combined' \in Docs /\ showing' \in BOOLEAN /\ status' \in Statuses /\ shown' \in {"none", "doc", "clock"}
    <3>1. ConfigDoc(Declared(a)) \in Docs /\ disk[a] \in Docs
      BY <2>1, ConfigDocType DEF TypeOK
    <3>2. Overlay(Overlay(ConfigDoc(Declared(a)), disk[a]), ConfigDoc(Declared(a))) \in Docs
      BY <3>1, OverlayType
    <3> QED
      BY <1>4, <3>1, <3>2 DEF LoadView, LoadCache
  <2>5. task' \in TaskIds \cup {None} /\ stop' \in BOOLEAN /\ tasks' \in [TaskIds -> TaskType]
    <3>1. CASE StartTask(IF Layout[a].clock THEN "clock" ELSE "top")
      BY <3>1, StartTaskType DEF PCs
    <3>2. CASE UNCHANGED taskVars
      BY <3>2 DEF taskVars, TypeOK
    <3> QED
      BY <1>4, <3>1, <3>2 DEF LoadView
  <2> QED
    BY <1>4, <2>1, <2>2, <2>3, <2>4, <2>5, SourcesOfType DEF LoadView, TypeOK, OpenType
<1> QED
  BY <1>2, <1>3, <1>4 DEF Finish

LEMMA UpdateStatusType ==
  ASSUME TypeOK, NEW stale, NEW pc, NEW cached, UpdateStatus(stale, pc, cached)
  PROVE  status' \in Statuses
BY DEF UpdateStatus, TypeOK, Statuses

LEMMA CloseType ==
  ASSUME TypeOK, NEW a \in Apps \cup {None}, CloseThen(a) \/ (EndWait /\ a = next)
  PROVE  TypeOK'
<1>1. CASE CloseThen(a) /\ task # None
  BY <1>1 DEF CloseThen, TypeOK, uiVars, envVars, StillRegistered
<1>2. CASE CloseThen(a) /\ task = None
  BY <1>2, FinishType DEF CloseThen, TypeOK, OpenType, ctlVars, envVars
<1>3. CASE EndWait
  BY <1>3, FinishType DEF EndWait, TypeOK, OpenType, envVars
<1> QED
  BY <1>1, <1>2, <1>3

LEMMA TypeInit == Init => TypeOK
<1> SUFFICES ASSUME Init PROVE TypeOK
  OBVIOUS
<1>1. PICK v \in Versions : version = [a \in Apps |-> v]
  BY DEF Init
<1>2. srcs \in [Idx -> SourceState \cup {None}]
  BY DEF Init, NoSources
<1>3. disk \in [Apps -> Docs] /\ tasks \in [TaskIds -> TaskType] /\ combined \in Docs
  BY EmptyDocType, IdleType DEF Init
<1> QED
  BY <1>1, <1>2, <1>3 DEF Init, TypeOK, Statuses

(* The steps of the LVGL task that leave the widget open.                  *)
LEMMA ViewType ==
  ASSUME TypeOK, NextPage \/ RefreshNow
  PROVE  TypeOK'
<1>1. CASE NextPage
  <2>1. page' \in Nat
    BY <1>1 DEF NextPage, TypeOK
  <2>2. nvsPage' \in [Apps -> Nat]
    BY <1>1, <2>1 DEF NextPage, TypeOK
  <2> QED
    BY <1>1, <2>1, <2>2 DEF NextPage, TypeOK, Apply, taskVars, ctlVars, hostVars, envVars
<1>2. CASE RefreshNow
  <2>1. ASSUME NEW i \in Active PROVE [srcs[i] EXCEPT !.elapsed = Every] \in SourceState
    <3>1. srcs[i] \in SourceState
      BY DEF TypeOK, Active
    <3> QED
      BY <3>1, ConstantTypes DEF SourceState
  <2>2. srcs' \in [Idx -> SourceState \cup {None}]
    BY <1>2, <2>1 DEF RefreshNow
  <2>3. status' \in Statuses
    BY <1>2 DEF RefreshNow, Statuses
  <2> QED
    BY <1>2, <2>2, <2>3 DEF RefreshNow, TypeOK, uiVars, taskVars, ctlVars, hostVars, envVars
<1> QED
  BY <1>1, <1>2

(* The read of a source's count keeps the task a task.                     *)
LEMMA ReadCountType ==
  ASSUME TypeOK, NEW t \in TaskIds, NEW i \in Nat, ReadCount(t, i)
  PROVE  tasks' \in [TaskIds -> TaskType]
<1>1. [Idle EXCEPT !.pc = "top"] \in TaskType
  BY IdleType DEF TaskType, PCs
<1>2. ASSUME i \in Active
      PROVE  [Idle EXCEPT !.pc = "count", !.at = i, !.count = srcs[i].elapsed] \in TaskType
  <2>1. srcs[i] \in SourceState
    BY <1>2 DEF Active, TypeOK
  <2>2. srcs[i].elapsed \in 0 .. Every /\ "count" \in PCs
    BY <2>1 DEF SourceState, PCs
  <2> QED
    BY <2>2, IdleType DEF TaskType
<1> QED
  BY <1>1, <1>2 DEF ReadCount, TypeOK

(* The steps of a widget's task.                                           *)
LEMMA TaskStepType ==
  ASSUME TypeOK, NEW t \in TaskIds, TaskStep(t)
  PROVE  TypeOK'
<1> USE DEF uiVars, docVars, taskVars, ctlVars, hostVars, envVars
<1>0. tasks[t] \in TaskType /\ tasks \in [TaskIds -> TaskType]
  BY DEF TypeOK
<1>a. ASSUME NEW pc \in PCs PROVE [tasks EXCEPT ![t].pc = pc] \in [TaskIds -> TaskType]
  BY <1>0 DEF TaskType
<1>b. ASSUME NEW pc \in PCs
      PROVE  [tasks EXCEPT ![t] = [Idle EXCEPT !.pc = pc]] \in [TaskIds -> TaskType]
  BY <1>0, IdleType DEF TaskType
<1>c. [tasks EXCEPT ![t] = [Idle EXCEPT !.pc = "scan", !.at = 1]] \in [TaskIds -> TaskType]
  BY <1>0, IdleType DEF TaskType, PCs
<1>d. ASSUME NEW text \in Docs
      PROVE  [tasks EXCEPT ![t] = [Idle EXCEPT !.pc = "write", !.text = text]] \in [TaskIds -> TaskType]
  BY <1>0, IdleType DEF TaskType, PCs
<1>e. "sleep" \in PCs /\ "status" \in PCs /\ "clocksleep" \in PCs
  BY DEF PCs
<1>1. CASE Leave(t)
  BY <1>1, <1>a DEF Leave, Goto, TypeOK, PCs
<1>2. CASE Exit(t)
  BY <1>2, IdleType DEF Exit, TypeOK
<1>3. CASE Top(t)
  <2>1. tasks' \in [TaskIds -> TaskType]
    BY <1>3, <1>a, <1>c, <1>e DEF Top, Goto
  <2> QED
    BY <1>3, <2>1 DEF Top, TypeOK
<1>4. CASE Scan(t)
  <2>1. CASE DueFrom(tasks[t].at) = {}
    BY <1>4, <2>1, <1>a DEF Scan, Goto, TypeOK, PCs
  <2>2. CASE DueFrom(tasks[t].at) # {}
    <3>1. PICK i \in DueFrom(tasks[t].at) :
            /\ srcs' = [srcs EXCEPT ![i].elapsed = 0]
            /\ tasks' = [tasks EXCEPT ![t].pc = "fetch", ![t].at = i, ![t].got[i] = srcs[i].url]
      BY <1>4, <2>2 DEF Scan
    <3>2. i \in Idx /\ i \in Nat /\ srcs[i] \in SourceState
      BY <3>1 DEF DueFrom, Active, TypeOK, Idx
    <3>3. [srcs[i] EXCEPT !.elapsed = 0] \in SourceState
      BY <3>2, ConstantTypes DEF SourceState
    <3>5. srcs' \in [Idx -> SourceState \cup {None}]
      BY <3>1, <3>2, <3>3 DEF TypeOK
    <3>4. tasks' \in [TaskIds -> TaskType]
      BY <1>0, <3>1, <3>2 DEF TaskType, PCs, SourceState
    <3> QED
      <4>1. UNCHANGED <<uiVars, topics, config, combined, showing, status, shown, task, stop,
                        ctlVars, hostVars, envVars, disk>>
        BY <1>4 DEF Scan
      <4> QED
        BY <3>4, <3>5, <4>1 DEF TypeOK
  <2> QED
    BY <2>1, <2>2
<1>5. CASE Merge(t)
  <2>1. combined' \in Docs
    BY <1>5, MergeAllType DEF Merge, TypeOK
  <2>2. tasks' \in [TaskIds -> TaskType]
    BY <1>5, <1>b, <1>d, <1>e, <2>1 DEF Merge
  <2>3. status' \in Statuses
    BY <1>5, UpdateStatusType DEF Merge
  <2>4. showing' \in BOOLEAN
    BY <1>5 DEF Merge
  <2> QED
    BY <1>5, <2>1, <2>2, <2>3, <2>4 DEF Merge, Apply, TypeOK
<1>6. CASE LockTimesOut(t)
  <2>1. tasks' \in [TaskIds -> TaskType]
    BY <1>6, <1>b, <1>e DEF LockTimesOut
  <2> QED
    BY <1>6, <2>1 DEF LockTimesOut, TypeOK
<1>7. CASE WriteCache(t)
  <2>1. tasks[t].text \in Docs
    BY <1>0 DEF TaskType
  <2>2. disk' \in [Apps -> Docs]
    BY <1>7, <2>1 DEF WriteCache, TypeOK
  <2>3. tasks' \in [TaskIds -> TaskType]
    BY <1>7, <1>b, <1>e DEF WriteCache
  <2> QED
    BY <1>7, <2>2, <2>3 DEF WriteCache, TypeOK
<1>8. CASE Status(t)
  <2>1. status' \in Statuses
    BY <1>8, UpdateStatusType DEF Status
  <2> QED
    BY <1>8, <1>a, <2>1 DEF Status, Goto, TypeOK, PCs
<1>9. CASE Sleep(t)
  <2>1. tasks' \in [TaskIds -> TaskType]
    BY <1>9, ReadCountType DEF Sleep
  <2> QED
    BY <1>9, <2>1 DEF Sleep, TypeOK
<1>13. CASE Count(t)
  <2>1. tasks' \in [TaskIds -> TaskType]
    <3>1. tasks[t].at + 1 \in Nat
      BY <1>0 DEF TaskType
    <3> QED
      BY <1>13, <3>1, ReadCountType DEF Count
  <2>2. ASSUME NEW i \in Active, NEW n \in 0 .. Every
        PROVE  [srcs EXCEPT ![i].elapsed = n] \in [Idx -> SourceState \cup {None}]
    <3>1. i \in Idx /\ srcs[i] \in SourceState
      BY DEF Active, TypeOK
    <3>2. [srcs[i] EXCEPT !.elapsed = n] \in SourceState
      BY <3>1 DEF SourceState
    <3> QED
      BY <3>1, <3>2 DEF TypeOK
  <2>3. (IF tasks[t].count < Every THEN tasks[t].count + 1 ELSE Every) \in 0 .. Every
    <3>1. tasks[t].count \in 0 .. Every
      BY <1>0 DEF TaskType
    <3> QED
      BY <3>1, ConstantTypes
  <2>4. srcs' \in [Idx -> SourceState \cup {None}]
    BY <1>13, <2>2, <2>3 DEF Count, TypeOK
  <2> QED
    BY <1>13, <2>1, <2>4 DEF Count, TypeOK
<1>14. CASE ClockSleep(t)
  BY <1>14, <1>a DEF ClockSleep, Goto, TypeOK, PCs
<1>10. CASE Clock(t)
  <2>1. tasks' \in [TaskIds -> TaskType]
    BY <1>10, <1>a, <1>e DEF Clock, Goto
  <2>2. status' \in Statuses /\ shown' \in {"none", "doc", "clock"}
    BY <1>10 DEF Clock, Apply, TypeOK, Statuses
  <2> QED
    BY <1>10, <2>1, <2>2 DEF Clock, TypeOK
<1>11. CASE Panic(t)
  BY <1>11, IdleType, EmptyDocType DEF Panic, NoSources, TypeOK, Statuses
<1>12. ASSUME NEW ok \in BOOLEAN, Fetched(t, ok) PROVE TypeOK'
  <2>1. tasks' \in [TaskIds -> TaskType]
    BY <1>0, <1>12 DEF Fetched, TaskType, PCs
  <2> QED
    BY <1>12, <2>1 DEF Fetched, TypeOK
<1> QED
  BY <1>1, <1>2, <1>3, <1>4, <1>5, <1>6, <1>7, <1>8, <1>9, <1>10, <1>11, <1>12,
     <1>13, <1>14 DEF TaskStep

LEMMA EnvType ==
  ASSUME TypeOK, EnvStep
  PROVE  TypeOK'
<1> USE DEF uiVars, docVars, taskVars, ctlVars, hostVars, envVars
<1>1. ASSUME NEW topic \in Topics, PushStarts(topic) PROVE TypeOK'
  BY <1>1 DEF PushStarts, TypeOK
<1>2. CASE PushLands
  <2>1. [combined EXCEPT ![push] = push] \in Docs
    BY <1>2, ConstantTypes DEF PushLands, TypeOK, Docs, Values
  <2> QED
    BY <1>2, <2>1 DEF PushLands, Apply, TypeOK
<1>3. CASE NetChanges
  BY <1>3 DEF NetChanges, TypeOK
<1>4. ASSUME NEW a \in Apps, NEW v \in Versions, Edit(a, v) PROVE TypeOK'
  BY <1>4 DEF Edit, TypeOK
<1> QED
  BY <1>1, <1>2, <1>3, <1>4 DEF EnvStep

LEMMA TypeStep == TypeOK /\ [Next]_vars => TypeOK'
<1> SUFFICES ASSUME TypeOK, [Next]_vars PROVE TypeOK'
  OBVIOUS
<1>1. CASE UiStep
  BY <1>1, CloseType, ViewType DEF UiStep, Open, Close
<1>2. CASE CloseStep
  <2>1. next \in Apps \cup {None}
    BY DEF TypeOK
  <2> QED
    BY <1>2, <2>1, CloseType DEF CloseStep, CloseDone, CloseGivesUp
<1>3. CASE EnvStep
  BY <1>3, EnvType
<1>4. ASSUME NEW t \in TaskIds, TaskStep(t) PROVE TypeOK'
  BY <1>4, TaskStepType
<1>5. CASE UNCHANGED vars
  BY <1>5 DEF vars, uiVars, docVars, taskVars, ctlVars, hostVars, envVars, TypeOK
<1> QED
  BY <1>1, <1>2, <1>3, <1>4, <1>5 DEF Next

(* Every variable of widget.c keeps a value of its type: no page below 0,  *)
(* no count of seconds past the period, no task in a state it has not.     *)
THEOREM TypeCorrect == Spec => []TypeOK
BY TypeInit, TypeStep, PTL DEF Spec

-----------------------------------------------------------------------------
(* The sources of the open widget are the ones its ui.jsonl declares.      *)

SrcsMatch ==
  \A i \in Idx : srcs[i] # None =>
    /\ app # None /\ Layout[app].sources[i] # None
    /\ srcs[i].name = Layout[app].sources[i].name
    /\ srcs[i].url  = Layout[app].sources[i].url

(* Apart from an open, a close and a reset, steps only count seconds.      *)
Kept ==
  /\ app' = app /\ config' = config /\ screen' = screen
  /\ \A i \in Idx :
       /\ srcs'[i] # None => srcs[i] # None
       /\ srcs'[i].name = srcs[i].name /\ srcs'[i].url = srcs[i].url

Opens == \E a \in Apps \cup {None} : Finish(a)
Resets == \E t \in TaskIds : Panic(t)

LEMMA ScanKeeps ==
  ASSUME TypeOK, NEW t \in TaskIds, Scan(t)
  PROVE  Kept
<1> USE DEF uiVars, docVars, taskVars, ctlVars, hostVars, envVars
<1>1. CASE srcs' = srcs
  BY <1>1 DEF Scan, Kept
<1>2. ASSUME NEW i \in Active, srcs' = [srcs EXCEPT ![i].elapsed = 0] PROVE Kept
  <2>1. i \in Idx /\ srcs[i] \in SourceState /\ srcs[i] # None
    BY DEF Active, TypeOK
  <2>2. srcs'[i] = [srcs[i] EXCEPT !.elapsed = 0] /\ \A j \in Idx \ {i} : srcs'[j] = srcs[j]
    BY <1>2, <2>1 DEF TypeOK
  <2> QED
    BY <2>1, <2>2 DEF Scan, Kept, SourceState
<1> QED
  BY <1>1, <1>2 DEF Scan, DueFrom

LEMMA CountKeeps ==
  ASSUME TypeOK, NEW t \in TaskIds, Count(t)
  PROVE  Kept
<1> USE DEF uiVars, docVars, taskVars, ctlVars, hostVars, envVars
<1>1. CASE srcs' = srcs
  BY <1>1 DEF Count, Kept
<1>2. ASSUME NEW i \in Active, NEW n, srcs' = [srcs EXCEPT ![i].elapsed = n] PROVE Kept
  <2>1. i \in Idx /\ srcs[i] \in SourceState /\ srcs[i] # None
    BY DEF Active, TypeOK
  <2>2. srcs'[i] = [srcs[i] EXCEPT !.elapsed = n] /\ \A j \in Idx \ {i} : srcs'[j] = srcs[j]
    BY <1>2, <2>1 DEF TypeOK
  <2> QED
    BY <2>1, <2>2 DEF Count, Kept, SourceState
<1> QED
  BY <1>1, <1>2 DEF Count

LEMMA StepsKeep ==
  ASSUME TypeOK, [Next]_vars
  PROVE  Kept \/ Opens \/ Resets
<1> USE DEF uiVars, docVars, taskVars, ctlVars, hostVars, envVars
<1>1. ASSUME srcs' = srcs, app' = app, config' = config, screen' = screen PROVE Kept
  BY <1>1 DEF Kept
<1>2. CASE UiStep
  <2>1. CASE RefreshNow
    BY <2>1 DEF RefreshNow, Kept, Active, TypeOK, SourceState
  <2>2. ASSUME NEW a \in Apps \cup {None}, CloseThen(a) PROVE Kept \/ Opens
    BY <2>2, <1>1 DEF CloseThen, Opens
  <2>3. CASE NextPage
    BY <2>3, <1>1 DEF NextPage
  <2> QED
    BY <1>2, <2>1, <2>2, <2>3 DEF UiStep, Open, Close
<1>3. CASE CloseStep
  BY <1>3 DEF CloseStep, CloseDone, CloseGivesUp, EndWait, Opens, TypeOK
<1>4. CASE EnvStep
  BY <1>1, <1>4 DEF EnvStep, PushStarts, PushLands, NetChanges, Edit
<1>5. ASSUME NEW t \in TaskIds, TaskStep(t) PROVE Kept \/ Resets
  <2>1. CASE Scan(t)
    BY <2>1, ScanKeeps
  <2>2. CASE Count(t)
    BY <2>2, CountKeeps
  <2>3. CASE Panic(t)
    BY <2>3 DEF Resets
  <2>4. CASE Leave(t) \/ Exit(t) \/ Top(t) \/ Merge(t) \/ LockTimesOut(t)
             \/ WriteCache(t) \/ Status(t) \/ Sleep(t) \/ Clock(t) \/ ClockSleep(t)
             \/ \E ok \in BOOLEAN : Fetched(t, ok)
    BY <1>1, <2>4 DEF Leave, Exit, Top, Merge, LockTimesOut, WriteCache, Status, Sleep, Clock,
         ClockSleep, Fetched
  <2> QED
    BY <1>5, <2>1, <2>2, <2>3, <2>4 DEF TaskStep
<1>6. CASE UNCHANGED vars
  BY <1>1, <1>6 DEF vars
<1> QED
  BY <1>2, <1>3, <1>4, <1>5, <1>6 DEF Next

LEMMA SrcsMatchInit == Init => SrcsMatch
BY DEF Init, SrcsMatch, NoSources

LEMMA SrcsMatchStep == TypeOK /\ SrcsMatch /\ [Next]_vars => SrcsMatch'
<1> SUFFICES ASSUME TypeOK, SrcsMatch, [Next]_vars PROVE SrcsMatch'
  OBVIOUS
<1>1. CASE Kept
  BY <1>1 DEF Kept, SrcsMatch
<1>2. CASE Resets
  BY <1>2 DEF Resets, Panic, SrcsMatch, NoSources
<1>3. ASSUME NEW a \in Apps \cup {None}, Finish(a) PROVE SrcsMatch'
  <2>1. CASE srcs' = NoSources
    BY <2>1 DEF SrcsMatch, NoSources
  <2>2. CASE a \in Apps /\ app' = a /\ srcs' = SourcesOf(a)
    BY <2>2, ConstantTypes DEF SrcsMatch, SourcesOf
  <2> QED
    BY <1>3, <2>1, <2>2 DEF Finish, Torn, LoadError, LoadView
<1> QED
  BY <1>1, <1>2, <1>3, StepsKeep DEF Opens

(* Config wins: whatever the cache of the last session, a fetch or the PC  *)
(* agent brings, the document keeps what this opening read from the card.  *)
LEMMA ConfigWinsStep == TypeOK /\ SrcsMatch /\ ConfigWins /\ [Next]_vars => ConfigWins'
<1> SUFFICES ASSUME TypeOK, SrcsMatch, ConfigWins, [Next]_vars, ConfigApart,
                    (screen = "view")', config' # None
             PROVE  combined'[Config] = config'
  BY DEF ConfigWins, ConfigApart
<1> USE DEF uiVars, docVars, taskVars, ctlVars, hostVars, envVars
<1>1. Config \in Keys
  BY ConstantTypes
<1>2. CASE UNCHANGED <<screen, config, combined>>
  BY <1>2 DEF ConfigWins
<1>3. ASSUME NEW a \in Apps \cup {None}, Finish(a) PROVE combined'[Config] = config'
  <2>1. a \in Apps /\ LoadView(a)
    BY <1>3 DEF Finish, Torn, LoadError
  <2>2. ConfigDoc(Declared(a))[Config] = Declared(a) /\ config' = Declared(a)
    BY <1>1, <2>1 DEF ConfigDoc, EmptyDoc, LoadView
  <2>3. ASSUME NEW doc PROVE Overlay(doc, ConfigDoc(Declared(a)))[Config] = Declared(a)
    BY <1>1, <2>2 DEF Overlay
  <2> QED
    BY <2>1, <2>2, <2>3 DEF LoadView, LoadCache
<1>4. ASSUME NEW t \in TaskIds, Merge(t) PROVE combined'[Config] = config'
  <2>1. Landing(tasks[t].got, Config) = {}
    <3> SUFFICES ASSUME NEW i \in Active, tasks[t].got[i] \in Urls,
                        SliceOf(srcs[i].name, tasks[t].got[i]) = Config
                 PROVE  FALSE
      BY DEF Landing
    <3>1. srcs[i].name # Config
      BY DEF Active, SrcsMatch, ConfigApart, TypeOK
    <3>2. FieldOf[tasks[t].got[i]] # Config
      BY DEF ConfigApart
    <3> QED
      BY <3>1, <3>2 DEF SliceOf
  <2>2. combined' = MergeAll(combined, tasks[t].got) /\ screen' = screen /\ config' = config
    BY <1>4 DEF Merge
  <2>3. combined'[Config] = combined[Config]
    BY <1>1, <2>1, <2>2 DEF MergeAll
  <2> QED
    BY <2>2, <2>3 DEF ConfigWins
<1>5. CASE PushLands
  BY <1>5, <1>1 DEF PushLands, ConfigWins, ConfigApart, TypeOK, Docs
<1>6. CASE UiStep
  <2>1. ASSUME NEW a \in Apps \cup {None}, CloseThen(a) PROVE combined'[Config] = config'
    BY <2>1, <1>2, <1>3 DEF CloseThen
  <2>2. CASE NextPage \/ RefreshNow
    BY <1>2, <2>2 DEF NextPage, RefreshNow
  <2> QED
    BY <1>6, <2>1, <2>2 DEF UiStep, Open, Close
<1>7. CASE CloseStep
  BY <1>3, <1>7 DEF CloseStep, CloseDone, CloseGivesUp, EndWait, TypeOK
<1>8. CASE EnvStep
  BY <1>2, <1>5, <1>8 DEF EnvStep, PushStarts, NetChanges, Edit
<1>9. ASSUME NEW t \in TaskIds, TaskStep(t) PROVE combined'[Config] = config'
  BY <1>2, <1>4, <1>9 DEF TaskStep, Leave, Exit, Top, Scan, LockTimesOut, WriteCache, Status,
       Sleep, Count, Clock, ClockSleep, Panic, Fetched
<1>10. CASE UNCHANGED vars
  BY <1>2, <1>10 DEF vars
<1> QED
  BY <1>6, <1>7, <1>8, <1>9, <1>10 DEF Next

(* A stale cached field never outlives a live config change: the config a  *)
(* widget was opened with stays in its document over cache, fetches and    *)
(* pushed values, in every installation where none of these carries it.    *)
THEOREM ConfigAlwaysWins == Spec => []ConfigWins
<1>1. Init => ConfigWins
  BY DEF Init, ConfigWins
<1> QED
  BY <1>1, TypeInit, TypeStep, SrcsMatchInit, SrcsMatchStep, ConfigWinsStep, PTL DEF Spec

-----------------------------------------------------------------------------
(* With no task outlasting the wait of widget_close(), the handshake over  *)
(* s_stop and s_task is sound.                                             *)

Accounted ==
  /\ TaskAccounted
  /\ \A t \in TaskIds : tasks[t].pc = "none" => tasks[t] = Idle

(* Every open and every close finds the task of the widget before gone.    *)
LEMMA OpensAlone ==
  ASSUME TypeOK, Accounted, ~TaskOutlastsClose, UiStep \/ CloseStep
  PROVE  \/ \E a \in Apps \cup {None} : Finish(a) /\ task = None
         \/ UNCHANGED <<app, task, tasks>>
<1>1. ASSUME NEW a \in Apps \cup {None}, CloseThen(a)
      PROVE  (Finish(a) /\ task = None) \/ UNCHANGED <<app, task, tasks>>
  BY <1>1 DEF CloseThen, uiVars
<1>2. CASE NextPage \/ RefreshNow
  BY <1>2 DEF NextPage, RefreshNow, uiVars, taskVars
<1>3. CASE CloseStep
  BY <1>3 DEF CloseStep, CloseDone, CloseGivesUp, EndWait, TypeOK
<1> QED
  BY <1>1, <1>2, <1>3 DEF UiStep, Open, Close

LEMMA NobodyLive ==
  ASSUME TypeOK, Accounted, task = None
  PROVE  \A t \in TaskIds : tasks[t] = Idle
BY DEF Accounted, TaskAccounted, Live

LEMMA AccountedStep ==
  TypeOK /\ Accounted /\ ~TaskOutlastsClose /\ [Next]_vars => Accounted'
<1> SUFFICES ASSUME TypeOK, Accounted, ~TaskOutlastsClose, [Next]_vars PROVE Accounted'
  OBVIOUS
<1> USE DEF uiVars, docVars, taskVars, ctlVars, hostVars, envVars
<1>1. ASSUME UNCHANGED <<app, task, tasks>> PROVE Accounted'
  BY <1>1 DEF Accounted, TaskAccounted, Live
<1>2. ASSUME NEW a \in Apps \cup {None}, Finish(a), task = None PROVE Accounted'
  <2>1. \A t \in TaskIds : tasks[t] = Idle /\ Idle.pc = "none"
    BY <1>2, NobodyLive DEF Idle
  <2>2. CASE UNCHANGED <<task, tasks>>
    BY <1>2, <2>1, <2>2 DEF Accounted, TaskAccounted, Live
  <2>3. ASSUME a # None, LoadView(a), NEW pc \in {"clock", "top"}, StartTask(pc) PROVE Accounted'
    <3>1. CASE task' = None /\ UNCHANGED tasks
      BY <2>1, <3>1 DEF Accounted, TaskAccounted, Live
    <3>2. ASSUME NEW t \in TaskIds, task' = t, tasks' = [tasks EXCEPT ![t] = [Idle EXCEPT !.pc = pc]]
          PROVE  Accounted'
      <4>1. tasks'[t].pc = pc /\ \A u \in TaskIds \ {t} : tasks'[u] = Idle
        BY <2>1, <3>2 DEF TypeOK, Idle
      <4>2. Live' = {t}
        BY <2>1, <2>3, <4>1 DEF Live
      <4>3. app' # None /\ t # None
        BY <2>3, ConstantTypes DEF LoadView
      <4> QED
        BY <2>3, <3>2, <4>1, <4>2, <4>3 DEF Accounted, TaskAccounted
    <3> QED
      BY <2>3, <3>1, <3>2 DEF StartTask
  <2> QED
    BY <1>2, <2>2, <2>3 DEF Finish, Torn, LoadError, LoadView
<1>3. ASSUME NEW t \in TaskIds, TaskStep(t) PROVE Accounted'
  <2>1. CASE Panic(t)
    BY <2>1 DEF Panic, Accounted, TaskAccounted, Live, Idle
  <2>2. CASE Exit(t)
    <3>1. t \in Live /\ Live = {t}
      BY <2>2 DEF Exit, Live, Accounted, TaskAccounted
    <3>2. tasks'[t] = Idle /\ \A u \in TaskIds \ {t} : tasks'[u] = tasks[u]
      BY <2>2 DEF Exit, TypeOK
    <3>3. Live' = {} /\ task' = None
      BY <2>2, <3>1, <3>2 DEF Exit, Live, Idle
    <3> QED
      BY <3>2, <3>3 DEF Accounted, TaskAccounted
  <2>3. ASSUME tasks[t].pc # "none", tasks'[t].pc # "none", UNCHANGED <<app, task>>,
               \A u \in TaskIds \ {t} : tasks'[u] = tasks[u]
        PROVE  Accounted'
    <3>1. Live' = Live
      BY <2>3 DEF Live
    <3> QED
      BY <2>3, <3>1 DEF Accounted, TaskAccounted
  <2>4. tasks \in [TaskIds -> TaskType]
    BY DEF TypeOK
  <2>5. CASE Leave(t) \/ Clock(t) \/ ClockSleep(t)
    BY <2>3, <2>4, <2>5 DEF Leave, Clock, ClockSleep, Goto, TaskType
  <2>10. CASE Sleep(t) \/ Count(t)
    BY <2>3, <2>4, <2>10 DEF Sleep, Count, ReadCount, Idle
  <2>9. CASE Top(t)
    <3>1. [Idle EXCEPT !.pc = "scan", !.at = 1].pc = "scan"
      BY DEF Idle
    <3>2. [tasks[t] EXCEPT !.pc = "status"].pc = "status"
      BY <2>4 DEF TaskType
    <3>3. tasks'[t].pc \in {"scan", "status"} /\ \A u \in TaskIds \ {t} : tasks'[u] = tasks[u]
      BY <2>4, <2>9, <3>1, <3>2 DEF Top, Goto
    <3>4. tasks[t].pc # "none" /\ UNCHANGED <<app, task>>
      BY <2>9 DEF Top
    <3>5. tasks'[t].pc # "none"
      BY <3>3
    <3> QED
      BY <2>3, <3>3, <3>4, <3>5
  <2>6. CASE Scan(t)
    <3>1. tasks'[t].pc \in {"status", "merge", "fetch"} /\ \A u \in TaskIds \ {t} : tasks'[u] = tasks[u]
      <4>1. CASE DueFrom(tasks[t].at) = {}
        BY <2>4, <2>6, <4>1 DEF Scan, Goto, TaskType
      <4>2. ASSUME NEW i \in Idx,
                   tasks' = [tasks EXCEPT ![t].pc = "fetch", ![t].at = i, ![t].got[i] = srcs[i].url]
            PROVE  tasks'[t].pc = "fetch" /\ \A u \in TaskIds \ {t} : tasks'[u] = tasks[u]
        BY <2>4, <4>2 DEF TaskType
      <4> QED
        BY <2>6, <4>1, <4>2 DEF Scan, DueFrom, Active
    <3>2. tasks[t].pc # "none" /\ UNCHANGED <<app, task>>
      BY <2>6 DEF Scan
    <3>3. tasks'[t].pc # "none"
      BY <3>1
    <3> QED
      BY <2>3, <3>1, <3>2, <3>3
  <2>7. CASE Merge(t) \/ LockTimesOut(t) \/ WriteCache(t) \/ Status(t)
    BY <2>3, <2>4, <2>7 DEF Merge, LockTimesOut, WriteCache, Status, Goto, TaskType, Idle
  <2>8. ASSUME NEW ok \in BOOLEAN, Fetched(t, ok) PROVE Accounted'
    BY <2>3, <2>4, <2>8 DEF Fetched, TaskType
  <2> QED
    BY <1>3, <2>1, <2>2, <2>5, <2>6, <2>7, <2>8, <2>9, <2>10 DEF TaskStep
<1>4. CASE EnvStep
  BY <1>1, <1>4 DEF EnvStep, PushStarts, PushLands, NetChanges, Edit
<1>5. CASE UNCHANGED vars
  BY <1>1, <1>5 DEF vars
<1>6. CASE UiStep \/ CloseStep
  BY <1>1, <1>2, <1>6, OpensAlone
<1> QED
  BY <1>3, <1>4, <1>5, <1>6 DEF Next

LEMMA AccountedInit == Init => Accounted
<1> SUFFICES ASSUME Init PROVE Accounted
  OBVIOUS
<1>1. \A t \in TaskIds : tasks[t] = Idle /\ Idle.pc = "none"
  BY DEF Init, Idle
<1>2. Live = {}
  BY <1>1 DEF Live
<1> QED
  BY <1>1, <1>2 DEF Init, Accounted, TaskAccounted

(* widget_close() knows every task alive: none runs on after its widget,   *)
(* and no second one starts, as long as tasks end within its wait.         *)
THEOREM TasksAccounted ==
  ASSUME ~TaskOutlastsClose
  PROVE  Spec => []TaskAccounted
<1>1. Accounted => TaskAccounted
  BY DEF Accounted
<1>2. TypeOK /\ Accounted /\ [Next]_vars => Accounted'
  BY AccountedStep
<1> QED
  BY <1>1, <1>2, TypeInit, TypeStep, AccountedInit, PTL DEF Spec

(* write_cache_file(), outside the lock, never finds s_app gone.           *)
THEOREM AppThereToWrite ==
  ASSUME ~TaskOutlastsClose
  PROVE  Spec => []AppWhileWriting
<1>1. Accounted => AppWhileWriting
  BY DEF Accounted, TaskAccounted, AppWhileWriting, Live
<1>2. TypeOK /\ Accounted /\ [Next]_vars => Accounted'
  BY AccountedStep
<1> QED
  BY <1>1, <1>2, TypeInit, TypeStep, AccountedInit, PTL DEF Spec

-----------------------------------------------------------------------------
(* What a widget shows and caches is its own.                              *)

(* A body in a task's hands came from the url at its index, and the text a *)
(* task is about to write is the open widget's.                            *)
InHand ==
  \A t \in TaskIds :
    /\ \A i \in Idx : tasks[t].got[i] \in Urls => tasks[t].got[i] = srcs[i].url
    /\ tasks[t].pc = "write" =>
         \A k \in Keys : tasks[t].text[k] \in Urls => tasks[t].text[k] \in OwnBodies(app, k)

Owned == InHand /\ SlicesOwned /\ CachesOwned

Own(a, doc) == \A k \in Keys : doc[k] \in Urls => doc[k] \in OwnBodies(a, k)

LEMMA NotBodies == Urls \cap (Topics \cup Versions \cup {None, Failed}) = {}
BY WidgetAssumption DEF WidgetAssumption, Values

LEMMA ConfigDocOwn ==
  ASSUME NEW a, NEW v \in Versions \cup {None}
  PROVE  Own(a, ConfigDoc(v))
BY NotBodies DEF Own, ConfigDoc, EmptyDoc

LEMMA OverlayOwn ==
  ASSUME NEW a, NEW doc, NEW over, Own(a, doc), Own(a, over)
  PROVE  Own(a, Overlay(doc, over))
BY DEF Own, Overlay

LEMMA MergeOwn ==
  ASSUME TypeOK, SrcsMatch, app # None, Own(app, combined), NEW t \in TaskIds, InHand
  PROVE  Own(app, MergeAll(combined, tasks[t].got))
<1> SUFFICES ASSUME NEW k \in Keys, NEW i \in Landing(tasks[t].got, k)
             PROVE  tasks[t].got[i] \in OwnBodies(app, k)
  BY MergeAllField DEF Own
<1>1. i \in Idx /\ srcs[i] # None /\ tasks[t].got[i] \in Urls
      /\ SliceOf(srcs[i].name, tasks[t].got[i]) = k
  BY DEF Landing, Active
<1>2. tasks[t].got[i] = srcs[i].url
  BY <1>1 DEF InHand
<1> QED
  BY <1>1, <1>2 DEF OwnBodies, SrcsMatch

LEMMA OwnedFinish ==
  ASSUME TypeOK, Accounted, Owned, NEW a \in Apps \cup {None}, Finish(a), task = None
  PROVE  Owned'
<1>1. \A t \in TaskIds : tasks[t].pc = "none" /\ tasks[t].got = NoBodies
  BY NobodyLive DEF Idle
<1>2. InHand'
  <2>1. \A t \in TaskIds : tasks'[t].pc # "write" /\ tasks'[t].got = NoBodies
    <3>1. CASE UNCHANGED tasks
      BY <1>1, <3>1
    <3>2. ASSUME NEW pc \in {"clock", "top"}, StartTask(pc)
          PROVE  \A t \in TaskIds : tasks'[t].pc # "write" /\ tasks'[t].got = NoBodies
      BY <1>1, <3>2 DEF StartTask, TypeOK, Idle
    <3> QED
      BY <3>1, <3>2 DEF Finish, Torn, LoadError, LoadView, taskVars
  <2> QED
    BY <2>1, NotBodies DEF InHand, NoBodies
<1>3. SlicesOwned' /\ CachesOwned'
  <2>1. CASE Torn \/ (a # None /\ LoadError(a))
    BY <2>1, NotBodies DEF Torn, LoadError, Owned, SlicesOwned, CachesOwned, EmptyDoc
  <2>2. CASE a # None /\ LoadView(a)
    <3>1. a \in Apps /\ Declared(a) \in Versions \cup {None} /\ app' = a /\ disk' = disk
      BY <2>2 DEF Declared, TypeOK, LoadView
    <3>2. Own(a, ConfigDoc(Declared(a))) /\ Own(a, disk[a])
      BY <3>1, ConfigDocOwn DEF Owned, CachesOwned, Own
    <3>3. Own(a, Overlay(Overlay(ConfigDoc(Declared(a)), disk[a]), ConfigDoc(Declared(a))))
      BY <3>2, OverlayOwn
    <3>4. Own(a, combined')
      BY <2>2, <3>2, <3>3 DEF LoadView, LoadCache
    <3>5. SlicesOwned'
      BY <3>1, <3>4 DEF SlicesOwned, Own
    <3>6. CachesOwned'
      BY <3>1 DEF Owned, CachesOwned
    <3> QED
      BY <3>5, <3>6
  <2> QED
    BY <2>1, <2>2 DEF Finish
<1> QED
  BY <1>2, <1>3 DEF Owned

LEMMA OwnedTask ==
  ASSUME TypeOK, SrcsMatch, Accounted, Owned, NEW t \in TaskIds, TaskStep(t)
  PROVE  Owned'
<1> USE DEF uiVars, docVars, taskVars, ctlVars, hostVars, envVars
<1>1. tasks \in [TaskIds -> TaskType] /\ tasks[t] \in TaskType
  BY DEF TypeOK
<1>2. tasks[t].pc # "none" => app # None
  BY DEF Accounted, TaskAccounted, Live
<1>3. ASSUME \A u \in TaskIds \ {t} : tasks'[u] = tasks[u],
             \A i \in Idx : tasks'[t].got[i] \in Urls => tasks'[t].got[i] = srcs[i].url,
             tasks'[t].pc # "write", app' = app, \A i \in Idx : srcs'[i].url = srcs[i].url
      PROVE  InHand'
  BY <1>3 DEF InHand, Owned, OwnBodies
<1>4. ASSUME UNCHANGED <<app, combined, disk>> PROVE SlicesOwned' /\ CachesOwned'
  BY <1>4 DEF Owned, SlicesOwned, CachesOwned
<1>5. NoBodies \in [Idx -> {None}] /\ Idle.got = NoBodies /\ Idle.pc = "none"
  BY DEF NoBodies, Idle
<1>6. CASE Leave(t) \/ Clock(t) \/ ClockSleep(t)
  <2>1. tasks'[t].got = tasks[t].got /\ tasks'[t].pc # "write" /\ srcs' = srcs /\ app' = app
        /\ \A u \in TaskIds \ {t} : tasks'[u] = tasks[u]
    BY <1>1, <1>6 DEF Leave, Clock, ClockSleep, Goto, TaskType
  <2> QED
    BY <1>3, <1>4, <1>6, <2>1 DEF Leave, Clock, ClockSleep, Owned, InHand
<1>7. CASE Exit(t) \/ LockTimesOut(t)
  <2>1. tasks'[t].got = NoBodies /\ tasks'[t].pc # "write" /\ srcs' = srcs /\ app' = app
        /\ \A u \in TaskIds \ {t} : tasks'[u] = tasks[u]
    BY <1>1, <1>7 DEF Exit, LockTimesOut, Idle
  <2> QED
    BY <1>3, <1>4, <1>5, <1>7, <2>1, NotBodies DEF Exit, LockTimesOut, Owned
<1>8. CASE Top(t)
  <2>1. (tasks'[t].got = NoBodies \/ tasks'[t].got = tasks[t].got) /\ tasks'[t].pc # "write"
        /\ \A u \in TaskIds \ {t} : tasks'[u] = tasks[u]
    BY <1>1, <1>8 DEF Top, Goto, TaskType, Idle
  <2>2. UNCHANGED <<app, srcs, combined, disk>>
    BY <1>8 DEF Top
  <2> QED
    BY <1>3, <1>4, <1>5, <2>1, <2>2, NotBodies DEF Owned, InHand
<1>9. CASE Scan(t)
  <2>1. app' = app /\ \A i \in Idx : srcs'[i].url = srcs[i].url
    BY <1>9, ScanKeeps DEF Kept
  <2>2. /\ tasks'[t].pc # "write" /\ \A u \in TaskIds \ {t} : tasks'[u] = tasks[u]
        /\ \A i \in Idx : tasks'[t].got[i] \in {tasks[t].got[i], srcs[i].url}
    <3>1. CASE DueFrom(tasks[t].at) = {}
      BY <1>1, <1>9, <3>1 DEF Scan, Goto, TaskType
    <3>2. ASSUME NEW i \in Idx,
                 tasks' = [tasks EXCEPT ![t].pc = "fetch", ![t].at = i, ![t].got[i] = srcs[i].url]
          PROVE  /\ tasks'[t].pc # "write" /\ \A u \in TaskIds \ {t} : tasks'[u] = tasks[u]
                 /\ \A j \in Idx : tasks'[t].got[j] \in {tasks[t].got[j], srcs[j].url}
      BY <1>1, <3>2 DEF TaskType
    <3> QED
      BY <1>9, <3>1, <3>2 DEF Scan, DueFrom, Active
  <2>3. UNCHANGED <<combined, disk>>
    BY <1>9 DEF Scan
  <2> QED
    BY <1>3, <1>4, <2>1, <2>2, <2>3 DEF Owned, InHand
<1>10. CASE Sleep(t) \/ Count(t)
  <2>1. app' = app /\ \A i \in Idx : srcs'[i].url = srcs[i].url
    BY <1>10, CountKeeps DEF Kept, Sleep
  <2>2. tasks'[t].got = NoBodies /\ tasks'[t].pc # "write"
        /\ \A u \in TaskIds \ {t} : tasks'[u] = tasks[u]
    BY <1>1, <1>10 DEF Sleep, Count, ReadCount, Idle
  <2>3. UNCHANGED <<combined, disk>>
    BY <1>10 DEF Sleep, Count
  <2> QED
    BY <1>3, <1>4, <1>5, <2>1, <2>2, <2>3, NotBodies DEF Owned
<1>11. ASSUME NEW ok \in BOOLEAN, Fetched(t, ok) PROVE Owned'
  <2>1. /\ tasks'[t].pc # "write" /\ \A u \in TaskIds \ {t} : tasks'[u] = tasks[u]
        /\ \A i \in Idx : tasks'[t].got[i] \in {tasks[t].got[i], Failed}
    BY <1>1, <1>11 DEF Fetched, TaskType
  <2>2. UNCHANGED <<app, srcs, combined, disk>>
    BY <1>11 DEF Fetched
  <2> QED
    BY <1>3, <1>4, <2>1, <2>2, NotBodies DEF Owned, InHand
<1>12. CASE Status(t)
  <2>1. tasks'[t].got = tasks[t].got /\ tasks'[t].pc # "write"
        /\ \A u \in TaskIds \ {t} : tasks'[u] = tasks[u]
    BY <1>1, <1>12 DEF Status, Goto, TaskType
  <2>2. UNCHANGED <<app, srcs, combined, disk>>
    BY <1>12 DEF Status
  <2> QED
    BY <1>3, <1>4, <2>1, <2>2 DEF Owned, InHand
<1>13. CASE Merge(t)
  <2>1. combined' = MergeAll(combined, tasks[t].got) /\ UNCHANGED <<app, srcs, disk>>
    BY <1>13 DEF Merge
  <2>2. app # None /\ Own(app, combined)
    BY <1>2, <1>13 DEF Merge, Owned, SlicesOwned, Own
  <2>3. Own(app, combined')
    BY <2>1, <2>2, MergeOwn DEF Owned
  <2>4. SlicesOwned' /\ CachesOwned'
    BY <2>1, <2>3 DEF SlicesOwned, Own, Owned, CachesOwned
  <2>5. /\ \A u \in TaskIds \ {t} : tasks'[u] = tasks[u]
        /\ tasks'[t].got = NoBodies
        /\ tasks'[t].pc = "write" => tasks'[t].text = combined'
    BY <1>1, <1>13 DEF Merge, Idle
  <2>6. InHand'
    <3>1. ASSUME NEW u \in TaskIds \ {t}, NEW i \in Idx, tasks'[u].got[i] \in Urls
          PROVE  tasks'[u].got[i] = srcs'[i].url
      BY <2>1, <2>5, <3>1 DEF Owned, InHand
    <3>2. ASSUME NEW u \in TaskIds \ {t}, tasks'[u].pc = "write", NEW k \in Keys, tasks'[u].text[k] \in Urls
          PROVE  tasks'[u].text[k] \in OwnBodies(app', k)
      BY <2>1, <2>5, <3>2 DEF Owned, InHand
    <3>3. \A i \in Idx : tasks'[t].got[i] \notin Urls
      BY <2>5, <1>5, NotBodies
    <3>4. tasks'[t].pc = "write" =>
            \A k \in Keys : tasks'[t].text[k] \in Urls => tasks'[t].text[k] \in OwnBodies(app', k)
      BY <2>1, <2>3, <2>5 DEF Own
    <3> QED
      BY <3>1, <3>2, <3>3, <3>4 DEF InHand, OwnBodies
  <2> QED
    BY <2>4, <2>6 DEF Owned
<1>14. CASE WriteCache(t)
  <2>1. UNCHANGED <<app, srcs, combined>> /\ disk' = [disk EXCEPT ![app] = tasks[t].text] /\ app \in Apps
    BY <1>14 DEF WriteCache, TypeOK
  <2>2. Own(app, tasks[t].text)
    BY <1>14 DEF WriteCache, Owned, InHand, Own
  <2>3. CachesOwned'
    BY <2>1, <2>2 DEF CachesOwned, Owned, Own, TypeOK
  <2>4. SlicesOwned'
    BY <2>1 DEF SlicesOwned, Owned
  <2>5. tasks'[t].got = NoBodies /\ tasks'[t].pc # "write"
        /\ \A u \in TaskIds \ {t} : tasks'[u] = tasks[u]
    BY <1>1, <1>14 DEF WriteCache, Idle
  <2> QED
    BY <1>3, <1>5, <2>1, <2>3, <2>4, <2>5, NotBodies DEF Owned
<1>15. CASE Panic(t)
  BY <1>15, <1>2 DEF Panic
<1> QED
  BY <1>6, <1>7, <1>8, <1>9, <1>10, <1>11, <1>12, <1>13, <1>14, <1>15 DEF TaskStep

LEMMA OwnedStep ==
  TypeOK /\ SrcsMatch /\ Accounted /\ Owned /\ ~TaskOutlastsClose /\ [Next]_vars => Owned'
<1> SUFFICES ASSUME TypeOK, SrcsMatch, Accounted, Owned, ~TaskOutlastsClose, [Next]_vars
             PROVE  Owned'
  OBVIOUS
<1> USE DEF uiVars, docVars, taskVars, ctlVars, hostVars, envVars
<1>1. ASSUME UNCHANGED <<app, srcs, combined, disk, tasks>> PROVE Owned'
  BY <1>1 DEF Owned, InHand, SlicesOwned, CachesOwned
<1>2. CASE UiStep
  <2>1. CASE NextPage
    BY <1>1, <2>1 DEF NextPage
  <2>2. CASE RefreshNow
    <3>1. \A i \in Idx : srcs'[i].url = srcs[i].url
      BY <2>2 DEF RefreshNow, Active, TypeOK, SourceState
    <3>2. UNCHANGED <<app, combined, disk, tasks>>
      BY <2>2 DEF RefreshNow
    <3> QED
      BY <3>1, <3>2 DEF Owned, InHand, SlicesOwned, CachesOwned
  <2>3. ASSUME NEW a \in Apps \cup {None}, CloseThen(a) PROVE Owned'
    BY <1>1, <2>3, OwnedFinish DEF CloseThen
  <2> QED
    BY <1>2, <2>1, <2>2, <2>3 DEF UiStep, Open, Close
<1>3. CASE CloseStep
  BY <1>3, OwnedFinish DEF CloseStep, CloseDone, CloseGivesUp, EndWait, TypeOK
<1>4. CASE EnvStep
  <2>1. CASE PushLands
    <3>1. UNCHANGED <<app, srcs, disk, tasks>> /\ push \in Topics
      BY <2>1 DEF PushLands, TypeOK
    <3>2. combined' = combined \/ combined' = [combined EXCEPT ![push] = push]
      BY <2>1 DEF PushLands
    <3>3. \A k \in Keys : combined'[k] = combined[k] \/ combined'[k] \notin Urls
      BY <3>1, <3>2, NotBodies DEF TypeOK, Docs
    <3> QED
      BY <3>1, <3>3 DEF Owned, InHand, SlicesOwned, CachesOwned
  <2> QED
    BY <1>1, <1>4, <2>1 DEF EnvStep, PushStarts, NetChanges, Edit
<1>5. ASSUME NEW t \in TaskIds, TaskStep(t) PROVE Owned'
  BY <1>5, OwnedTask
<1>6. CASE UNCHANGED vars
  BY <1>1, <1>6 DEF vars
<1> QED
  BY <1>2, <1>3, <1>4, <1>5, <1>6 DEF Next

LEMMA OwnedInit == Init => Owned
<1> SUFFICES ASSUME Init PROVE Owned
  OBVIOUS
<1>1. \A t \in TaskIds : tasks[t] = Idle
  BY DEF Init
<1>2. InHand
  BY <1>1, NotBodies DEF InHand, Idle, NoBodies
<1>3. CachesOwned /\ SlicesOwned
  BY NotBodies DEF Init, CachesOwned, SlicesOwned, EmptyDoc
<1> QED
  BY <1>2, <1>3 DEF Owned

(* A widget never shows what was fetched for another, and no cache file    *)
(* ever holds it, as long as tasks end within the wait of widget_close().  *)
THEOREM WidgetsApart ==
  ASSUME ~TaskOutlastsClose
  PROVE  Spec => [](SlicesOwned /\ CachesOwned)
<1>1. Owned => SlicesOwned /\ CachesOwned
  BY DEF Owned
<1>2. TypeOK /\ Accounted /\ [Next]_vars => Accounted'
  BY AccountedStep
<1>3. TypeOK /\ SrcsMatch /\ Accounted /\ Owned /\ [Next]_vars => Owned'
  BY OwnedStep
<1> QED
  BY <1>1, <1>2, <1>3, TypeInit, TypeStep, SrcsMatchInit, SrcsMatchStep, AccountedInit, OwnedInit,
     PTL DEF Spec

(* No cache file is ever another widget's: shown in a later session, it    *)
(* would be taken for that widget's own data.                              *)
THEOREM CachesApart ==
  ASSUME ~TaskOutlastsClose
  PROVE  Spec => []CachesOwned
<1>1. SlicesOwned /\ CachesOwned => CachesOwned
  OBVIOUS
<1> QED
  BY <1>1, WidgetsApart, PTL

-----------------------------------------------------------------------------
(* A closed widget leaves nothing behind, even where a task outlasts the   *)
(* wait of widget_close(): with no widget open there is no source whose    *)
(* body the task left over could merge.                                    *)

LEMMA CleanStep == TypeOK /\ SrcsMatch /\ ClosedIsClean /\ [Next]_vars => ClosedIsClean'
<1> SUFFICES ASSUME TypeOK, SrcsMatch, ClosedIsClean, [Next]_vars, app' = None
             PROVE  \A k \in Keys : combined'[k] \notin Urls
  BY DEF ClosedIsClean
<1> USE DEF uiVars, docVars, taskVars, ctlVars, hostVars, envVars
<1>1. CASE UNCHANGED <<app, combined>>
  BY <1>1 DEF ClosedIsClean
<1>2. CASE combined' = EmptyDoc
  BY <1>2, NotBodies DEF EmptyDoc
<1>3. ASSUME NEW a \in Apps \cup {None}, Finish(a) PROVE combined' = EmptyDoc
  BY <1>3, ConstantTypes DEF Finish, Torn, LoadError, LoadView
<1>4. CASE UiStep
  <2>1. ASSUME NEW a \in Apps \cup {None}, CloseThen(a)
        PROVE  combined' = EmptyDoc \/ UNCHANGED <<app, combined>>
    BY <1>3, <2>1 DEF CloseThen
  <2>2. CASE NextPage \/ RefreshNow
    BY <1>1, <2>2 DEF NextPage, RefreshNow
  <2> QED
    BY <1>1, <1>2, <1>4, <2>1, <2>2 DEF UiStep, Open, Close
<1>5. CASE CloseStep
  BY <1>2, <1>3, <1>5 DEF CloseStep, CloseDone, CloseGivesUp, EndWait, TypeOK
<1>6. CASE EnvStep
  <2>1. CASE PushLands
    <3>1. app' = app /\ push \in Topics
      BY <2>1 DEF PushLands, TypeOK
    <3>2. combined' = combined \/ combined' = [combined EXCEPT ![push] = push]
      BY <2>1 DEF PushLands
    <3> QED
      BY <3>1, <3>2, NotBodies DEF TypeOK, Docs, ClosedIsClean
  <2> QED
    BY <1>1, <1>6, <2>1 DEF EnvStep, PushStarts, NetChanges, Edit
<1>7. ASSUME NEW t \in TaskIds, TaskStep(t) PROVE \A k \in Keys : combined'[k] \notin Urls
  <2>1. CASE Merge(t)
    <3>1. app = None /\ combined' = MergeAll(combined, tasks[t].got)
      BY <2>1 DEF Merge
    <3>2. \A k \in Keys : Landing(tasks[t].got, k) = {}
      BY <3>1 DEF Landing, Active, SrcsMatch
    <3> QED
      BY <3>1, <3>2, MergeAllField DEF ClosedIsClean
  <2> QED
    BY <1>1, <1>2, <1>7, <2>1 DEF TaskStep, Leave, Exit, Top, Scan, LockTimesOut, WriteCache,
         Status, Sleep, Count, Clock, ClockSleep, Panic, Fetched
<1>8. CASE UNCHANGED vars
  BY <1>1, <1>8 DEF vars
<1> QED
  BY <1>4, <1>5, <1>6, <1>7, <1>8 DEF Next

(* What a closed widget fetched is gone with it, whichever task outlasts   *)
(* the wait of widget_close() and merges after it.                         *)
THEOREM ClosedLeavesNothing == Spec => []ClosedIsClean
<1>1. Init => ClosedIsClean
  BY NotBodies DEF Init, ClosedIsClean, EmptyDoc
<1> QED
  BY <1>1, CleanStep, TypeInit, TypeStep, SrcsMatchInit, SrcsMatchStep, PTL DEF Spec

-----------------------------------------------------------------------------
(* Pages.                                                                  *)

(* The page that is saved is the open widget's.                            *)
PageInv == PageRestored /\ (screen = "view" => app # None)

LEMMA PageStep == TypeOK /\ PageInv /\ [Next]_vars => PageInv'
<1> SUFFICES ASSUME TypeOK, PageInv, [Next]_vars PROVE PageInv'
  OBVIOUS
<1> USE DEF uiVars, docVars, taskVars, ctlVars, hostVars, envVars
<1>1. UNCHANGED <<app, screen, page, nvsPage, maxPage>> => PageInv'
  BY DEF PageInv, PageRestored
<1>2. screen' # "view" => PageInv'
  BY DEF PageInv, PageRestored
<1>3. ASSUME NEW a \in Apps \cup {None}, Finish(a) PROVE PageInv'
  <2>1. CASE Torn \/ LoadError(a)
    BY <1>2, <2>1 DEF Torn, LoadError
  <2>2. CASE a # None /\ LoadView(a)
    <3>1. PICK pages \in Nat \ {0} : pages = PagesOf[a][version[a]]
      BY <2>2, ConstantTypes DEF TypeOK
    <3>2. /\ app' = a /\ a \in Apps /\ nvsPage' = nvsPage /\ nvsPage[a] \in Nat
          /\ maxPage' = pages - 1 /\ page' = IF nvsPage[a] < pages THEN nvsPage[a] ELSE 0
      BY <2>2, <3>1 DEF LoadView, TypeOK
    <3>3. page' \in 0 .. maxPage' /\ (nvsPage[a] \in 0 .. maxPage' => page' = nvsPage[a])
      BY <3>1, <3>2
    <3> QED
      BY <3>2, <3>3, ConstantTypes DEF PageInv, PageRestored
  <2> QED
    BY <1>3, <2>1, <2>2 DEF Finish
<1>4. CASE NextPage
  <2>1. /\ page' = (page + 1) % (maxPage + 1) /\ nvsPage' = [nvsPage EXCEPT ![app] = page']
        /\ app \in Apps /\ UNCHANGED <<app, screen, maxPage>>
    BY <1>4 DEF NextPage, PageInv, TypeOK
  <2>2. page' \in 0 .. maxPage
    BY <2>1 DEF TypeOK
  <2>3. nvsPage'[app] = page'
    BY <2>1 DEF TypeOK
  <2> QED
    BY <2>1, <2>2, <2>3, ConstantTypes DEF PageInv, PageRestored
<1>5. CASE UiStep
  <2>1. ASSUME NEW a \in Apps \cup {None}, CloseThen(a) PROVE PageInv'
    BY <1>1, <1>3, <2>1 DEF CloseThen
  <2>2. CASE RefreshNow
    BY <1>1, <2>2 DEF RefreshNow
  <2> QED
    BY <1>4, <1>5, <2>1, <2>2 DEF UiStep, Open, Close
<1>6. CASE CloseStep
  BY <1>3, <1>6 DEF CloseStep, CloseDone, CloseGivesUp, EndWait, TypeOK
<1>7. CASE EnvStep
  BY <1>1, <1>7 DEF EnvStep, PushStarts, PushLands, NetChanges, Edit
<1>8. ASSUME NEW t \in TaskIds, TaskStep(t) PROVE PageInv'
  BY <1>1, <1>2, <1>8 DEF TaskStep, Leave, Exit, Top, Scan, Merge, LockTimesOut, WriteCache,
       Status, Sleep, Count, Clock, ClockSleep, Panic, Fetched
<1>9. CASE UNCHANGED vars
  BY <1>1, <1>9 DEF vars
<1> QED
  BY <1>5, <1>6, <1>7, <1>8, <1>9 DEF Next

(* The page on screen is in the ui.jsonl that was opened, and is the one   *)
(* the next opening restores unless an edit has taken it away, for every   *)
(* edit of the card and every number of pages.                             *)
THEOREM PageAlwaysRestored == Spec => []PageRestored
<1>1. Init => PageInv
  BY DEF Init, PageInv, PageRestored
<1>2. PageInv => PageRestored
  BY DEF PageInv
<1> QED
  BY <1>1, <1>2, PageStep, TypeInit, TypeStep, PTL DEF Spec
=============================================================================
