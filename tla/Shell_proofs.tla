------------------------------ MODULE Shell_proofs ------------------------------
(***************************************************************************)
(* Proofs about the shell, for any card, pins and buttons: while its user  *)
(* waits for what was pressed to be handled and does not press Enter over  *)
(* a widget opened from Full list, what is shown is the newest of what is  *)
(* open, Home is always reached and shows the pin its index counts to, and *)
(* no scan runs under a widget.                                            *)
(*                                                                         *)
(* The invariant says in which shapes the screens are: bare, under one     *)
(* widget, or under Settings and then in the mode of Full list. To keep it *)
(* one must know that no Enter is on its way when that mode ends, hence    *)
(* that the keypad has at most one key to read, none while an event that   *)
(* matters waits, and that an Enter waits only where a tile can be seen.   *)
(***************************************************************************)
EXTENDS Shell, SeqLemmas, TLAPS

Screen(a, w, o, p, q, l) ==
  [active |-> a, widget |-> w, opened |-> o, widgetPrev |-> p, settingsPrev |-> q, loaded |-> l]
Bare(m)        == Screen(m, 0, None, "none", "none", "sound")
Under(m, w, a) == Screen("widget", w, a, m, "none", "sound")
Settings       == Screen("settings", 0, None, "none", "list", "sound")

ShapeOf(m, r) ==
  \/ r = Bare(m)
  \/ \E w, a : r = Under(m, w, a)
  \/ m = "list" /\ r = Settings
Shape == mode \in {"home", "list"} /\ ShapeOf(mode, scr)

(* The keypad has at most one key to read, and an Enter only where a tile  *)
(* or a row of Settings can be seen.                                       *)
OneKey ==
  /\ ring \in Seq(Keys)
  /\ ring = <<>> \/ (Len(ring) = 1 /\ key = None)
EnterSeen ==
  key = "ENTER" \/ (ring # <<>> /\ Head(ring) = "ENTER") => mode = "list" /\ ~InWidget(scr)

(* An event but the second of a double click waits alone, with no key to   *)
(* be read; Enter waits only where it is meant to be pressed.              *)
Queued == [mask : SUBSET Present, kind : Buttons!Kinds]
Waiting ==
  /\ mask \subseteq Present
  /\ queue \in Seq(Queued)
  /\ \A i \in 1 .. Len(queue) :
       /\ queue[i].kind # "dblclick" => i = 1 /\ ring = <<>> /\ key = None
       /\ ~Blind(queue[i])

Careful == Shape /\ OneKey /\ EnterSeen /\ Waiting

(* What is assumed of the user.                                            *)
Prudent == Patient /\ ~BlindEnter

-----------------------------------------------------------------------------
(* A screen, field by field.                                               *)

LEMMA SetActive ==
  ASSUME NEW a, NEW w, NEW o, NEW p, NEW q, NEW l, NEW x
  PROVE  [Screen(a, w, o, p, q, l) EXCEPT !.active = x] = Screen(x, w, o, p, q, l)
BY DEF Screen
LEMMA SetWidget ==
  ASSUME NEW a, NEW w, NEW o, NEW p, NEW q, NEW l, NEW x
  PROVE  [Screen(a, w, o, p, q, l) EXCEPT !.widget = x] = Screen(a, x, o, p, q, l)
BY DEF Screen
LEMMA SetOpened ==
  ASSUME NEW a, NEW w, NEW o, NEW p, NEW q, NEW l, NEW x
  PROVE  [Screen(a, w, o, p, q, l) EXCEPT !.opened = x] = Screen(a, w, x, p, q, l)
BY DEF Screen
LEMMA SetWidgetPrev ==
  ASSUME NEW a, NEW w, NEW o, NEW p, NEW q, NEW l, NEW x
  PROVE  [Screen(a, w, o, p, q, l) EXCEPT !.widgetPrev = x] = Screen(a, w, o, x, q, l)
BY DEF Screen
LEMMA SetSettingsPrev ==
  ASSUME NEW a, NEW w, NEW o, NEW p, NEW q, NEW l, NEW x
  PROVE  [Screen(a, w, o, p, q, l) EXCEPT !.settingsPrev = x] = Screen(a, w, o, p, x, l)
BY DEF Screen
LEMMA SetLoaded ==
  ASSUME NEW a, NEW w, NEW o, NEW p, NEW q, NEW l, NEW x
  PROVE  [Screen(a, w, o, p, q, l) EXCEPT !.loaded = x] = Screen(a, w, o, p, q, x)
BY DEF Screen

LEMMA LoadScreen ==
  ASSUME NEW a, NEW w, NEW o, NEW p, NEW q, NEW l, NEW s, s # "gone"
  PROVE  Load(Screen(a, w, o, p, q, l), s) = Screen(s, w, o, p, q, l)
<1> DEFINE r == Screen(a, w, o, p, q, l)
<1>1. (IF s = "gone" THEN "freed" ELSE r.loaded) = l
  BY DEF Screen
<1>2. Load(r, s) = [r EXCEPT !.active = s, !.loaded = l]
  BY <1>1, Zenon DEF Load
<1>3. [r EXCEPT !.active = s, !.loaded = l] = [[r EXCEPT !.active = s] EXCEPT !.loaded = l]
  OBVIOUS
<1>4. [r EXCEPT !.active = s] = Screen(s, w, o, p, q, l)
  BY SetActive
<1>5. [Screen(s, w, o, p, q, l) EXCEPT !.loaded = l] = Screen(s, w, o, p, q, l)
  BY SetLoaded
<1> QED BY <1>2, <1>3, <1>4, <1>5, Zenon

LEMMA DeleteScreen ==
  ASSUME NEW a, NEW w, NEW o, NEW p, NEW q, NEW l, NEW d
  PROVE  Delete(Screen(a, w, o, p, q, l), d) = Screen(Gone(a, d), w, o, Gone(p, d), Gone(q, d), l)
<1> DEFINE r == Screen(a, w, o, p, q, l)
<1>1. r.active = a /\ r.widgetPrev = p /\ r.settingsPrev = q
  BY DEF Screen
<1>2. Delete(r, d) = [r EXCEPT !.active = Gone(a, d), !.widgetPrev = Gone(p, d), !.settingsPrev = Gone(q, d)]
  BY <1>1, Zenon DEF Delete
<1>3. ASSUME NEW x, NEW y, NEW z
      PROVE  [r EXCEPT !.active = x, !.widgetPrev = y, !.settingsPrev = z] =
               [[[r EXCEPT !.active = x] EXCEPT !.widgetPrev = y] EXCEPT !.settingsPrev = z]
  OBVIOUS
<1>4. [r EXCEPT !.active = Gone(a, d)] = Screen(Gone(a, d), w, o, p, q, l)
  BY SetActive
<1>5. [Screen(Gone(a, d), w, o, p, q, l) EXCEPT !.widgetPrev = Gone(p, d)]
        = Screen(Gone(a, d), w, o, Gone(p, d), q, l)
  BY SetWidgetPrev
<1>6. [Screen(Gone(a, d), w, o, Gone(p, d), q, l) EXCEPT !.settingsPrev = Gone(q, d)]
        = Screen(Gone(a, d), w, o, Gone(p, d), Gone(q, d), l)
  BY SetSettingsPrev
<1> QED BY <1>2, <1>3, <1>4, <1>5, <1>6, Zenon

LEMMA WidgetScreen ==
  ASSUME NEW a, NEW w, NEW o, NEW p, NEW q, NEW l, NEW x, NEW y, NEW z
  PROVE  WidgetIs(Screen(a, w, o, p, q, l), x, y, z) = Screen(a, x, y, z, q, l)
<1> DEFINE r == Screen(a, w, o, p, q, l)
<1>1. [r EXCEPT !.widget = x, !.opened = y, !.widgetPrev = z] =
        [[[r EXCEPT !.widget = x] EXCEPT !.opened = y] EXCEPT !.widgetPrev = z]
  OBVIOUS
<1>2. [r EXCEPT !.widget = x] = Screen(a, x, o, p, q, l)
  BY SetWidget
<1>3. [Screen(a, x, o, p, q, l) EXCEPT !.opened = y] = Screen(a, x, y, p, q, l)
  BY SetOpened
<1>4. [Screen(a, x, y, p, q, l) EXCEPT !.widgetPrev = z] = Screen(a, x, y, z, q, l)
  BY SetWidgetPrev
<1> QED BY <1>1, <1>2, <1>3, <1>4, Zenon DEF WidgetIs

-----------------------------------------------------------------------------
(* The shapes.                                                             *)

LEMMA WidgetCloseShape ==
  ASSUME NEW m \in {"home", "list"}, NEW r, ShapeOf(m, r), ~InSettings(r)
  PROVE  WidgetClosed(r) = Bare(m)
<1>1. CASE r = Bare(m)
  BY <1>1 DEF Bare, Screen, WidgetClosed, InWidget
<1>2. ASSUME NEW w, NEW a, r = Under(m, w, a)
      PROVE  WidgetClosed(r) = Bare(m)
  <2>1. InWidget(r) /\ r.widgetPrev = m
    BY <1>2 DEF Under, Screen, InWidget
  <2>2. Load(r, r.widgetPrev) = Screen(m, w, a, m, "none", "sound")
    BY <1>2, <2>1, LoadScreen DEF Under
  <2>3. WidgetIs(Load(r, r.widgetPrev), 0, None, "none") = Bare(m)
    BY <2>2, WidgetScreen DEF Bare
  <2>4. Delete(Bare(m), "widget") = Bare(m)
    BY DeleteScreen DEF Bare, Gone
  <2> QED BY <2>1, <2>3, <2>4, Zenon DEF WidgetClosed
<1>3. ASSUME r = Settings PROVE FALSE
  BY <1>3 DEF Settings, Screen, InSettings
<1> QED BY <1>1, <1>2, <1>3 DEF ShapeOf

LEMMA SettingsCloseShape == SettingsClosed(Settings) = Bare("list")
<1>1. InSettings(Settings) /\ Settings.settingsPrev = "list"
  BY DEF Settings, Screen, InSettings
<1>2. Load(Settings, "list") = Screen("list", 0, None, "none", "list", "sound")
  BY LoadScreen DEF Settings
<1>3. [Load(Settings, "list") EXCEPT !.settingsPrev = "none"] = Bare("list")
  <2>1. [Screen("list", 0, None, "none", "list", "sound") EXCEPT !.settingsPrev = "none"]
          = Bare("list")
    BY SetSettingsPrev DEF Bare
  <2> QED BY <1>2, <2>1, Zenon
<1>4. Delete(Bare("list"), "settings") = Bare("list")
  BY DeleteScreen DEF Bare, Gone
<1> QED BY <1>1, <1>3, <1>4, Zenon DEF SettingsClosed

LEMMA CloseShapes ==
  ASSUME NEW m \in {"home", "list"}, NEW r, ShapeOf(m, r)
  PROVE  SettingsClosed(WidgetClosed(r)) = Bare(m)
<1>1. CASE InSettings(r)
  <2>1. r = Settings /\ m = "list"
    BY <1>1 DEF ShapeOf, Bare, Under, Screen, InSettings
  <2>2. WidgetClosed(r) = Settings
    BY <2>1 DEF WidgetClosed, Settings, Screen, InWidget
  <2> QED BY <2>1, <2>2, SettingsCloseShape
<1>2. CASE ~InSettings(r)
  <2>1. WidgetClosed(r) = Bare(m)
    BY <1>2, WidgetCloseShape
  <2> QED BY <2>1 DEF Bare, Screen, SettingsClosed, InSettings
<1> QED BY <1>1, <1>2

LEMMA OpenShape ==
  ASSUME NEW m \in {"home", "list"}, NEW r, ShapeOf(m, r), ~InSettings(r),
         NEW slot, NEW s \in WidgetOpened(r, slot)
  PROVE  ShapeOf(m, s) /\ ~InSettings(s)
<1>1. WidgetClosed(r) = Bare(m) /\ Bare(m).active = m
  BY WidgetCloseShape DEF Bare, Screen
<1>2. WidgetIs(Bare(m), slot, apps[slot], m) = Screen(m, slot, apps[slot], m, "none", "sound")
  BY WidgetScreen DEF Bare
<1>3. Load(WidgetIs(Bare(m), slot, apps[slot], m), "widget") = Under(m, slot, apps[slot])
  BY <1>2, LoadScreen DEF Under
<1>4. s = Bare(m) \/ s = Under(m, slot, apps[slot])
  BY <1>1, <1>3, Zenon DEF WidgetOpened
<1>5. ~InSettings(Bare(m)) /\ ~InSettings(Under(m, slot, apps[slot]))
  BY DEF Bare, Under, Screen, InSettings
<1> QED BY <1>4, <1>5 DEF ShapeOf

LEMMA LoadBare ==
  ASSUME NEW m, NEW n \in {"home", "list"}
  PROVE  Load(Bare(m), n) = Bare(n)
BY LoadScreen DEF Bare

(* Settings is opened from the tiles of Full list only.                    *)
LEMMA SettingsShape == SettingsOpened(Bare("list")) = Settings
<1>1. ~InSettings(Bare("list")) /\ Bare("list").active = "list"
  BY DEF Bare, Screen, InSettings
<1>2. [Bare("list") EXCEPT !.settingsPrev = "list"]
        = Screen("list", 0, None, "none", "list", "sound")
  BY SetSettingsPrev DEF Bare
<1>3. Load([Bare("list") EXCEPT !.settingsPrev = "list"], "settings") = Settings
  BY <1>2, LoadScreen DEF Settings
<1> QED BY <1>1, <1>3, Zenon DEF SettingsOpened

(* What a shape says of the screen that is active.                         *)
LEMMA ShapeFacts ==
  ASSUME NEW m \in {"home", "list"}, NEW r, ShapeOf(m, r)
  PROVE  /\ InSettings(r) => r = Settings /\ m = "list" /\ r.active = "settings"
         /\ ~InSettings(r) /\ ~InWidget(r) => r = Bare(m) /\ r.active = m
         /\ InWidget(r) => r.active = "widget" /\ ~InSettings(r)
         /\ r.active = "list" => r = Bare("list") /\ m = "list"
         /\ "gone" \notin {r.widgetPrev, r.settingsPrev}
         /\ r.loaded = "sound"
<1>1. CASE r = Bare(m)
  BY <1>1 DEF Bare, Screen, InWidget, InSettings
<1>2. CASE \E w, a : r = Under(m, w, a)
  BY <1>2 DEF Under, Screen, InWidget, InSettings
<1>3. CASE m = "list" /\ r = Settings
  BY <1>3 DEF Settings, Screen, InWidget, InSettings
<1> QED BY <1>1, <1>2, <1>3 DEF ShapeOf

LEMMA LeaveShape ==
  ASSUME Shape, Leave
  PROVE  mode' = "home" /\ Shape' /\ UNCHANGED keyVars
<1>1. SettingsClosed(WidgetClosed(scr)) = Bare(mode) /\ mode \in {"home", "list"}
  BY CloseShapes DEF Shape
<1>2. Load(Bare(mode), "home") = Bare("home")
  BY LoadBare
<1>3. /\ mode' = "home" /\ UNCHANGED keyVars
      /\ \/ scr' = Bare("home")
         \/ scr' \in WidgetOpened(Bare("home"), pinned'[pinnedIdx' + 1])
  BY <1>1, <1>2, Zenon DEF Leave, ShowHome
<1>4. ShapeOf("home", Bare("home")) /\ ~InSettings(Bare("home"))
  BY DEF ShapeOf, Bare, Screen, InSettings
<1>5. ShapeOf("home", scr')
  BY <1>3, <1>4, OpenShape
<1> QED BY <1>3, <1>5 DEF Shape

LEMMA HomeStepShape ==
  ASSUME Shape, mode = "home", NEW d, HomeStep(d)
  PROVE  Shape' /\ UNCHANGED <<mode, keyVars>>
<1>1. ShapeOf("home", scr) /\ ~InSettings(scr)
  BY ShapeFacts DEF Shape
<1>2. /\ UNCHANGED <<mode, keyVars>>
      /\ scr' = scr \/ scr' \in WidgetOpened(scr, pinned[pinnedIdx' + 1])
  BY DEF HomeStep
<1>3. ShapeOf("home", scr')
  BY <1>1, <1>2, OpenShape
<1> QED BY <1>2, <1>3 DEF Shape

LEMMA FullListShape ==
  ASSUME Shape, mode = "home", ShowFullList
  PROVE  Shape' /\ UNCHANGED keyVars
<1>1. WidgetClosed(scr) = Bare("home")
  BY ShapeFacts, WidgetCloseShape DEF Shape
<1>2. scr' = Bare("list") /\ mode' = "list" /\ UNCHANGED keyVars
  BY <1>1, LoadBare DEF ShowFullList
<1> QED BY <1>2 DEF Shape, ShapeOf

LEMMA TileShape ==
  ASSUME Shape, scr = Bare("list"), mode = "list", NEW i, TileClicked(i)
  PROVE  Shape' /\ UNCHANGED mode
<1>1. ShapeOf("list", scr) /\ ~InSettings(scr)
  BY DEF ShapeOf, Bare, Screen, InSettings
<1>2. UNCHANGED mode /\ (scr' = SettingsOpened(scr) \/ scr' = scr \/ scr' \in WidgetOpened(scr, i))
  BY DEF TileClicked
<1>3. ShapeOf("list", scr')
  BY <1>1, <1>2, SettingsShape, OpenShape DEF ShapeOf
<1> QED BY <1>2, <1>3 DEF Shape

-----------------------------------------------------------------------------
(* The queue.                                                              *)

LEMMA SendKeeps ==
  ASSUME NEW q \in Seq(Queued), NEW m \in SUBSET Present, NEW k \in Buttons!Kinds
  PROVE  /\ Buttons!Send(q, m, k) \in Seq(Queued)
         /\ Len(q) <= Len(Buttons!Send(q, m, k)) /\ Len(Buttons!Send(q, m, k)) <= Len(q) + 1
         /\ \A i \in 1 .. Len(q) : Buttons!Send(q, m, k)[i] = q[i]
         /\ \A i \in 1 .. Len(Buttons!Send(q, m, k)) : i > Len(q) => Buttons!Send(q, m, k)[i].kind = k
<1>1. [mask |-> m, kind |-> k] \in Queued /\ [mask |-> m, kind |-> k].kind = k
  BY DEF Queued
<1> DEFINE e == [mask |-> m, kind |-> k]
<1> HIDE DEF e
<1>2. CASE Buttons!Send(q, m, k) = q
  BY <1>2
<1>3. CASE Buttons!Send(q, m, k) = Append(q, e)
  BY <1>1, <1>3 DEF e
<1> QED BY <1>2, <1>3 DEF Buttons!Send, e

(* A gesture sends one event, and a double click's after its click.        *)
LEMMA UserQueue ==
  ASSUME mask \subseteq Present, queue \in Seq(Queued), Buttons!User
  PROVE  /\ mask' \subseteq Present
         /\ queue' \in Seq(Queued)
         /\ \A i \in 1 .. Len(queue') : queue = <<>> /\ queue'[i].kind # "dblclick" => i = 1
<1> USE DEF Buttons!Kinds
<1>1. CASE Buttons!Press \/ Buttons!Gather
  BY <1>1 DEF Buttons!Press, Buttons!Gather, Buttons!Masks
<1>2. ASSUME NEW k \in Buttons!Kinds, mask' \subseteq Present, queue' = Buttons!Send(queue, mask, k)
      PROVE  /\ queue' \in Seq(Queued)
             /\ \A i \in 1 .. Len(queue') : queue = <<>> /\ queue'[i].kind # "dblclick" => i = 1
  BY <1>2, SendKeeps
<1>3. CASE Buttons!Click
  <2>1. mask' \subseteq Present
    BY <1>3 DEF Buttons!Click
  <2>2. CASE queue' = Buttons!Send(queue, mask, "click")
    BY <1>2, <2>1, <2>2
  <2>3. CASE queue' = Buttons!Send(Buttons!Send(queue, mask, "click"), mask, "dblclick")
    <3> DEFINE q == Buttons!Send(queue, mask, "click")
    <3>1. q \in Seq(Queued) /\ Len(q) <= Len(queue) + 1
      BY SendKeeps
    <3> HIDE DEF q
    <3>2. queue' = Buttons!Send(q, mask, "dblclick")
      BY <2>3 DEF q
    <3>3. /\ queue' \in Seq(Queued)
          /\ \A i \in 1 .. Len(queue') : i > Len(q) => queue'[i].kind = "dblclick"
      BY <3>1, <3>2, SendKeeps
    <3> QED BY <2>1, <3>1, <3>3
  <2> QED BY <1>3, <2>2, <2>3 DEF Buttons!Click
<1>4. CASE Buttons!Long \/ Buttons!Repeat \/ Buttons!Release
  BY <1>2, <1>4 DEF Buttons!Long, Buttons!Repeat, Buttons!Release
<1> QED BY <1>1, <1>3, <1>4 DEF Buttons!User

(* Taking an event leaves second clicks of double clicks only, which no    *)
(* one handles; an event that is handled finds the keypad at rest.         *)
LEMMA TakeLeaves ==
  ASSUME Waiting, Buttons!Take
  PROVE  /\ mask' \subseteq Present /\ queue' \in Seq(Queued)
         /\ \A i \in 1 .. Len(queue') : queue'[i].kind = "dblclick"
         /\ Head(queue).kind # "dblclick" => ring = <<>> /\ key = None
         /\ ~Blind(Head(queue))
<1>1. /\ queue \in Seq(Queued) /\ queue # <<>> /\ queue' = Tail(queue) /\ mask' = mask
  BY DEF Waiting, Buttons!Take
<1>2. /\ Head(queue) = queue[1] /\ 1 \in 1 .. Len(queue)
      /\ \A i \in 1 .. Len(queue') : queue'[i] = queue[i + 1] /\ i + 1 \in 1 .. Len(queue) /\ i + 1 # 1
  BY <1>1
<1> QED BY <1>1, <1>2 DEF Waiting

LEMMA DoublesWait ==
  ASSUME mask' \subseteq Present, queue' \in Seq(Queued),
         \A i \in 1 .. Len(queue') : queue'[i].kind = "dblclick"
  PROVE  Waiting'
BY DEF Waiting, Blind, IsEnter

LEMMA NobodyDoubles ==
  ASSUME NEW ev, ev.kind = "dblclick"
  PROVE  Route(ev) = "nobody"
BY DEF Route, IsHome, IsEnter, IsForce, Steps, Refreshes, KeyOf

-----------------------------------------------------------------------------
(* The steps.                                                              *)

(* Where the shell starts, at the first boot and after a reset.            *)
LEMMA StartCareful == Start => Careful
<1> SUFFICES ASSUME Start PROVE Careful
  OBVIOUS
<1>1. Booted = Bare("home")
  BY DEF Booted, Bare, Screen
<1>2. ShapeOf("home", Bare("home")) /\ ~InSettings(Bare("home"))
  BY DEF ShapeOf, Bare, Screen, InSettings
<1>3. scr = Bare("home") \/ scr \in WidgetOpened(Bare("home"), pinned[1])
  BY <1>1 DEF Start
<1>4. Shape
  BY <1>2, <1>3, OpenShape DEF Start, Shape
<1> QED BY <1>4, ShellAssumption
        DEF Start, Buttons!Init, Careful, OneKey, EnterSeen, Waiting, Keys

LEMMA StartedCareful == Start' => Careful'
BY StartCareful, PTL

LEMMA ResetStarts == Reset => Start'
BY Zenon DEF Reset, Start, Buttons!Init

LEMMA PressKeeps ==
  ASSUME Careful, Prudent, Press
  PROVE  Careful'
<1>1. UNCHANGED <<mode, scr, ring, key>> /\ Buttons!User
  BY DEF Press, keyVars
<1>2. Shape' /\ OneKey' /\ EnterSeen'
  BY <1>1 DEF Careful, Shape, OneKey, EnterSeen
<1>3. /\ mask' \subseteq Present /\ queue' \in Seq(Queued)
      /\ \A i \in 1 .. Len(queue') : queue = <<>> /\ queue'[i].kind # "dblclick" => i = 1
  BY <1>1, UserQueue DEF Careful, Waiting
<1>4. CASE queue' = queue
  BY <1>1, <1>2, <1>3, <1>4 DEF Careful, Waiting, Blind, Refreshes
<1>5. CASE queue' # queue
  <2>1. queue = <<>> /\ ring = <<>> /\ key = None
    BY <1>5 DEF Press, Prudent, Quiet
  <2>2. \A i \in 1 .. Len(queue') : ~Blind(queue'[i])
    BY <2>1 DEF Press, Prudent
  <2> QED BY <1>1, <1>2, <1>3, <2>1, <2>2 DEF Careful, Waiting, Blind, Refreshes
<1> QED BY <1>4, <1>5

(* The events that lead Home.                                              *)
LEMMA HomeKeeps ==
  ASSUME Careful, NEW ev, ev.kind # "dblclick" => ring = <<>> /\ key = None,
         Route(ev) \in {"home", "force"}, Dispatch(ev)
  PROVE  mode' = "home" /\ Shape' /\ OneKey' /\ EnterSeen'
<1>1. ring = <<>> /\ key = None
  BY NobodyDoubles
<1>2. mode' = "home" /\ Shape' /\ UNCHANGED keyVars
  <2>1. Leave \/ GoHome
    BY DEF Dispatch
  <2>2. CASE Leave
    BY <2>2, LeaveShape DEF Careful
  <2>3. CASE GoHome /\ ~Leave
    BY <2>3 DEF GoHome, Careful, Shape
  <2> QED BY <2>1, <2>2, <2>3
<1>3. OneKey' /\ EnterSeen'
  BY <1>1, <1>2, ShellAssumption DEF Careful, OneKey, EnterSeen, keyVars, Keys
<1> QED BY <1>2, <1>3

LEMMA DispatchKeeps ==
  ASSUME Careful, NEW ev, ev.kind # "dblclick" => ring = <<>> /\ key = None,
         ~Blind(ev), Dispatch(ev)
  PROVE  Shape' /\ OneKey' /\ EnterSeen'
<1>1. CASE Route(ev) \in {"home", "force"}
  BY <1>1, HomeKeeps
<1>2. CASE Route(ev) \in {"list", "step"}
  <2>1. ring = <<>> /\ key = None
    BY <1>2, NobodyDoubles
  <2>2. Shape' /\ UNCHANGED keyVars
    <3>1. mode = "home"
      BY <1>2 DEF Route
    <3>2. ShowFullList \/ \E d : HomeStep(d)
      BY <1>2 DEF Dispatch
    <3> QED BY <3>1, <3>2, FullListShape, HomeStepShape DEF Careful
  <2> QED BY <2>1, <2>2, ShellAssumption DEF Careful, OneKey, EnterSeen, keyVars, Keys
<1>3. CASE Route(ev) = "key"
  <2>1. ring = <<>> /\ key = None
    BY <1>3, NobodyDoubles
  <2>2. UNCHANGED <<mode, scr, key>> /\ (ring' = ring \/ ring' = Append(ring, KeyOf(ev)))
    BY <1>3 DEF Dispatch, KeyPush
  <2>3. KeyOf(ev) \in Keys
    BY <1>3 DEF Route, KeyOf, Keys
  <2>4. KeyOf(ev) = "ENTER" => mode = "list" /\ ~InWidget(scr)
    <3>1. KeyOf(ev) = "ENTER" => IsEnter(ev)
      BY <1>3 DEF Route, KeyOf
    <3>2. ~Refreshes(ev) /\ (IsEnter(ev) => mode # "home" \/ InSettings(scr))
      BY <1>3 DEF Route
    <3>3. /\ InSettings(scr) => mode = "list" /\ scr.active = "settings"
          /\ InWidget(scr) => scr.active = "widget"
          /\ mode \in {"home", "list"}
      BY ShapeFacts DEF Careful, Shape
    <3> QED BY <3>1, <3>2, <3>3 DEF Blind
  <2>5. OneKey'
    <3>1. ring' = <<>> \/ ring' = <<KeyOf(ev)>>
      BY <2>1, <2>2
    <3>2. ring' \in Seq(Keys)
      BY <2>2, <2>3 DEF Careful, OneKey
    <3>3. ring' = <<>> \/ Len(ring') = 1
      BY <3>1
    <3> QED BY <2>1, <2>2, <3>2, <3>3 DEF OneKey
  <2>6. EnterSeen'
    BY <2>1, <2>2, <2>3, <2>4, ShellAssumption DEF EnterSeen, Keys
  <2>7. Shape'
    BY <2>2 DEF Careful, Shape
  <2> QED BY <2>5, <2>6, <2>7
<1>4. CASE Route(ev) \in {"brightness", "refresh", "nobody"}
  BY <1>4 DEF Dispatch, Careful, Shape, OneKey, EnterSeen, keyVars
<1> QED BY <1>1, <1>2, <1>3, <1>4 DEF Dispatch

LEMMA TickKeeps ==
  ASSUME Careful, Tick
  PROVE  Careful'
<1>1. Dispatch(Head(queue)) /\ Buttons!Take /\ Waiting
  BY DEF Tick, Careful
<1>2. Waiting'
  BY <1>1, TakeLeaves, DoublesWait
<1>3. Shape' /\ OneKey' /\ EnterSeen'
  BY <1>1, TakeLeaves, DispatchKeeps
<1> QED BY <1>2, <1>3 DEF Careful

LEMMA KeyPressedKeeps ==
  ASSUME Careful, KeyPressed
  PROVE  Careful'
<1>1. /\ key = None /\ ring # <<>> /\ Len(ring) = 1 /\ ring \in Seq(Keys)
      /\ key' = Head(ring) /\ ring' = <<>>
  BY DEF KeyPressed, Careful, OneKey
<1>2. UNCHANGED <<mode, scr, queue, mask>>
  BY DEF KeyPressed, inputVars
<1>3. Shape' /\ OneKey' /\ EnterSeen'
  BY <1>1, <1>2 DEF Careful, Shape, OneKey, EnterSeen
<1>4. Waiting'
  BY <1>1, <1>2 DEF Careful, Waiting, Blind, IsEnter
<1> QED BY <1>3, <1>4 DEF Careful

LEMMA KeyReleasedKeeps ==
  ASSUME Careful, KeyReleased
  PROVE  Careful'
<1>1. key # None /\ key' = None /\ ring = <<>> /\ UNCHANGED <<queue, mask, ring>>
  BY DEF KeyReleased, inputVars, Careful, OneKey
<1>2. OneKey' /\ EnterSeen'
  BY <1>1, ShellAssumption DEF Careful, OneKey, EnterSeen, Keys
<1>3. Waiting'
  BY <1>1 DEF Careful, Waiting, Blind, IsEnter
<1>4. Shape'
  <2>1. CASE key = "ENTER" /\ ~InSettings(scr) /\ TileClicked(focus)
    <3>1. mode = "list" /\ ~InWidget(scr)
      BY <2>1 DEF Careful, EnterSeen
    <3>2. scr = Bare("list")
      BY <2>1, <3>1, ShapeFacts DEF Careful, Shape
    <3> QED BY <2>1, <3>1, <3>2, TileShape DEF Careful
  <2>2. CASE UNCHANGED <<mode, scr>>
    BY <2>2 DEF Careful, Shape
  <2> QED BY <2>1, <2>2 DEF KeyReleased, RowClicked
<1> QED BY <1>2, <1>3, <1>4 DEF Careful

LEMMA TouchKeeps ==
  ASSUME Careful, Prudent, Touch
  PROVE  Careful'
<1>1. queue = <<>> /\ ring = <<>> /\ key = None /\ UNCHANGED <<mask, queue, ring, key>>
  BY DEF Touch, Prudent, Quiet, inputVars, keyVars
<1>2. OneKey' /\ EnterSeen' /\ Waiting'
  BY <1>1, ShellAssumption DEF Careful, OneKey, EnterSeen, Waiting, Keys
<1>3. Shape'
  <2>1. ASSUME NEW i \in Tiles, scr.active = "list", TileClicked(i)
        PROVE  Shape'
    <3>1. scr = Bare("list") /\ mode = "list"
      BY <2>1, ShapeFacts DEF Careful, Shape
    <3> QED BY <2>1, <3>1, TileShape DEF Careful
  <2>2. CASE RowClicked
    BY <2>2 DEF RowClicked, Careful, Shape
  <2> QED BY <2>1, <2>2 DEF Touch
<1> QED BY <1>2, <1>3 DEF Careful

LEMMA ShowcaseKeeps ==
  ASSUME Careful, Showcase
  PROVE  Careful'
<1>1. UNCHANGED <<mask, queue>> /\ mode = "home" /\ HomeStep(1)
  BY DEF Showcase, inputVars
<1>2. Shape' /\ UNCHANGED <<mode, ring, key>>
  BY <1>1, HomeStepShape DEF Careful, keyVars
<1>3. OneKey' /\ EnterSeen'
  BY <1>1, <1>2 DEF Careful, OneKey, EnterSeen
<1>4. Waiting'
  BY <1>1, <1>2 DEF Careful, Waiting, Blind
<1> QED BY <1>2, <1>3, <1>4 DEF Careful

(* Rescans and the ends of jobs come and go under the same screens.        *)
LEMMA StillCareful ==
  ASSUME Careful, UNCHANGED <<mode, scr, keyVars, mask, queue>>
  PROVE  Careful'
BY DEF keyVars, Careful, Shape, OneKey, EnterSeen, Waiting, Blind, Refreshes

LEMMA NextCareful ==
  ASSUME Careful, Prudent, [Next]_vars
  PROVE  Careful'
<1>1. CASE Reset
  BY <1>1, ResetStarts, StartedCareful
<1>2. CASE RescanDo \/ InstallEnds \/ FetchEnds \/ UNCHANGED vars
  BY <1>2, StillCareful DEF RescanDo, InstallEnds, FetchEnds, vars, inputVars
<1> QED BY <1>1, <1>2, PressKeeps, TickKeeps, ShowcaseKeeps, KeyPressedKeeps, KeyReleasedKeeps, TouchKeeps
        DEF Next

-----------------------------------------------------------------------------
(* From shell_start() on the screens keep their shapes, for a user who     *)
(* waits and looks.                                                        *)
THEOREM Invariance == ASSUME Prudent PROVE Spec => []Careful
<1>1. Init => Careful
  BY StartCareful DEF Init
<1>2. Careful /\ [Next]_vars => Careful'
  BY NextCareful
<1> QED BY <1>1, <1>2, PTL DEF Spec

(* What is shown is the newest of what is open: show_home(),               *)
(* show_full_list(), widget_open(), widget_close() and settings_close()    *)
(* never leave something closed on the display, hide something open or     *)
(* keep a pointer to a deleted screen.                                     *)
THEOREM NewestShown == ASSUME Prudent PROVE Spec => []ScreenShown
<1>1. Careful => ScreenShown
  BY ShapeFacts DEF Careful, Shape, ScreenShown
<1> QED BY <1>1, Invariance, PTL

(* B1 held (or the escape hatch) ends at Home, go_home() having closed     *)
(* what was open without loading a deleted screen. (The one other step     *)
(* that may empty the queue, a reset, ends there as well.)                 *)
THEOREM AlwaysHome == ASSUME Prudent PROVE Spec => HomeReached
<1>1. ASSUME Careful, [Next]_vars, Escapes
      PROVE  AtHome'
  <2>1. queue # <<>> /\ queue \in Seq(Queued) /\ queue' = Tail(queue)
    BY <1>1 DEF Escapes, Careful, Waiting
  <2>2. queue' # queue
    BY <2>1
  <2>3. Tick \/ Reset
    <3>1. Next
      BY <1>1, <2>2 DEF vars
    <3>2. ~Press
      BY <2>1, <2>2 DEF Press, Prudent, Quiet
    <3> QED BY <3>1, <3>2, <2>2 DEF Next, Showcase, KeyPressed, KeyReleased, Touch, RescanDo, InstallEnds, FetchEnds
  <2>4. Route(Head(queue)) \in {"home", "force"}
    BY <1>1 DEF Escapes, Route, IsHome, IsForce, IsEnter
  <2>5. mode' = "home" /\ Shape'
    <3>1. CASE Tick
      <4>1. Dispatch(Head(queue)) /\ Buttons!Take
        BY <3>1 DEF Tick
      <4> QED BY <1>1, <2>4, <4>1, TakeLeaves, HomeKeeps DEF Careful
    <3>2. CASE Reset
      BY <3>2, ResetStarts, StartedCareful DEF Reset, Careful
    <3> QED BY <2>3, <3>1, <3>2
  <2> QED BY <2>5, ShapeFacts DEF Shape, AtHome
<1>2. Careful /\ [Next]_vars => [Escapes => AtHome']_vars
  BY <1>1
<1> QED BY <1>2, Invariance, PTL DEF Spec, HomeReached

-----------------------------------------------------------------------------
(* Home's pins.                                                            *)

Carded == apps \in Registries /\ pins \in Seq(Ids)

(* The apps Home steps through are at the slots where settings_pinned_apps *)
(* found the pinned ids.                                                   *)
LEMMA PinnedFacts ==
  ASSUME Carded
  PROVE  /\ apps \in Seq(Ids) /\ Len(Found) \in Nat /\ Len(Found) <= Len(pins)
         /\ PinnedApps \in Seq(Nat \ {0}) /\ Len(PinnedApps) = Len(Found)
         /\ \A k \in 1 .. Len(Found) : /\ PinnedApps[k] \in 1 .. Len(apps)
                                       /\ apps[PinnedApps[k]] = Found[k]
<1> DEFINE There == {apps[i] : i \in 1 .. Len(apps)}
<1>1. apps \in Seq(Ids)
  BY ShellAssumption DEF Carded
<1>2. Found \in Seq(Ids \cap There) /\ Len(Found) <= Len(pins)
  BY PickedFrom DEF Carded, Found
<1>3. Len(Found) \in Nat
  BY <1>2
<1>4. ASSUME NEW k \in 1 .. Len(Found)
      PROVE  SlotOf(Found[k]) \in 1 .. Len(apps) /\ apps[SlotOf(Found[k])] = Found[k]
  <2>1. Found[k] \in There
    BY <1>2
  <2>2. PICK i \in 1 .. Len(apps) : apps[i] = Found[k]
    BY <2>1
  <2>3. \E j \in 1 .. Len(apps) :
          apps[j] = Found[k] /\ \A l \in 1 .. j - 1 : apps[l] # Found[k]
    BY <1>1, <2>2, FirstPlace
  <2> QED BY <2>3, Zenon DEF SlotOf
<1>5. PinnedApps = [k \in 1 .. Len(Found) |-> SlotOf(Found[k])]
  BY DEF PinnedApps
<1>6. \A k \in 1 .. Len(Found) : SlotOf(Found[k]) \in Nat \ {0}
  BY <1>1, <1>4
<1>7. PinnedApps \in [1 .. Len(Found) -> Nat \ {0}]
  BY <1>5, <1>6
<1>8. PinnedApps \in Seq(Nat \ {0}) /\ Len(PinnedApps) = Len(Found)
  BY <1>3, <1>7
<1>9. \A k \in 1 .. Len(Found) : PinnedApps[k] = SlotOf(Found[k])
  BY <1>5
<1> QED BY <1>1, <1>2, <1>3, <1>4, <1>8, <1>9

LEMMA CardsAlone == UNCHANGED <<apps, pins>> => UNCHANGED <<Found, PinnedApps>>
<1>1. UNCHANGED <<apps, pins>> => UNCHANGED Found
  BY DEF Found
<1>2. UNCHANGED <<apps, pins>> => UNCHANGED PinnedApps
  BY DEF PinnedApps, SlotOf, Found
<1> QED BY <1>1, <1>2

(* Between two visits to Settings the pins are those Home read, its index  *)
(* is one of them, and what is open over Home is the app at that index,    *)
(* but for a late rescan, which only a reset follows.                      *)
HomeRead ==
  /\ mode = "home" /\ rescan # "late" => pinned = PinnedApps
  /\ mode = "home" /\ pinned # <<>> => pinnedIdx < Len(pinned)
OnSlot ==
  InWidget(scr) =>
    /\ scr.widget \in Nat /\ scr.opened \in Ids
    /\ rescan # "late" => scr.widget \in 1 .. Len(apps) /\ apps[scr.widget] = scr.opened
PinsKept ==
  /\ pins \in Seq(Ids) /\ Len(pins) <= MaxPins
  /\ \A i, j \in 1 .. Len(pins) : pins[i] = pins[j] => i = j
PinsTyped ==
  /\ Carded /\ Len(pins) <= MaxPins
  /\ \A i, j \in 1 .. Len(pins) : pins[i] = pins[j] => i = j
  /\ pinned \in Seq(Nat \ {0}) /\ pinnedIdx \in Nat
HomeInv == PinsTyped /\ HomeRead /\ HomeShowsPin /\ OnSlot

(* What widget_open() leaves open, if it leaves anything open.             *)
LEMMA OpenedIs ==
  ASSUME NEW m \in {"home", "list"}, NEW r, ShapeOf(m, r), ~InSettings(r),
         NEW slot, NEW s \in WidgetOpened(r, slot), InWidget(s)
  PROVE  s.widget = slot /\ s.opened = apps[slot]
<1>1. WidgetClosed(r) = Bare(m) /\ Bare(m).active = m
  BY WidgetCloseShape DEF Bare, Screen
<1>2. WidgetIs(Bare(m), slot, apps[slot], m) = Screen(m, slot, apps[slot], m, "none", "sound")
  BY WidgetScreen DEF Bare
<1>3. Load(WidgetIs(Bare(m), slot, apps[slot], m), "widget") = Under(m, slot, apps[slot])
  BY <1>2, LoadScreen DEF Under
<1>4. s = Bare(m) \/ s = Under(m, slot, apps[slot])
  BY <1>1, <1>3, Zenon DEF WidgetOpened
<1>5. ~InWidget(Bare(m))
  BY DEF Bare, Screen, InWidget
<1> QED BY <1>4, <1>5 DEF Under, Screen

LEMMA NotOpen == \A m : ~InWidget(Bare(m)) /\ ~InWidget(Settings)
BY DEF Bare, Settings, Screen, InWidget

(* An index into an array of C is one less than a place in a sequence.     *)
LEMMA IndexPlace == \A i, n \in Nat : i < n => i + 1 \in 1 .. n
OBVIOUS

(* Home opens the app at the index, by its slot.                           *)
LEMMA HomeOpens ==
  ASSUME Carded, mode' = "home", UNCHANGED <<apps, pins>>, NEW r, ShapeOf("home", r), ~InSettings(r),
         pinned' = PinnedApps, pinnedIdx' \in Nat, pinnedIdx' < Len(pinned'),
         scr' \in WidgetOpened(r, pinned'[pinnedIdx' + 1])
  PROVE  HomeRead' /\ HomeShowsPin' /\ OnSlot'
<1>1. UNCHANGED <<Found, PinnedApps>>
  BY CardsAlone
<1>2. HomeRead'
  BY <1>1 DEF HomeRead
<1>3. /\ pinnedIdx' < Len(Found) /\ pinned'[pinnedIdx' + 1] \in 1 .. Len(apps)
      /\ apps[pinned'[pinnedIdx' + 1]] = Found[pinnedIdx' + 1]
  <2>1. Len(pinned') = Len(Found) /\ Len(Found) \in Nat
    BY PinnedFacts
  <2>3. pinnedIdx' < Len(Found)
    BY <2>1, Zenon
  <2>4. pinnedIdx' + 1 \in 1 .. Len(Found)
    BY <2>1, <2>3, IndexPlace, Zenon
  <2> QED BY <2>3, <2>4, PinnedFacts, Zenon
<1>4. InWidget(scr') => scr'.widget = pinned'[pinnedIdx' + 1] /\ scr'.opened = Found[pinnedIdx' + 1]
  BY <1>3, OpenedIs
<1>5. HomeShowsPin'
  BY <1>1, <1>3, <1>4 DEF HomeShowsPin, InWidget
<1>6. pinned'[pinnedIdx' + 1] \in Nat /\ Found[pinnedIdx' + 1] \in Ids
  <2>1. apps \in Seq(Ids) /\ Len(apps) \in Nat
    BY PinnedFacts
  <2>2. \A i \in 1 .. Len(apps) : i \in Nat /\ apps[i] \in Ids
    BY <2>1
  <2> QED BY <1>3, <2>2, Zenon
<1>7. OnSlot'
  BY <1>3, <1>4, <1>6 DEF OnSlot, InWidget
<1> QED BY <1>2, <1>5, <1>7

LEMMA LeavePins ==
  ASSUME Shape, HomeInv, Leave
  PROVE  HomeInv'
<1>1. SettingsClosed(WidgetClosed(scr)) = Bare(mode) /\ mode \in {"home", "list"}
  BY CloseShapes DEF Shape
<1>2. Load(Bare(mode), "home") = Bare("home")
  BY LoadBare
<1>3. /\ mode' = "home" /\ pinned' = PinnedApps /\ UNCHANGED <<apps, pins>>
      /\ pinnedIdx' = IF pinnedIdx >= Len(pinned') THEN 0 ELSE pinnedIdx
      /\ scr' \in IF pinned' = <<>> THEN {Bare("home")}
                  ELSE WidgetOpened(Bare("home"), pinned'[pinnedIdx' + 1])
  BY <1>1, <1>2, Zenon DEF Leave, ShowHome, settingsVars
<1>4. PinsTyped'
  BY <1>3, PinnedFacts DEF HomeInv, PinsTyped, Carded
<1>5. CASE pinned' = <<>>
  <2>1. scr' = Bare("home")
    BY <1>3, <1>5
  <2>2. ~InWidget(scr)'
    BY <2>1, NotOpen DEF InWidget
  <2>3. PinnedApps' = PinnedApps
    BY <1>3, CardsAlone
  <2> QED BY <1>3, <1>4, <1>5, <2>2, <2>3 DEF HomeInv, HomeRead, HomeShowsPin, OnSlot
<1>6. CASE pinned' # <<>>
  <2>1. Len(pinned') \in Nat \ {0}
    BY <1>4, <1>6 DEF PinsTyped
  <2>2. pinnedIdx' \in Nat /\ pinnedIdx' < Len(pinned')
    BY <1>3, <2>1 DEF HomeInv, PinsTyped
  <2>3. ShapeOf("home", Bare("home")) /\ ~InSettings(Bare("home"))
    BY DEF ShapeOf, Bare, Screen, InSettings
  <2> QED BY <1>3, <1>4, <1>6, <2>2, <2>3, HomeOpens DEF HomeInv, PinsTyped
<1> QED BY <1>5, <1>6

LEMMA HomeStepPins ==
  ASSUME Shape, HomeInv, rescan # "late", mode = "home",
         NEW d, pinned # <<>> => d \in Nat, HomeStep(d)
  PROVE  HomeInv'
<1>1. mode' = "home" /\ pinned' = pinned /\ pinned = PinnedApps /\ UNCHANGED <<apps, pins, rescan>>
  BY DEF HomeStep, settingsVars, HomeInv, HomeRead
<1>2. UNCHANGED <<Found, PinnedApps>>
  BY <1>1, CardsAlone
<1>3. CASE pinned = <<>>
  <2>1. UNCHANGED <<scr, pinnedIdx>>
    BY <1>3 DEF HomeStep
  <2> QED BY <1>1, <1>2, <2>1 DEF HomeInv, PinsTyped, Carded, HomeRead, HomeShowsPin, OnSlot, InWidget
<1>4. CASE pinned # <<>>
  <2>1. Len(pinned) \in Nat \ {0} /\ pinnedIdx \in Nat
    BY <1>4 DEF HomeInv, PinsTyped
  <2>2. pinnedIdx' = (pinnedIdx + d) % Len(pinned) /\ scr' \in WidgetOpened(scr, pinned[pinnedIdx' + 1])
    BY <1>4 DEF HomeStep
  <2>3. pinnedIdx' \in Nat /\ pinnedIdx' < Len(pinned)
    BY <1>4, <2>1, <2>2
  <2>4. ShapeOf("home", scr) /\ ~InSettings(scr)
    BY ShapeFacts DEF Shape
  <2>5. HomeRead' /\ HomeShowsPin' /\ OnSlot'
    BY <1>1, <2>2, <2>3, <2>4, HomeOpens DEF HomeInv, PinsTyped
  <2>6. PinsTyped'
    BY <1>1, <2>3 DEF HomeInv, PinsTyped, Carded
  <2> QED BY <2>5, <2>6 DEF HomeInv
<1> QED BY <1>3, <1>4

LEMMA FullListPins ==
  ASSUME Shape, HomeInv, mode = "home", ShowFullList
  PROVE  HomeInv'
<1>1. WidgetClosed(scr) = Bare("home")
  BY ShapeFacts, WidgetCloseShape DEF Shape
<1>2. scr' = Bare("list") /\ mode' = "list" /\ UNCHANGED <<apps, pins, pinned, pinnedIdx>>
  BY <1>1, LoadBare DEF ShowFullList, homeVars, settingsVars
<1>3. ~InWidget(scr)'
  BY <1>2, NotOpen DEF InWidget
<1> QED BY <1>2, <1>3 DEF HomeInv, PinsTyped, Carded, HomeRead, HomeShowsPin, OnSlot

LEMMA TilePins ==
  ASSUME HomeInv, scr = Bare("list"), mode = "list", NEW i \in Tiles, TileClicked(i)
  PROVE  HomeInv'
<1>1. ShapeOf("list", scr) /\ ~InSettings(scr)
  BY DEF ShapeOf, Bare, Screen, InSettings
<1>2. UNCHANGED <<mode, apps, pins, pinned, pinnedIdx>>
  BY DEF TileClicked, homeVars, settingsVars
<1>3. OnSlot'
  <2>1. CASE scr' = Settings \/ scr' = scr
    BY <2>1, NotOpen DEF OnSlot, InWidget
  <2>2. CASE scr' \in WidgetOpened(scr, i) /\ i # Len(apps) + 1
    <3>1. i \in 1 .. Len(apps) /\ i \in Nat /\ apps[i] \in Ids
      BY <2>2, PinnedFacts DEF Tiles, HomeInv, PinsTyped
    <3>2. InWidget(scr') => scr'.widget = i /\ scr'.opened = apps[i]
      BY <1>1, <2>2, OpenedIs
    <3> QED BY <1>2, <3>1, <3>2 DEF OnSlot, InWidget
  <2>3. scr' = SettingsOpened(scr) \/ scr' = scr \/ (scr' \in WidgetOpened(scr, i) /\ i # Len(apps) + 1)
    BY Zenon DEF TileClicked
  <2> QED BY <2>1, <2>2, <2>3, SettingsShape
<1> QED BY <1>2, <1>3 DEF HomeInv, PinsTyped, Carded, HomeRead, HomeShowsPin

(* A row of Settings is clicked while nothing is open below it that reads  *)
(* the pins or the registry.                                               *)
LEMMA ToggleKeeps ==
  ASSUME PinsTyped, NEW id \in Ids, pins' = PinToggled(id)
  PROVE  /\ pins' \in Seq(Ids) /\ Len(pins') <= MaxPins
         /\ \A i, j \in 1 .. Len(pins') : pins'[i] = pins'[j] => i = j
<1>1. pins \in Seq(Ids) /\ Len(pins) <= MaxPins /\ MaxPins \in Nat
  BY ShellAssumption DEF PinsTyped, Carded
<1>2. \A i, j \in 1 .. Len(pins) : pins[i] = pins[j] => i = j
  BY DEF PinsTyped
<1>3. CASE pins' = Without(pins, id)
  <2> DEFINE s == Picked(pins, Ids \ {id})
  <2>1. s \in Seq(Ids \cap (Ids \ {id})) /\ Len(s) <= Len(pins)
        /\ \A i, j \in 1 .. Len(s) : s[i] = s[j] => i = j
    BY <1>1, <1>2, PickedFrom
  <2>2. pins' = s
    BY <1>3 DEF Without
  <2> HIDE DEF s
  <2>3. s \in Seq(Ids)
    BY <2>1
  <2>4. Len(s) <= MaxPins
    BY <1>1, <2>1, <2>3
  <2> QED BY <2>1, <2>2, <2>3, <2>4
<1>4. CASE /\ pins' = Append(pins, id) /\ Len(pins) < MaxPins
           /\ \A i \in 1 .. Len(pins) : pins[i] # id
  BY <1>1, <1>2, <1>4
<1>5. CASE pins' = pins
  BY <1>1, <1>2, <1>5
<1> QED BY <1>3, <1>4, <1>5, Zenon DEF PinToggled

LEMMA UnderSettings ==
  ASSUME HomeInv, scr = Settings, mode = "list", UNCHANGED <<mode, scr, homeVars>>,
         apps' \in Registries, PinsKept'
  PROVE  HomeInv'
<1>1. OnSlot' /\ HomeShowsPin' /\ HomeRead'
  BY NotOpen DEF OnSlot, HomeShowsPin, HomeRead, InWidget
<1>2. PinsTyped'
  BY DEF HomeInv, PinsTyped, PinsKept, Carded, homeVars
<1> QED BY <1>1, <1>2 DEF HomeInv

LEMMA RowPins ==
  ASSUME HomeInv, scr = Settings, mode = "list", RowClicked
  PROVE  HomeInv'
<1>1. UNCHANGED <<mode, scr, homeVars>>
  BY DEF RowClicked
<1>2. apps \in Registries /\ PinsKept
  BY DEF HomeInv, PinsTyped, PinsKept, Carded
<1>3. ASSUME NEW i \in 1 .. Len(apps), pins' = PinToggled(apps[i]), apps' = apps
      PROVE  HomeInv'
  <2>1. apps[i] \in Ids
    BY <1>3, PinnedFacts DEF HomeInv, PinsTyped
  <2>2. PinsKept'
    BY <1>3, <2>1, ToggleKeeps DEF HomeInv, PinsKept
  <2> QED BY <1>1, <1>2, <1>3, <2>2, UnderSettings
<1>4. CASE apps' \in Registries /\ pins' = pins
  BY <1>1, <1>2, <1>4, UnderSettings DEF PinsKept
<1>5. CASE PinSwitched
  BY <1>3, <1>5 DEF PinSwitched
<1>6. CASE ShowcaseSwitched \/ SliderClicked \/ DeleteConfirmed \/ RescanClicked
  BY <1>2, <1>4, <1>6
     DEF ShowcaseSwitched, SliderClicked, DeleteConfirmed, ViewScanned, Scanned, RescanClicked
<1> QED BY <1>5, <1>6 DEF RowClicked

(* A rescan or the end of an install scans under Settings; a rescan that   *)
(* comes late does it under anything.                                      *)
LEMMA ScanPins ==
  ASSUME Careful, HomeInv, RescanDo \/ InstallEnds
  PROVE  HomeInv'
<1>1. UNCHANGED <<mode, scr, homeVars>> /\ Scanned
  BY DEF RescanDo, InstallEnds, ViewScanned
<1>2. apps' \in Registries /\ pins' = pins /\ PinsKept /\ PinsKept'
  BY <1>1 DEF Scanned, HomeInv, PinsTyped, PinsKept, Carded
<1>3. CASE InSettings(scr)
  <2>1. scr = Settings /\ mode = "list"
    BY <1>3, ShapeFacts DEF Careful, Shape
  <2> QED BY <1>1, <1>2, <2>1, UnderSettings
<1>4. CASE rescan' = "late"
  <2>1. OnSlot' /\ HomeShowsPin' /\ HomeRead'
    BY <1>1, <1>4 DEF OnSlot, HomeShowsPin, HomeRead, HomeInv, InWidget, homeVars
  <2>2. PinsTyped'
    BY <1>1, <1>2 DEF HomeInv, PinsTyped, PinsKept, Carded, homeVars
  <2> QED BY <2>1, <2>2 DEF HomeInv
<1> QED BY <1>3, <1>4 DEF RescanDo, InstallEnds

(* At the start Home opens the first pin found.                            *)
LEMMA StartHome == PinsKept /\ Start => HomeInv
<1> SUFFICES ASSUME PinsKept, Start PROVE HomeInv
  OBVIOUS
<1>1. Carded /\ mode = "home" /\ pinned = PinnedApps /\ pinnedIdx = 0
  BY DEF PinsKept, Start, Carded
<1>2. PinsTyped
  BY <1>1, PinnedFacts DEF PinsKept, PinsTyped
<1>3. Booted = Bare("home")
  BY DEF Booted, Bare, Screen
<1>4. CASE pinned = <<>>
  <2>1. ~InWidget(scr)
    BY <1>3, <1>4, NotOpen DEF Start
  <2> QED BY <1>1, <1>2, <1>4, <2>1 DEF HomeInv, HomeRead, HomeShowsPin, OnSlot
<1>5. CASE pinned # <<>>
  <2>1. Len(pinned) \in Nat \ {0} /\ Len(pinned) = Len(Found)
    BY <1>1, <1>2, <1>5, PinnedFacts DEF PinsTyped
  <2>2. 1 \in 1 .. Len(Found)
    BY <2>1
  <2>3. pinned[1] \in 1 .. Len(apps) /\ apps[pinned[1]] = Found[1]
    BY <1>1, <2>2, PinnedFacts, Zenon
  <2>4. pinned[1] \in Nat /\ apps[pinned[1]] \in Ids
    BY <1>1, <2>3, PinnedFacts
  <2>5. ShapeOf("home", Bare("home")) /\ ~InSettings(Bare("home"))
    BY DEF ShapeOf, Bare, Screen, InSettings
  <2>6. InWidget(scr) => scr.widget = pinned[1] /\ scr.opened = apps[pinned[1]]
    BY <1>3, <1>5, <2>5, OpenedIs DEF Start
  <2>7. HomeRead
    BY <1>1, <2>1 DEF HomeRead
  <2>8. HomeShowsPin
    BY <1>1, <2>1, <2>3, <2>6 DEF HomeShowsPin
  <2>9. OnSlot
    BY <2>3, <2>4, <2>6 DEF OnSlot
  <2> QED BY <1>2, <2>7, <2>8, <2>9 DEF HomeInv
<1> QED BY <1>4, <1>5

LEMMA StartedHome == (PinsKept /\ Start)' => HomeInv'
BY StartHome, PTL

LEMMA ResetPins ==
  ASSUME HomeInv, Reset
  PROVE  HomeInv'
<1>1. PinsKept'
  BY DEF HomeInv, PinsTyped, PinsKept, Carded, Reset
<1> QED BY <1>1, ResetStarts, StartedHome

LEMMA PinsAlone ==
  HomeInv /\ UNCHANGED <<mode, scr, apps, pins, pinned, pinnedIdx, rescan>> => HomeInv'
<1> SUFFICES ASSUME HomeInv, UNCHANGED <<mode, scr, apps, pins, pinned, pinnedIdx, rescan>> PROVE HomeInv'
  OBVIOUS
<1>1. UNCHANGED <<Found, PinnedApps>>
  BY CardsAlone
<1> QED BY <1>1 DEF HomeInv, PinsTyped, Carded, HomeRead, HomeShowsPin, OnSlot, InWidget

LEMMA TickPins ==
  ASSUME Careful, HomeInv, rescan # "late", Tick
  PROVE  HomeInv'
<1> DEFINE ev == Head(queue)
<1>1. Dispatch(ev)
  BY DEF Tick
<1> HIDE DEF ev
<1>2. CASE Leave
  BY <1>2, LeavePins DEF Careful
<1>3. CASE GoHome /\ ~Leave
  BY <1>3, PinsAlone DEF GoHome, homeVars, settingsVars
<1>4. CASE Route(ev) = "list" /\ ShowFullList
  BY <1>4, FullListPins DEF Route, Careful
<1>5. CASE Route(ev) = "step" /\ HomeStep(IF ev.mask = {B1} THEN Len(pinned) - 1 ELSE 1)
  <2>1. mode = "home"
    BY <1>5 DEF Route
  <2>2. pinned # <<>> => (IF ev.mask = {B1} THEN Len(pinned) - 1 ELSE 1) \in Nat
    BY DEF HomeInv, PinsTyped
  <2> QED BY <1>5, <2>1, <2>2, HomeStepPins DEF Careful
<1>6. CASE KeyPush(KeyOf(ev))
  BY <1>6, PinsAlone DEF KeyPush, homeVars, settingsVars
<1>7. CASE UNCHANGED <<mode, editing, scr, focus, keyVars, homeVars, settingsVars>>
  BY <1>7, PinsAlone DEF homeVars, settingsVars
<1> QED BY <1>1, <1>2, <1>3, <1>4, <1>5, <1>6, <1>7 DEF Dispatch

LEMMA KeyReleasedPins ==
  ASSUME Careful, HomeInv, focus \in Tiles, KeyReleased
  PROVE  HomeInv'
<1>1. CASE key = "ENTER" /\ InSettings(scr) /\ RowClicked
  <2>1. scr = Settings /\ mode = "list"
    BY <1>1, ShapeFacts DEF Careful, Shape
  <2> QED BY <1>1, <2>1, RowPins
<1>2. CASE key = "ENTER" /\ ~InSettings(scr) /\ TileClicked(focus)
  <2>1. mode = "list" /\ ~InWidget(scr)
    BY <1>2 DEF Careful, EnterSeen
  <2>2. scr = Bare("list")
    BY <1>2, <2>1, ShapeFacts DEF Careful, Shape
  <2> QED BY <1>2, <2>1, <2>2, TilePins
<1>3. CASE UNCHANGED <<mode, editing, scr, focus, homeVars, settingsVars>>
  BY <1>3, PinsAlone DEF homeVars, settingsVars
<1> QED BY <1>1, <1>2, <1>3 DEF KeyReleased

LEMMA TouchPins ==
  ASSUME Careful, HomeInv, Touch
  PROVE  HomeInv'
<1>1. ASSUME NEW i \in Tiles, scr.active = "list", TileClicked(i)
      PROVE  HomeInv'
  <2>1. scr = Bare("list") /\ mode = "list"
    BY <1>1, ShapeFacts DEF Careful, Shape
  <2> QED BY <1>1, <2>1, TilePins
<1>2. CASE scr.active = "settings" /\ RowClicked
  <2>1. InSettings(scr)
    BY <1>2, ShapeFacts DEF Careful, Shape
  <2>2. scr = Settings /\ mode = "list"
    BY <2>1, ShapeFacts DEF Careful, Shape
  <2> QED BY <1>2, <2>2, RowPins
<1> QED BY <1>1, <1>2 DEF Touch

-----------------------------------------------------------------------------
(* Types.                                                                  *)

(* A gesture keeps the input's side; one that is under way has buttons.    *)
ButtonsTyped == Buttons!TypeOK /\ (gesture # "none" => mask # {})

LEMMA SendTyped ==
  ASSUME NEW q \in Seq(Buttons!Events), Len(q) <= QueueLen,
         NEW m \in Buttons!Masks, NEW k \in Buttons!Kinds
  PROVE  Buttons!Send(q, m, k) \in Seq(Buttons!Events) /\ Len(Buttons!Send(q, m, k)) <= QueueLen
<1>1. [mask |-> m, kind |-> k] \in Buttons!Events
  BY DEF Buttons!Events
<1> DEFINE e == [mask |-> m, kind |-> k]
<1> HIDE DEF e
<1>2. CASE Len(q) < QueueLen /\ Buttons!Send(q, m, k) = Append(q, e)
  BY <1>1, <1>2, ShellAssumption DEF e
<1>3. CASE Buttons!Send(q, m, k) = q
  BY <1>3
<1> QED BY <1>2, <1>3 DEF Buttons!Send, e

LEMMA UserTyped == ButtonsTyped /\ Buttons!User => ButtonsTyped'
<1> SUFFICES ASSUME ButtonsTyped, Buttons!User PROVE ButtonsTyped'
  OBVIOUS
<1> USE DEF ButtonsTyped, Buttons!TypeOK
<1>1. gesture # "none" => mask \in Buttons!Masks
  BY DEF Buttons!Masks
<1>2. {"click", "dblclick", "long", "repeat", "release"} = Buttons!Kinds
  BY DEF Buttons!Kinds
<1>3. CASE Buttons!Press \/ Buttons!Gather
  BY <1>3 DEF Buttons!Press, Buttons!Gather, Buttons!Masks
<1>4. ASSUME gesture # "none", NEW k \in Buttons!Kinds, queue' = Buttons!Send(queue, mask, k)
      PROVE  queue' \in Seq(Buttons!Events) /\ Len(queue') <= QueueLen
  BY <1>1, <1>4, SendTyped
<1>5. CASE Buttons!Click
  <2> DEFINE q == Buttons!Send(queue, mask, "click")
  <2>1. gesture # "none" /\ q \in Seq(Buttons!Events) /\ Len(q) <= QueueLen
    BY <1>1, <1>2, <1>5, SendTyped DEF Buttons!Click
  <2> HIDE DEF q
  <2>2. queue' = q \/ queue' = Buttons!Send(q, mask, "dblclick")
    BY <1>5 DEF Buttons!Click, q
  <2>3. queue' \in Seq(Buttons!Events) /\ Len(queue') <= QueueLen
    BY <1>1, <1>2, <2>1, <2>2, SendTyped
  <2> QED BY <1>5, <2>3 DEF Buttons!Click
<1>6. CASE Buttons!Long \/ Buttons!Repeat \/ Buttons!Release
  <2>1. queue' \in Seq(Buttons!Events) /\ Len(queue') <= QueueLen
    BY <1>2, <1>4, <1>6 DEF Buttons!Long, Buttons!Repeat, Buttons!Release
  <2> QED BY <1>6, <2>1 DEF Buttons!Long, Buttons!Repeat, Buttons!Release
<1> QED BY <1>3, <1>5, <1>6 DEF Buttons!User

LEMMA TakeTyped == ButtonsTyped /\ Buttons!Take => ButtonsTyped'
<1> SUFFICES ASSUME ButtonsTyped, Buttons!Take PROVE ButtonsTyped'
  OBVIOUS
<1>1. queue \in Seq(Buttons!Events) /\ Len(queue) <= QueueLen /\ queue # <<>> /\ queue' = Tail(queue)
  BY DEF ButtonsTyped, Buttons!TypeOK, Buttons!Take
<1>2. queue' \in Seq(Buttons!Events) /\ Len(queue') <= QueueLen
  BY <1>1, ShellAssumption
<1> QED BY <1>2 DEF ButtonsTyped, Buttons!TypeOK, Buttons!Take

(* The flags, and the focus and the keys.                                  *)
Flags ==
  /\ busy \in BOOLEAN /\ editing \in BOOLEAN /\ showcase \in BOOLEAN
  /\ rescan \in {"off", "armed", "late"}
KeysTyped ==
  /\ focus \in Tiles
  /\ ring \in Seq(Keys) /\ Len(ring) <= RingLen /\ key \in Keys \cup {None}

LEMMA AloneTyped ==
  /\ Flags /\ UNCHANGED <<busy, editing, showcase, rescan>> => Flags'
  /\ KeysTyped /\ UNCHANGED <<focus, ring, key, apps>> => KeysTyped'
<1>1. Flags /\ UNCHANGED <<busy, editing, showcase, rescan>> => Flags'
  BY DEF Flags
<1>2. KeysTyped /\ UNCHANGED <<focus, ring, key, apps>> => KeysTyped'
  BY DEF KeysTyped, Tiles
<1> QED BY <1>1, <1>2

LEMMA DispatchTyped ==
  ASSUME Flags, KeysTyped, NEW ev, Dispatch(ev)
  PROVE  editing' \in BOOLEAN /\ UNCHANGED <<showcase, rescan>> /\ KeysTyped'
<1>1. CASE UNCHANGED <<editing, focus, keyVars, settingsVars>>
  BY <1>1, AloneTyped DEF Flags, keyVars, settingsVars
<1>2. CASE Leave
  <2>1. UNCHANGED <<focus, keyVars, settingsVars>>
    BY <1>2 DEF Leave, ShowHome
  <2>2. editing' \in BOOLEAN
    BY <1>2, Zenon DEF Leave
  <2> QED BY <2>1, <2>2, AloneTyped DEF keyVars, settingsVars
<1>3. CASE Route(ev) = "key" /\ KeyPush(KeyOf(ev))
  <2>1. KeyOf(ev) \in Keys
    BY <1>3 DEF Route, KeyOf, Keys
  <2>2. ring' \in Seq(Keys) /\ Len(ring') <= RingLen
    BY <1>3, <2>1, ShellAssumption DEF KeyPush, KeysTyped
  <2>3. UNCHANGED <<editing, focus, key, settingsVars>>
    BY <1>3 DEF KeyPush
  <2> QED BY <2>2, <2>3 DEF KeysTyped, Flags, Tiles, settingsVars
<1> QED BY <1>1, <1>2, <1>3 DEF Dispatch, GoHome, ShowFullList, HomeStep

(* A scan changes the registry and puts the focus back on a tile.          *)
LEMMA FocusBack ==
  ASSUME focus \in Tiles, UNCHANGED <<focus, apps>> \/ (focus' = 1 /\ HomeInv')
  PROVE  focus' \in Tiles'
<1>1. CASE UNCHANGED <<focus, apps>>
  BY <1>1 DEF Tiles
<1>2. CASE focus' = 1 /\ HomeInv'
  <2>1. Len(apps') \in Nat
    BY <1>2, ShellAssumption DEF HomeInv, PinsTyped, Carded
  <2> QED BY <1>2, <2>1 DEF Tiles
<1> QED BY <1>1, <1>2

LEMMA RowTyped ==
  ASSUME Flags, focus \in Tiles, HomeInv, HomeInv', RowClicked
  PROVE  editing' \in BOOLEAN /\ showcase' \in BOOLEAN /\ rescan' \in {"off", "armed", "late"}
         /\ focus' \in Tiles'
<1>1. CASE PinSwitched
  BY <1>1, FocusBack DEF PinSwitched, Flags
<1>2. CASE ShowcaseSwitched
  <2>1. showcase' \in BOOLEAN
    BY <1>2, Zenon DEF ShowcaseSwitched
  <2> QED BY <1>2, <2>1, FocusBack DEF ShowcaseSwitched, Flags
<1>3. CASE SliderClicked
  <2>1. editing' \in BOOLEAN
    BY <1>3, Zenon DEF SliderClicked
  <2> QED BY <1>3, <2>1, FocusBack DEF SliderClicked, Flags
<1>4. CASE DeleteConfirmed
  BY <1>4, FocusBack DEF DeleteConfirmed, ViewScanned, Scanned, Flags
<1>5. CASE RescanClicked
  BY <1>5, FocusBack DEF RescanClicked, Flags
<1> QED BY <1>1, <1>2, <1>3, <1>4, <1>5 DEF RowClicked

LEMMA TileTyped ==
  ASSUME Flags, NEW i, TileClicked(i)
  PROVE  editing' \in BOOLEAN /\ showcase' \in BOOLEAN /\ UNCHANGED <<apps, rescan>>
BY DEF TileClicked, Flags, settingsVars

LEMMA RestTyped ==
  ASSUME Careful, HomeInv, HomeInv', Flags, KeysTyped, [Next]_vars
  PROVE  Flags' /\ KeysTyped'
<1>1. CASE Press \/ UNCHANGED vars
  BY <1>1, AloneTyped DEF Press, vars, keyVars, settingsVars
<1>2. CASE Tick
  <2>1. editing' \in BOOLEAN /\ UNCHANGED <<showcase, rescan>> /\ KeysTyped'
    BY <1>2, DispatchTyped DEF Tick
  <2>2. busy' \in BOOLEAN
    BY <1>2, Zenon DEF Tick
  <2> QED BY <2>1, <2>2 DEF Flags
<1>3. CASE Showcase
  BY <1>3, AloneTyped DEF Showcase, HomeStep, keyVars, settingsVars
<1>4. CASE KeyPressed
  <2>1. UNCHANGED <<busy, editing, showcase, rescan, apps>>
    BY <1>4 DEF KeyPressed, settingsVars
  <2>2. /\ key' = Head(ring) /\ ring' = Tail(ring) /\ ring # <<>> /\ focus' = Moved(key')
        /\ ring \in Seq(Keys) /\ Len(ring) <= RingLen
    BY <1>4 DEF KeyPressed, KeysTyped
  <2>3. key' \in Keys /\ ring' \in Seq(Keys) /\ Len(ring') <= RingLen
    BY <2>2, ShellAssumption
  <2>4. Moved(key') \in Tiles
    <3>1. Len(apps) \in Nat
      BY PinnedFacts DEF HomeInv, PinsTyped
    <3> QED BY <3>1 DEF Moved, Tiles, KeysTyped
  <2> QED BY <2>1, <2>2, <2>3, <2>4, AloneTyped DEF KeysTyped, Tiles
<1>5. CASE KeyReleased
  <2>1. UNCHANGED <<busy, ring>> /\ key' = None
    BY <1>5 DEF KeyReleased
  <2>2. editing' \in BOOLEAN /\ showcase' \in BOOLEAN /\ rescan' \in {"off", "armed", "late"}
        /\ focus' \in Tiles'
    <3>1. CASE RowClicked
      BY <3>1, RowTyped DEF KeysTyped
    <3>2. CASE TileClicked(focus) /\ UNCHANGED focus
      BY <3>2, TileTyped DEF KeysTyped, Tiles, Flags
    <3>3. CASE UNCHANGED <<editing, focus, settingsVars>>
      BY <3>3 DEF KeysTyped, Tiles, Flags, settingsVars
    <3> QED BY <1>5, <3>1, <3>2, <3>3 DEF KeyReleased
  <2> QED BY <2>1, <2>2 DEF Flags, KeysTyped
<1>6. CASE Touch
  <2>1. UNCHANGED <<busy, ring, key>>
    BY <1>6 DEF Touch, keyVars
  <2>2. editing' \in BOOLEAN /\ showcase' \in BOOLEAN /\ rescan' \in {"off", "armed", "late"}
        /\ focus' \in Tiles'
    <3>1. ASSUME NEW i \in Tiles, TileClicked(i), focus' = i
          PROVE  editing' \in BOOLEAN /\ showcase' \in BOOLEAN /\ rescan' = rescan /\ focus' \in Tiles'
      BY <3>1, TileTyped DEF Tiles
    <3>2. CASE RowClicked
      BY <3>2, RowTyped DEF KeysTyped
    <3> QED BY <1>6, <3>1, <3>2 DEF Touch, Flags
  <2> QED BY <2>1, <2>2 DEF Flags, KeysTyped
<1>7. CASE RescanDo \/ InstallEnds
  <2>1. UNCHANGED <<busy, ring, key, showcase>> /\ focus' \in Tiles'
    BY <1>7, FocusBack DEF RescanDo, InstallEnds, ViewScanned, Scanned, KeysTyped, keyVars
  <2>2. editing' \in BOOLEAN /\ rescan' \in {"off", "armed", "late"}
    BY <1>7, Zenon DEF RescanDo, InstallEnds, ViewScanned, Flags
  <2> QED BY <2>1, <2>2 DEF Flags, KeysTyped
<1>8. CASE FetchEnds
  BY <1>8, AloneTyped, FocusBack DEF FetchEnds, keyVars, settingsVars, Flags, KeysTyped
<1>9. CASE Reset
  <2>1. focus' \in Tiles'
    BY <1>9, FocusBack DEF Reset, KeysTyped
  <2>2. ring' = <<>> /\ key' = None
    BY <1>9 DEF Reset
  <2>3. busy' = FALSE /\ editing' = FALSE /\ rescan' = "off" /\ showcase' = showcase
    BY <1>9 DEF Reset
  <2>4. KeysTyped'
    BY <2>1, <2>2, ShellAssumption DEF KeysTyped
  <2> QED BY <2>3, <2>4 DEF Flags
<1> QED BY <1>1, <1>2, <1>3, <1>4, <1>5, <1>6, <1>7, <1>8, <1>9 DEF Next

-----------------------------------------------------------------------------
(* The whole invariant.                                                    *)
ShellInv == Careful /\ HomeInv /\ ButtonsTyped /\ Flags /\ KeysTyped

LEMMA InitShell == Init => ShellInv
<1> SUFFICES ASSUME Init PROVE ShellInv
  OBVIOUS
<1>1. PinsKept
  <2>1. PICK n \in 0 .. MaxPins : pins \in [1 .. n -> Ids]
    BY DEF Init, PinLists
  <2>2. n \in Nat /\ n <= MaxPins
    BY ShellAssumption
  <2>3. pins \in Seq(Ids) /\ Len(pins) = n /\ DOMAIN pins = 1 .. n
    BY <2>1, <2>2
  <2> QED BY <2>2, <2>3 DEF Init, PinLists, PinsKept
<1>2. HomeInv
  BY <1>1, StartHome DEF Init
<1>3. ButtonsTyped
  BY ShellAssumption DEF Init, Start, ButtonsTyped, Buttons!Init, Buttons!TypeOK
<1>4. KeysTyped
  <2>1. Len(apps) \in Nat
    BY <1>2, PinnedFacts DEF HomeInv, PinsTyped
  <2> QED BY <2>1, ShellAssumption DEF Init, Start, KeysTyped, Tiles
<1> QED BY <1>2, <1>3, <1>4, StartCareful DEF Init, Start, ShellInv, Flags

LEMMA NextShell == ASSUME Prudent, ShellInv, [Next]_vars PROVE ShellInv'
<1>1. Careful'
  BY NextCareful DEF ShellInv
<1>2. HomeInv'
  <2>1. CASE Press \/ KeyPressed \/ FetchEnds \/ UNCHANGED vars
    BY <2>1, PinsAlone DEF Press, KeyPressed, FetchEnds, vars, homeVars, settingsVars, ShellInv
  <2>2. CASE Showcase /\ rescan # "late"
    BY <2>2, HomeStepPins DEF Showcase, ShellInv, Careful
  <2> QED BY <2>1, <2>2, TickPins, KeyReleasedPins, TouchPins, ScanPins, ResetPins
          DEF Next, ShellInv, KeysTyped
<1>3. ButtonsTyped'
  <2>1. CASE Press \/ Tick
    BY <2>1, UserTyped, TakeTyped DEF Press, Tick, ShellInv
  <2>2. CASE UNCHANGED <<inputVars, queue>>
    BY <2>2 DEF ShellInv, ButtonsTyped, Buttons!TypeOK, inputVars
  <2>3. CASE Reset
    BY <2>3, ShellAssumption DEF ShellInv, ButtonsTyped, Buttons!TypeOK, Reset
  <2> QED BY <2>1, <2>2, <2>3
          DEF Next, Showcase, KeyPressed, KeyReleased, Touch, RescanDo, InstallEnds, FetchEnds, vars
<1> QED BY <1>1, <1>2, <1>3, RestTyped DEF ShellInv

LEMMA ShellInvariance == ASSUME Prudent PROVE Spec => []ShellInv
<1>1. Init => ShellInv
  BY InitShell
<1>2. ShellInv /\ [Next]_vars => ShellInv'
  BY NextShell
<1> QED BY <1>1, <1>2, PTL DEF Spec

(* Home shows the pinned app its index counts to: from the moment Home is  *)
(* entered until it is left, the pins it read are those in NVS, found at   *)
(* the slots the registry still gives them. Out of it is only the moment   *)
(* between a rescan that comes after Settings was closed and the reset it  *)
(* leads to.                                                               *)
THEOREM HomeIsPinned == ASSUME Prudent PROVE Spec => []HomeShowsPin
<1>1. ShellInv => HomeShowsPin
  BY DEF ShellInv, HomeInv
<1> QED BY <1>1, ShellInvariance, PTL

(* No scan renumbers the registry under an open widget but one: that of a  *)
(* rescan clicked just before Settings was closed, which ends in a reset.  *)
(* A delete, the end of an install and a rescan that comes in time never   *)
(* find a widget open.                                                     *)
THEOREM WidgetsKeepTheirApp == ASSUME Prudent PROVE Spec => []AppStable
<1>1. ShellInv => AppStable
  <2> SUFFICES ASSUME ShellInv, InWidget(scr), rescan # "late"
               PROVE  scr.widget <= Len(apps) /\ apps[scr.widget] = scr.opened
    BY DEF AppStable
  <2>1. Len(apps) \in Nat
    BY PinnedFacts DEF ShellInv, HomeInv, PinsTyped
  <2> QED BY <2>1 DEF ShellInv, HomeInv, OnSlot
<1> QED BY <1>1, ShellInvariance, PTL

(* The types: the queue and the ring within their bounds, the focus on a   *)
(* tile, no pin twice and no more pins than NVS is given room for.         *)
THEOREM ShellTypeCorrect == ASSUME Prudent PROVE Spec => []TypeOK
<1>1. ShellInv => TypeOK
  <2> SUFFICES ASSUME ShellInv PROVE TypeOK
    OBVIOUS
  <2>1. scr \in Screens
    <3>1. Len(apps) \in Nat /\ apps \in Seq(Ids)
      BY PinnedFacts DEF ShellInv, HomeInv, PinsTyped
    <3>2. CASE scr = Bare(mode) /\ mode \in {"home", "list"}
      BY <3>2 DEF Bare, Screen, Screens
    <3>3. CASE scr = Settings
      BY <3>3 DEF Settings, Screen, Screens
    <3>4. ASSUME NEW w, NEW a, scr = Under(mode, w, a), mode \in {"home", "list"}
          PROVE  scr \in Screens
      <4>1. InWidget(scr) /\ scr.widget = w /\ scr.opened = a
        BY <3>4 DEF Under, Screen, InWidget
      <4>2. w \in Nat /\ a \in Ids
        BY <3>1, <4>1 DEF ShellInv, HomeInv, OnSlot
      <4> QED BY <3>4, <4>2 DEF Under, Screen, Screens
    <3> QED BY <3>2, <3>3, <3>4 DEF ShellInv, Careful, Shape, ShapeOf
  <2>2. Buttons!TypeOK
    BY DEF ShellInv, ButtonsTyped
  <2>3. /\ busy \in BOOLEAN /\ editing \in BOOLEAN /\ showcase \in BOOLEAN
        /\ rescan \in {"off", "armed", "late"}
    BY DEF ShellInv, Flags
  <2>4. mode \in {"home", "list"}
    BY DEF ShellInv, Careful, Shape
  <2> QED BY <2>1, <2>2, <2>3, <2>4, Zenon
          DEF TypeOK, ShellInv, HomeInv, PinsTyped, Carded, KeysTyped
<1> QED BY <1>1, ShellInvariance, PTL
=============================================================================
