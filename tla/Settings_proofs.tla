--------------------------- MODULE Settings_proofs ---------------------------
(***************************************************************************)
(* Proofs about Settings, for any directories, ids, registry size, catalog *)
(* and timing of the four jobs.                                            *)
(***************************************************************************)
EXTENDS Settings, SeqLemmas, TLAPS

-----------------------------------------------------------------------------
(* Types.                                                                  *)

(* A scan fills the registry's array and no more, whatever is on the card. *)
LEMMA LoadedIsList == ASSUME NEW m PROVE IsList(Loaded(m))
<1> DEFINE s == Found(m)
<1>1. s \in Seq(AllDirs)
  <2>1. s \in Seq(AllDirs \cap {d \in AllDirs : m[d] = "ok"})
    BY SettingsAssumption, PickedFrom DEF Found
  <2> QED BY <2>1
<1> HIDE DEF s
<1>2. SubSeq(s, 1, IF Len(s) < MaxApps THEN Len(s) ELSE MaxApps) \in Seq(AllDirs)
  BY <1>1, SettingsAssumption
<1>3. Len(SubSeq(s, 1, IF Len(s) < MaxApps THEN Len(s) ELSE MaxApps)) <= MaxApps
  BY <1>1, SettingsAssumption
<1> QED BY <1>2, <1>3 DEF IsList, Loaded, FirstOf, s

LEMMA NothingIsList == IsList(<<>>)
BY SettingsAssumption DEF IsList

(* The types, in the groups that the actions leave or change together.     *)
ListTyped ==
  /\ view \in Views \cup {None} /\ ptrs \subseteq UNION {RowsOf(v) : v \in Views}
  /\ IsList(rows) /\ confirm \in BOOLEAN
PanelTyped ==
  /\ panel \in {"none", "wifi", "delete"} /\ trigger \in {"none", "row", "gone"}
  /\ asked = None \/ (asked.slot \in 1 .. Len(Dirs) /\ asked.dir \in OnCard)
  /\ deleteId \in Ids \cup {None}
RegTyped == man \in [AllDirs -> {"none", "bad", "ok"}] /\ IsList(apps) /\ IsList(tiles)
CatTyped ==
  /\ catalog \in Catalogs \cup {<<>>} /\ target \in OnCard \cup {None}
  /\ check \in Jobs /\ install \in Jobs
OtherTyped == rescan \in BOOLEAN /\ fetch \in Jobs /\ ota \in Jobs /\ verdict \in BOOLEAN

AllTyped == ListTyped /\ PanelTyped /\ RegTyped /\ CatTyped /\ OtherTyped

LEMMA Typed == (TypeOK <=> AllTyped) /\ (TypeOK' <=> AllTyped')
BY Zenon DEF TypeOK, AllTyped, ListTyped, PanelTyped, RegTyped, CatTyped, OtherTyped

(* What the helpers of the actions leave.                                  *)
LEMMA ScanTyped ==
  ASSUME RegTyped, man' \in [AllDirs -> {"none", "bad", "ok"}], Rescan
  PROVE  RegTyped'
BY LoadedIsList, Zenon DEF RegTyped, Rescan, IsList

LEMMA ViewTyped ==
  ASSUME NEW v \in Views, ShowView(v), v = "apps" => IsList(apps')
  PROVE  ListTyped'
<1>1. IsList(rows')
  BY NothingIsList, Zenon DEF ShowView
<1>2. ptrs' \subseteq UNION {RowsOf(w) : w \in Views}
  BY Zenon DEF ShowView
<1> QED BY <1>1, <1>2, Zenon DEF ShowView, ListTyped, IsList

LEMMA RestartTyped ==
  ASSUME RegTyped, man' \in [AllDirs -> {"none", "bad", "ok"}], Restart
  PROVE  AllTyped'
<1>1. RegTyped'
  BY ScanTyped DEF Restart
<1>2. ListTyped'
  BY NothingIsList DEF Restart, ListTyped, IsList
<1>3. PanelTyped'
  BY DEF Restart, PanelTyped
<1>4. CatTyped' /\ OtherTyped'
  BY DEF Restart, CatTyped, OtherTyped, Jobs
<1> QED BY <1>1, <1>2, <1>3, <1>4 DEF AllTyped

LEMMA RebootTyped == ASSUME RegTyped, Reboot PROVE AllTyped'
BY RestartTyped DEF Reboot, RegTyped

-----------------------------------------------------------------------------
(* Tiles and rows.                                                         *)

(* A restart and a first start build the tiles from a scan.                *)
LEMMA RestartFresh == Restart => TilesFresh'
BY SettingsAssumption DEF Restart, Rescan, TilesFresh, Views

LEMMA FreshInit == Init => TilesFresh
BY SettingsAssumption DEF Init, TilesFresh, Views

(* A step of the user's.                                                   *)
LEMMA ClicksFresh ==
  ASSUME TilesFresh, Clicks
  PROVE  TilesFresh'
<1> USE DEF TilesFresh, listVars, panelVars, regVars, catVars, otaVars
<1>1. CASE OpenSettings \/ \E v \in Views : Go(v)
  BY <1>1 DEF OpenSettings, Go, ShowView
<1>2. CASE Close
  BY <1>2, RestartFresh, SettingsAssumption DEF Close, Closed, Reboot, Views
<1>3. CASE WifiClicked \/ RescanClicked \/ FetchClicked \/ CheckClicked \/ OtaClicked \/ UpdateClicked
  BY <1>3 DEF WifiClicked, RescanClicked, FetchClicked, CheckClicked, OtaClicked, UpdateClicked
<1>4. CASE DeleteCancel
  BY <1>4, RestartFresh DEF DeleteCancel, Reboot
<1>5. CASE DeleteConfirm
  BY <1>5, RestartFresh DEF DeleteConfirm, Rescan, ShowView
<1>6. ASSUME NEW i \in 1 .. Len(Dirs), DeleteClicked(i) \/ InstallClicked(i) PROVE TilesFresh'
  BY <1>6 DEF DeleteClicked, InstallClicked
<1> QED
  BY <1>1, <1>2, <1>3, <1>4, <1>5, <1>6 DEF Clicks

(* A step of a job's.                                                      *)
LEMMA JobsFresh ==
  ASSUME TilesFresh, Fetch \/ Check \/ Install \/ Ota
  PROVE  TilesFresh'
<1> USE DEF TilesFresh, listVars, panelVars, regVars, catVars, otaVars
<1>1. CASE Fetch
  BY <1>1 DEF Fetch, FetchStep, FetchReport, Truncate, Deliver
<1>2. CASE Check
  <2>1. CASE CheckReport
    BY <2>1, RestartFresh DEF CheckReport, ShowView, Wild, Reboot
  <2> QED
    BY <1>2, <2>1 DEF Check, CheckStep
<1>3. CASE Install
  <2>1. CASE InstallStep
    BY <2>1 DEF InstallStep, Truncate, Deliver
  <2>2. CASE InstallStarts
    BY <2>2, RestartFresh DEF InstallStarts, Wild, Reboot
  <2>3. CASE InstallEnds
    BY <2>3, RestartFresh DEF InstallEnds, Wild, Reboot, Rescan, ShowView
  <2> QED
    BY <1>3, <2>1, <2>2, <2>3 DEF Install
<1>4. CASE Ota
  BY <1>4, RestartFresh DEF Ota, OtaChecking, OtaAnswer, UpdateEnds, Reboot
<1> QED
  BY <1>1, <1>2, <1>3, <1>4

LEMMA FreshStep == TilesFresh /\ [Next]_vars => TilesFresh'
<1> SUFFICES ASSUME TilesFresh, [Next]_vars PROVE TilesFresh'
  OBVIOUS
<1>1. CASE WifiEnds
  BY <1>1, RestartFresh DEF WifiEnds, Reboot, TilesFresh, listVars, regVars
<1>2. CASE RescanDo
  BY <1>2, RestartFresh DEF RescanDo, Reboot, Rescan, ShowView, TilesFresh
<1>3. CASE UNCHANGED vars
  BY <1>3 DEF vars, listVars, regVars, TilesFresh
<1> QED
  BY <1>1, <1>2, <1>3, ClicksFresh, JobsFresh DEF Next

(* Whatever the jobs do and whenever they report, the tiles and the rows   *)
(* of the Apps view are those of the registry as it is.                    *)
THEOREM ListsAreFresh == Spec => []TilesFresh
BY FreshInit, FreshStep, PTL DEF Spec

-----------------------------------------------------------------------------
(* Types, step by step.                                                    *)

(* What a step leaves alone keeps its types.                               *)
LEMMA LeftAlone ==
  /\ ListTyped /\ UNCHANGED listVars => ListTyped'
  /\ PanelTyped /\ UNCHANGED panelVars => PanelTyped'
  /\ RegTyped /\ UNCHANGED regVars => RegTyped'
  /\ CatTyped /\ UNCHANGED catVars => CatTyped'
  /\ OtherTyped /\ UNCHANGED <<rescan, fetch, otaVars>> => OtherTyped'
<1>1. ListTyped /\ UNCHANGED listVars => ListTyped'
  BY DEF ListTyped, listVars, IsList
<1>2. PanelTyped /\ UNCHANGED panelVars => PanelTyped'
  BY DEF PanelTyped, panelVars
<1>3. RegTyped /\ UNCHANGED regVars => RegTyped'
  BY DEF RegTyped, regVars, IsList
<1>4. CatTyped /\ UNCHANGED catVars => CatTyped'
  BY DEF CatTyped, catVars
<1>5. OtherTyped /\ UNCHANGED <<rescan, fetch, otaVars>> => OtherTyped'
  BY DEF OtherTyped, otaVars
<1> QED BY <1>1, <1>2, <1>3, <1>4, <1>5

(* A step of the user's; the delete panel copies the id from the           *)
(* registry's slot, which is the row's as long as the rows are fresh.      *)
LEMMA ClicksTyped ==
  ASSUME AllTyped, TilesFresh, Clicks
  PROVE  AllTyped'
<1> USE LeftAlone DEF AllTyped
<1>1. CASE OpenSettings
  <2>1. ListTyped'
    BY <1>1, ViewTyped DEF OpenSettings, Views
  <2> QED BY <1>1, <2>1 DEF OpenSettings
<1>2. CASE Close
  <2>1. CASE Reboot
    BY <2>1, RebootTyped
  <2>2. CASE ~Reboot
    <3>1. ListTyped'
      BY <1>2, <2>2, NothingIsList, Zenon DEF Close, Closed, ListTyped, IsList
    <3>2. PanelTyped'
      BY <1>2, <2>2 DEF Close, PanelTyped
    <3> QED BY <1>2, <2>2, <3>1, <3>2 DEF Close
  <2> QED BY <2>1, <2>2
<1>3. ASSUME NEW v \in Views, Go(v) PROVE AllTyped'
  <2>1. IsList(apps')
    BY <1>3 DEF Go, RegTyped, regVars, IsList
  <2>2. ListTyped'
    BY <1>3, <2>1, ViewTyped DEF Go
  <2> QED BY <1>3, <2>2 DEF Go
<1>4. CASE WifiClicked
  <2>1. PanelTyped'
    BY <1>4 DEF WifiClicked, PanelTyped
  <2> QED BY <1>4, <2>1 DEF WifiClicked
<1>5. CASE RescanClicked \/ FetchClicked \/ UpdateClicked \/ OtaClicked
  <2>1. OtherTyped'
    BY <1>5 DEF RescanClicked, FetchClicked, UpdateClicked, OtaClicked, OtherTyped, otaVars, Jobs
  <2> QED BY <1>5, <2>1 DEF RescanClicked, FetchClicked, UpdateClicked, OtaClicked
<1>6. CASE CheckClicked
  <2>1. CatTyped'
    BY <1>6 DEF CheckClicked, CatTyped, Jobs
  <2> QED BY <1>6, <2>1 DEF CheckClicked, otaVars
<1>7. CASE DeleteCancel
  <2>1. CASE Reboot
    BY <2>1, RebootTyped
  <2>2. CASE ~Reboot
    <3>1. PanelTyped'
      BY <1>7, <2>2 DEF DeleteCancel, PanelClosed, PanelTyped
    <3> QED BY <1>7, <2>2, <3>1 DEF DeleteCancel
  <2> QED BY <2>1, <2>2
<1>8. CASE DeleteConfirm
  <2>1. man' \in [AllDirs -> {"none", "bad", "ok"}]
    BY <1>8 DEF DeleteConfirm, DeleteApp, RegTyped
  <2>2. CASE Restart
    BY <2>1, <2>2, RestartTyped
  <2>3. CASE ~Restart
    <3>1. RegTyped'
      BY <1>8, <2>1, <2>3, ScanTyped DEF DeleteConfirm
    <3>2. IsList(apps') /\ "apps" \in Views
      BY <3>1 DEF RegTyped, IsList, Views
    <3>3. ListTyped'
      BY <1>8, <2>3, <3>2, ViewTyped DEF DeleteConfirm
    <3>4. PanelTyped'
      BY <1>8, <2>3 DEF DeleteConfirm, PanelClosed, PanelTyped
    <3> QED BY <1>8, <2>3, <3>1, <3>3, <3>4 DEF DeleteConfirm
  <2> QED BY <2>2, <2>3
<1>9. ASSUME NEW i \in 1 .. Len(Dirs), DeleteClicked(i) PROVE AllTyped'
  <2>1. rows = apps /\ i <= Len(rows) /\ apps[i] \in OnCard
    BY <1>9 DEF DeleteClicked, InReach, TilesFresh
  <2>2. IdOf[apps[i]] \in Ids
    BY <2>1 DEF Ids, OnCard
  <2>3. PanelTyped'
    BY <1>9, <2>1, <2>2 DEF DeleteClicked, PanelTyped
  <2> QED BY <1>9, <2>3 DEF DeleteClicked
<1>10. ASSUME NEW i \in 1 .. Len(Dirs), InstallClicked(i) PROVE AllTyped'
  <2>1. catalog \in Seq(OnCard)
    <3>1. ASSUME NEW c \in Seq(OnCard \ {FetchDir}) PROVE c \in Seq(OnCard)
      OBVIOUS
    <3>2. CASE catalog \in Catalogs
      BY <3>1, <3>2, SettingsAssumption, Zenon
    <3>3. CASE catalog = <<>>
      BY <3>3
    <3> QED BY <3>2, <3>3, Zenon DEF CatTyped
  <2>2. catalog[i] \in OnCard
    BY <1>10, <2>1 DEF InstallClicked
  <2>3. CatTyped'
    BY <1>10, <2>2 DEF InstallClicked, CatTyped, Jobs
  <2> QED BY <1>10, <2>3 DEF InstallClicked
<1> QED
  BY <1>1, <1>2, <1>3, <1>4, <1>5, <1>6, <1>7, <1>8, <1>9, <1>10 DEF Clicks

(* A step of a job's; a report is the one place where it meets the screen. *)
LEMMA FetchTyped == AllTyped /\ Fetch => AllTyped'
<1> SUFFICES ASSUME AllTyped, Fetch PROVE AllTyped'
  OBVIOUS
<1> USE LeftAlone DEF AllTyped
<1>1. CASE FetchStep
  <2>1. RegTyped'
    BY <1>1 DEF FetchStep, Truncate, Deliver, RegTyped, regVars, IsList
  <2>2. OtherTyped'
    BY <1>1 DEF FetchStep, OtherTyped, otaVars, Jobs
  <2> QED BY <1>1, <2>1, <2>2 DEF FetchStep
<1>2. CASE FetchReport
  <2>1. RegTyped'
    BY <1>2 DEF FetchReport, RegTyped, IsList
  <2>2. OtherTyped'
    BY <1>2 DEF FetchReport, OtherTyped, otaVars, Jobs
  <2> QED BY <1>2, <2>1, <2>2 DEF FetchReport
<1> QED
  BY <1>1, <1>2 DEF Fetch

LEMMA CheckTyped == AllTyped /\ Check => AllTyped'
<1> SUFFICES ASSUME AllTyped, Check PROVE AllTyped'
  OBVIOUS
<1> USE LeftAlone DEF AllTyped
<1>1. CASE CheckStep
  <2>1. CatTyped'
    BY <1>1 DEF CheckStep, CatTyped, Jobs
  <2> QED BY <1>1, <2>1 DEF CheckStep
<1>2. CASE CheckReport
  <2>1. CASE Reboot
    BY <2>1, RebootTyped
  <2>2. CASE ~Reboot
    <3>1. CatTyped'
      BY <1>2, <2>2 DEF CheckReport, Wild, CatTyped, Jobs
    <3>2. ShowView("catalog") => ListTyped'
      BY ViewTyped DEF Views
    <3>3. trigger' = Rebuilt /\ UNCHANGED <<panel, asked, deleteId>> => PanelTyped'
      BY DEF Rebuilt, PanelTyped
    <3> QED BY <1>2, <2>2, <3>1, <3>2, <3>3 DEF CheckReport, Wild
  <2> QED BY <2>1, <2>2
<1> QED
  BY <1>1, <1>2 DEF Check

LEMMA InstallTyped == AllTyped /\ Install => AllTyped'
<1> SUFFICES ASSUME AllTyped, Install PROVE AllTyped'
  OBVIOUS
<1> USE LeftAlone DEF AllTyped
<1>1. CASE Reboot
  BY <1>1, RebootTyped
<1>2. CASE InstallStep
  <2>1. RegTyped'
    BY <1>2 DEF InstallStep, Truncate, Deliver, RegTyped, regVars, IsList
  <2>2. CatTyped'
    BY <1>2 DEF InstallStep, CatTyped, Jobs
  <2> QED BY <1>2, <2>1, <2>2 DEF InstallStep
<1>3. CASE InstallStarts /\ ~Reboot
  <2>1. CatTyped'
    BY <1>3 DEF InstallStarts, Wild, CatTyped, Jobs
  <2> QED BY <1>3, <2>1 DEF InstallStarts, Wild
<1>4. CASE InstallEnds /\ ~Reboot
  <2>1. CatTyped'
    BY <1>4 DEF InstallEnds, Wild, CatTyped, Jobs
  <2>2. Rescan => RegTyped'
    BY <1>4, ScanTyped DEF InstallEnds, Wild, RegTyped
  <2>3. ShowView("catalog") => ListTyped'
    BY ViewTyped DEF Views
  <2>4. trigger' = Rebuilt /\ UNCHANGED <<panel, asked, deleteId>> => PanelTyped'
    BY DEF Rebuilt, PanelTyped
  <2>5. UNCHANGED <<apps, tiles, man>> => RegTyped'
    BY DEF RegTyped, IsList
  <2> QED BY <1>4, <2>1, <2>2, <2>3, <2>4, <2>5 DEF InstallEnds, Wild
<1> QED
  BY <1>1, <1>2, <1>3, <1>4 DEF Install

LEMMA OtaTyped == AllTyped /\ Ota => AllTyped'
<1> SUFFICES ASSUME AllTyped, Ota PROVE AllTyped'
  OBVIOUS
<1> USE LeftAlone DEF AllTyped
<1>1. ASSUME NEW newer \in BOOLEAN, ShowConfirm(newer), UNCHANGED <<view, ptrs, rows>>
      PROVE  ListTyped'
  <2>1. confirm' \in BOOLEAN
    BY <1>1, Zenon DEF ShowConfirm, ListTyped
  <2> QED BY <1>1, <2>1, Zenon DEF ListTyped, IsList
<1>2. CASE OtaChecking
  <2>1. ListTyped'
    BY <1>1, <1>2, Zenon DEF OtaChecking
  <2>2. OtherTyped'
    BY <1>2 DEF OtaChecking, OtherTyped, Jobs
  <2> QED BY <1>2, <2>1, <2>2 DEF OtaChecking
<1>3. ASSUME NEW newer \in BOOLEAN, OtaAnswer(newer) PROVE AllTyped'
  <2>1. ListTyped'
    BY <1>1, <1>3, Zenon DEF OtaAnswer
  <2>2. rescan' \in BOOLEAN /\ verdict' \in BOOLEAN
    BY <1>3, Zenon DEF OtaAnswer, OtherTyped
  <2>3. OtherTyped'
    BY <1>3, <2>2 DEF OtaAnswer, OtherTyped, Jobs
  <2> QED BY <1>3, <2>1, <2>3 DEF OtaAnswer
<1>4. CASE UpdateEnds
  <2>1. CASE Reboot
    BY <2>1, RebootTyped
  <2>2. CASE ~Reboot
    <3>1. OtherTyped'
      BY <1>4, <2>2 DEF UpdateEnds, OtherTyped, Jobs
    <3> QED BY <1>4, <2>2, <3>1 DEF UpdateEnds
  <2> QED BY <2>1, <2>2
<1> QED
  BY <1>2, <1>3, <1>4 DEF Ota

LEMMA TypesStep == AllTyped /\ TilesFresh /\ [Next]_vars => AllTyped'
<1> SUFFICES ASSUME AllTyped, TilesFresh, [Next]_vars PROVE AllTyped'
  OBVIOUS
<1> USE LeftAlone DEF AllTyped
<1>1. CASE WifiEnds
  <2>1. CASE Reboot
    BY <2>1, RebootTyped
  <2>2. CASE ~Reboot
    <3>1. PanelTyped'
      BY <1>1, <2>2 DEF WifiEnds, PanelTyped
    <3> QED BY <1>1, <2>2, <3>1 DEF WifiEnds
  <2> QED BY <2>1, <2>2
<1>2. CASE RescanDo
  <2>1. CASE Reboot
    BY <2>1, RebootTyped
  <2>2. CASE ~Reboot
    <3>1. RegTyped'
      BY <1>2, <2>2, ScanTyped DEF RescanDo, RegTyped
    <3>2. IsList(apps') /\ "apps" \in Views
      BY <3>1 DEF RegTyped, IsList, Views
    <3>3. ListTyped'
      BY <1>2, <2>2, <3>2, ViewTyped DEF RescanDo
    <3>4. PanelTyped'
      BY <1>2, <2>2 DEF RescanDo, Rebuilt, PanelTyped
    <3>5. OtherTyped'
      BY <1>2, <2>2 DEF RescanDo, OtherTyped, otaVars
    <3> QED BY <1>2, <2>2, <3>1, <3>3, <3>4, <3>5 DEF RescanDo
  <2> QED BY <2>1, <2>2
<1>3. CASE UNCHANGED vars
  BY <1>3 DEF vars
<1> QED
  BY <1>1, <1>2, <1>3, ClicksTyped, FetchTyped, CheckTyped, InstallTyped, OtaTyped DEF Next

LEMMA TypesInit == Init => AllTyped
<1> SUFFICES ASSUME Init PROVE AllTyped
  OBVIOUS
<1>1. ListTyped
  BY NothingIsList DEF Init, ListTyped
<1>2. RegTyped
  BY LoadedIsList DEF Init, RegTyped
<1>3. PanelTyped /\ CatTyped /\ OtherTyped
  BY DEF Init, PanelTyped, CatTyped, OtherTyped, Jobs
<1> QED BY <1>1, <1>2, <1>3 DEF AllTyped

(* The registry, the tiles and the rows hold apps of the card, never more  *)
(* than the registry's array has room for, and every pointer that is kept  *)
(* is to a row of some view.                                               *)
THEOREM SettingsTypeCorrect == Spec => []TypeOK
BY TypesInit, TypesStep, ListsAreFresh, Typed, PTL DEF Spec

-----------------------------------------------------------------------------
(* The delete panel.                                                       *)

UniqueIds == \A d, e \in AllDirs : IdOf[d] = IdOf[e] => d = e

(* The id that will be deleted is that of the row that was tapped.         *)
AskedId == panel = "delete" => asked.dir \in AllDirs /\ deleteId = IdOf[asked.dir]

LEMMA AskedInit == Init => AskedId
BY DEF Init, AskedId

LEMMA AskedStep == TilesFresh /\ AskedId /\ [Next]_vars => AskedId'
<1> SUFFICES ASSUME TilesFresh, AskedId, [Next]_vars PROVE AskedId'
  OBVIOUS
<1> USE DEF listVars, panelVars, regVars, catVars, otaVars
<1>1. ASSUME panel' # "delete" PROVE AskedId'
  BY <1>1 DEF AskedId
<1>2. ASSUME panel' = panel, asked' = asked, deleteId' = deleteId PROVE AskedId'
  BY <1>2 DEF AskedId
<1>3. ASSUME NEW i \in 1 .. Len(Dirs), DeleteClicked(i) PROVE AskedId'
  BY <1>3 DEF DeleteClicked, InReach, TilesFresh, AskedId, OnCard
<1>4. ASSUME Restart PROVE AskedId'
  BY <1>1, <1>4 DEF Restart
<1>5. CASE Clicks
  <2>1. CASE OpenSettings \/ (\E v \in Views : Go(v)) \/ RescanClicked \/ FetchClicked
             \/ CheckClicked \/ OtaClicked \/ UpdateClicked
             \/ \E i \in 1 .. Len(Dirs) : InstallClicked(i)
    BY <2>1, <1>2 DEF OpenSettings, Go, RescanClicked, FetchClicked, CheckClicked, OtaClicked,
                      UpdateClicked, InstallClicked
  <2>2. CASE Close \/ WifiClicked \/ DeleteCancel \/ DeleteConfirm
    BY <2>2, <1>1, <1>4 DEF Close, WifiClicked, DeleteCancel, DeleteConfirm, PanelClosed, Reboot
  <2> QED
    BY <1>3, <1>5, <2>1, <2>2 DEF Clicks
<1>6. CASE WifiEnds
  BY <1>6, <1>1, <1>4 DEF WifiEnds, Reboot
<1>7. CASE RescanDo
  BY <1>7, <1>2, <1>4 DEF RescanDo, Reboot
<1>8. CASE Fetch
  BY <1>8, <1>2 DEF Fetch, FetchStep, FetchReport
<1>9. CASE Check
  BY <1>9, <1>2, <1>4 DEF Check, CheckStep, CheckReport, Wild, Reboot
<1>10. CASE Install
  BY <1>10, <1>2, <1>4 DEF Install, InstallStep, InstallStarts, InstallEnds, Wild, Reboot
<1>11. CASE Ota
  BY <1>11, <1>2, <1>4 DEF Ota, OtaChecking, OtaAnswer, UpdateEnds, Reboot
<1>12. CASE UNCHANGED vars
  BY <1>12, <1>2 DEF vars
<1> QED
  BY <1>5, <1>6, <1>7, <1>8, <1>9, <1>10, <1>11, <1>12 DEF Next

(* Only a confirmed delete both ends the panel and changes the card.       *)
LEMMA DeleteStep ==
  ASSUME UniqueIds, AskedId, [Next]_vars, panel = "delete", panel' # "delete",
         NEW d \in AllDirs, man'[d] # man[d]
  PROVE  d = asked.dir
<1> USE DEF listVars, panelVars, regVars, catVars, otaVars
<1>1. man' # man
  OBVIOUS
<1>2. CASE DeleteConfirm
  <2>1. d \in FirstMatch(deleteId)
    BY <1>2 DEF DeleteConfirm, DeleteApp
  <2>2. IdOf[d] = deleteId
    BY <2>1 DEF FirstMatch
  <2> QED
    BY <2>2 DEF UniqueIds, AskedId
<1>3. ~DeleteConfirm => panel' = panel \/ man' = man
  <2>1. CASE Clicks
    BY <2>1 DEF Clicks, OpenSettings, Close, Reboot, Go, WifiClicked, RescanClicked, FetchClicked,
                CheckClicked, OtaClicked, UpdateClicked, DeleteCancel, DeleteClicked, InstallClicked
  <2>2. CASE WifiEnds \/ RescanDo \/ Check \/ Ota
    BY <2>2 DEF WifiEnds, RescanDo, Check, CheckStep, CheckReport, Wild, Reboot, Ota, OtaChecking,
                OtaAnswer, UpdateEnds
  <2>3. CASE Fetch \/ Install
    BY <2>3 DEF Fetch, FetchStep, FetchReport, Install, InstallStep, InstallStarts, InstallEnds,
                Wild, Reboot
  <2> QED
    BY <2>1, <2>2, <2>3 DEF Next, vars
<1> QED
  BY <1>1, <1>2, <1>3

(* With unique ids, Delete touches no app but the one that was tapped.     *)
THEOREM DeletesWhatWasTapped == ASSUME UniqueIds PROVE Spec => DeletesChosen
<1>1. TilesFresh /\ AskedId /\ [Next]_vars =>
        [panel = "delete" /\ panel' # "delete" =>
           \A d \in AllDirs : man'[d] # man[d] => d = asked.dir]_vars
  BY DeleteStep
<1> QED
  BY <1>1, ListsAreFresh, AskedInit, AskedStep, PTL DEF Spec, DeletesChosen

-----------------------------------------------------------------------------
(* The confirm button.                                                     *)

(* A button that shows was shown by the last answer.                       *)
Offered == confirm => verdict

LEMMA OfferedStep == ~LockTimesOut /\ Offered /\ [Next]_vars => Offered'
<1> SUFFICES ASSUME ~LockTimesOut, Offered, [Next]_vars PROVE Offered'
  OBVIOUS
<1> USE DEF Offered, listVars, panelVars, regVars, catVars, otaVars
<1>1. ASSUME confirm' = FALSE PROVE Offered'
  BY <1>1
<1>2. ASSUME confirm' = confirm, verdict' = verdict PROVE Offered'
  BY <1>2
<1>3. ASSUME Restart PROVE Offered'
  BY <1>3 DEF Restart
<1>4. CASE Clicks
  BY <1>1, <1>2, <1>3, <1>4 DEF Clicks, OpenSettings, Close, Closed, Reboot, Go, ShowView,
     WifiClicked, RescanClicked, FetchClicked, CheckClicked, OtaClicked, UpdateClicked,
     DeleteCancel, DeleteConfirm, DeleteClicked, InstallClicked
<1>5. CASE WifiEnds \/ RescanDo \/ Fetch \/ Check
  BY <1>1, <1>2, <1>3, <1>5 DEF WifiEnds, RescanDo, Fetch, FetchStep, FetchReport, Check,
     CheckStep, CheckReport, ShowView, Wild, Reboot
<1>6. CASE Install
  BY <1>1, <1>2, <1>3, <1>6 DEF Install, InstallStep, InstallStarts, InstallEnds, ShowView,
     Wild, Reboot
<1>7. CASE Ota
  <2>1. ASSUME OtaChecking PROVE Offered'
    BY <2>1, ~LockTimesOut DEF OtaChecking, ShowConfirm
  <2>2. ASSUME NEW newer \in BOOLEAN, OtaAnswer(newer) PROVE Offered'
    BY <2>2, ~LockTimesOut, Zenon DEF OtaAnswer, ShowConfirm
  <2>3. CASE UpdateEnds
    BY <1>2, <1>3, <2>3 DEF UpdateEnds, Reboot
  <2> QED
    BY <1>7, <2>1, <2>2, <2>3 DEF Ota
<1>8. CASE UNCHANGED vars
  BY <1>2, <1>8 DEF vars
<1> QED
  BY <1>4, <1>5, <1>6, <1>7, <1>8 DEF Next

LEMMA UpdateStep ==
  ASSUME Offered, [Next]_vars, ota = "idle", ota' = "update"
  PROVE  verdict
<1> USE DEF listVars, panelVars, regVars, catVars, otaVars
<1>1. ~UpdateClicked => ota' # "update"
  <2>1. CASE Clicks
    BY <2>1 DEF Clicks, OpenSettings, Close, Reboot, Restart, Go, WifiClicked, RescanClicked,
                FetchClicked, CheckClicked, OtaClicked, DeleteCancel, DeleteConfirm,
                DeleteClicked, InstallClicked
  <2>2. CASE WifiEnds \/ RescanDo \/ Fetch \/ Check \/ Install
    BY <2>2 DEF WifiEnds, RescanDo, Fetch, FetchStep, FetchReport, Check, CheckStep, CheckReport,
                Install, InstallStep, InstallStarts, InstallEnds, Wild, Reboot, Restart
  <2>3. CASE Ota
    BY <2>3 DEF Ota, OtaChecking, OtaAnswer, UpdateEnds, Reboot, Restart
  <2> QED
    BY <2>1, <2>2, <2>3 DEF Next, vars
<1> QED
  BY <1>1 DEF UpdateClicked, Offered

(* While the reports get the lock, no update starts after a check that     *)
(* found nothing newer.                                                    *)
THEOREM UpdatesAreConfirmed == ASSUME ~LockTimesOut PROVE Spec => UpdateConfirmed
<1>1. Init => Offered
  BY DEF Init, Offered
<1>2. Offered /\ [Next]_vars => [ota = "idle" /\ ota' = "update" => verdict]_vars
  BY UpdateStep
<1>3. Offered /\ [Next]_vars => Offered'
  BY OfferedStep
<1> QED
  BY <1>1, <1>2, <1>3, PTL DEF Spec, UpdateConfirmed
=============================================================================
