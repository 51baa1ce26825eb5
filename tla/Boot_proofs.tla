------------------------------ MODULE Boot_proofs ------------------------------
(***************************************************************************)
(* Proofs about the boot, for any images and any number of files: there is *)
(* always an image to fall back to, a confirmed image is kept, and the     *)
(* files are those of the image that runs.                                 *)
(*                                                                         *)
(* Fallback is not inductive alone: that an update spares the last image   *)
(* known to work needs that what runs is what otadata selects, unless an   *)
(* update is waiting for its restart, and that what came up is healthy.    *)
(***************************************************************************)
EXTENDS Boot, TLAPS

Up == step \in {"shell", "done"}

(* What runs is what is selected, and is healthy once it is up.            *)
Selected ==
  /\ update = "reboot" =>
       step = "done" /\ trial = "new" /\ sel = Other(running) /\ slots[running] \in Healthy
  /\ step \notin {"off", "reset"} /\ update # "reboot" => trial # "new" /\ sel = running
  /\ sel = IF trial = "no" THEN good ELSE Other(good)
  /\ Up => slots[running] \in Healthy

(* An update is under way only where there is no trial.                    *)
Settled ==
  /\ update # "no" => Up
  /\ update = "download" => trial = "no"

(* The files before the one that is next.                                  *)
Unpacked ==
  /\ step \notin {"off", "reset"} =>
       \A f \in Files \ failed : f < at => fs[f] = slots[running]
  /\ step \in {"bringup", "shell", "done"} => at > NFiles

IInv == TypeOK /\ Fallback /\ Selected /\ Settled /\ Unpacked

-----------------------------------------------------------------------------
LEMMA InitInv == Init => IInv
BY BootAssumption
   DEF Init, IInv, TypeOK, Fallback, Selected, Settled, Unpacked, Up, Slots, Files, Images, Other

LEMMA NextInv == IInv /\ [Next]_vars => IInv'
<1> SUFFICES ASSUME IInv, [Next]_vars PROVE IInv'
  OBVIOUS
<1> USE BootAssumption DEF Slots, Files, Images, Other
<1>1. CASE PowerOn
  <2>1. TypeOK'
    BY <1>1 DEF PowerOn, IInv, TypeOK, otaVars
  <2>2. Fallback'
    BY <1>1 DEF PowerOn, IInv, TypeOK, Fallback
  <2>3. Selected' /\ Settled'
    BY <1>1 DEF PowerOn, IInv, TypeOK, Selected, Settled, Up
  <2>4. Unpacked'
    BY <1>1 DEF PowerOn, Unpacked
  <2> QED BY <2>1, <2>2, <2>3, <2>4 DEF IInv
<1>2. CASE Provision
  <2>1. /\ step = "provision" /\ at <= NFiles /\ at' = at + 1
        /\ \/ fs' = fs /\ failed' = failed /\ fs[at] = slots[running]
           \/ fs' = [fs EXCEPT ![at] = slots[running]] /\ failed' = failed
           \/ fs' = [fs EXCEPT ![at] = "part"] /\ failed' = failed \cup {at}
           \/ fs' = fs /\ failed' = failed \cup {at}
        /\ UNCHANGED <<slots, sel, trial, running, step, good, update>>
    BY <1>2 DEF Provision, AlreadyCurrent, otaVars
  <2>2. TypeOK'
    <3>1. /\ at \in Files /\ at' \in 1 .. NFiles + 1
          /\ slots[running] \in Images \cup {"none", "part"}
      BY <2>1 DEF IInv, TypeOK
    <3>2. fs' \in [Files -> Images \cup {"none", "part"}] /\ failed' \subseteq Files
      BY <2>1, <3>1 DEF IInv, TypeOK
    <3> QED BY <2>1, <3>1, <3>2 DEF IInv, TypeOK
  <2>3. Fallback' /\ Selected' /\ Settled'
    BY <2>1 DEF IInv, Fallback, Selected, Settled, Up
  <2>4. ASSUME NEW f \in Files \ failed', f < at'
        PROVE  fs'[f] = slots'[running']
    <3>1. fs \in [Files -> Images \cup {"none", "part"}] /\ at \in Files
      BY <2>1 DEF IInv, TypeOK
    <3>2. CASE f = at
      <4>1. at \notin failed' /\ UNCHANGED <<slots, running>>
        BY <2>1, <2>4, <3>2
      <4>2. fs'[at] = slots[running]
        BY <2>1, <3>1, <4>1
      <4> QED BY <3>2, <4>1, <4>2
    <3>3. CASE f # at
      <4>1. f < at /\ f \in Files \ failed
        BY <2>1, <2>4, <3>1, <3>3
      <4>2. fs'[f] = fs[f]
        BY <2>1, <3>1, <3>3
      <4> QED BY <2>1, <4>1, <4>2 DEF IInv, Unpacked
    <3> QED BY <3>2, <3>3
  <2> QED BY <2>1, <2>2, <2>3, <2>4 DEF IInv, Unpacked
<1>3. CASE Provisioned \/ BringUp \/ Abort
  BY <1>3 DEF Provisioned, BringUp, Abort, otaVars, fileVars,
              IInv, TypeOK, Fallback, Selected, Settled, Unpacked, Up
<1>4. CASE Confirm
  BY <1>4 DEF Confirm, fileVars, IInv, TypeOK, Fallback, Selected, Settled, Unpacked, Up
<1>5. CASE UpdateBegins
  <2>1. /\ Up /\ update = "no" /\ update' = "download" /\ trial = "no" /\ sel = running
        /\ slots' = [slots EXCEPT ![Other(running)] = "part"]
        /\ slots'[running] = slots[running]
        /\ UNCHANGED <<sel, trial, running, step, at, fs, failed, good>>
    BY <1>5 DEF UpdateBegins, fileVars, IInv, TypeOK, Selected, Up
  <2>2. TypeOK'
    BY <2>1 DEF IInv, TypeOK
  <2>3. Fallback' /\ Selected' /\ Settled' /\ Unpacked'
    BY <2>1 DEF IInv, Fallback, Selected, Settled, Unpacked, Up
  <2> QED BY <2>2, <2>3 DEF IInv
<1>6. CASE UpdateFails
  BY <1>6 DEF UpdateFails, otaVars, fileVars, IInv, TypeOK, Fallback, Selected, Settled, Unpacked, Up
<1>7. CASE UpdateEnds
  <2>1. /\ step = "done" /\ sel' = Other(running) /\ trial' = "new" /\ update' = "reboot"
        /\ \E image \in Images : slots' = [slots EXCEPT ![Other(running)] = image]
        /\ slots'[running] = slots[running] /\ slots[running] \in Healthy
        /\ UNCHANGED <<running, step, at, fs, failed, good>>
    <3>1. running # Other(running) /\ running \in Slots /\ slots[running] \in Healthy
      BY <1>7 DEF UpdateEnds, IInv, TypeOK, Selected, Up
    <3>2. PICK image \in Images : slots' = [slots EXCEPT ![Other(running)] = image]
      BY <1>7 DEF UpdateEnds
    <3>3. slots'[running] = slots[running]
      BY <3>1, <3>2 DEF IInv, TypeOK
    <3> QED BY <1>7, <3>1, <3>2, <3>3 DEF UpdateEnds, fileVars
  <2>2. TypeOK'
    <3>1. slots' \in [Slots -> Images \cup {"none", "part"}]
      BY <2>1 DEF IInv, TypeOK
    <3> QED BY <2>1, <3>1 DEF IInv, TypeOK
  <2>3. Other(sel') = running
    BY <2>1 DEF IInv, TypeOK
  <2>4. Fallback'
    <3>1. slots'[Other(sel')] \in Healthy /\ trial' # "no"
      BY <2>1, <2>3
    <3> QED BY <3>1, Zenon DEF Fallback, Other
  <2>5. Selected'
    <3>1. trial = "no" /\ good = running
      BY <1>7, <2>1 DEF UpdateEnds, IInv, Selected, Settled
    <3> QED BY <2>1, <3>1 DEF Selected, Up
  <2>6. Settled' /\ Unpacked'
    BY <2>1 DEF IInv, Settled, Unpacked, Up
  <2> QED BY <2>2, <2>4, <2>5, <2>6 DEF IInv
<1>8. CASE Restart \/ Cut
  BY <1>8 DEF Restart, Cut, otaVars, fileVars, IInv, TypeOK, Fallback, Selected, Settled, Unpacked, Up
<1>9. CASE UNCHANGED vars
  BY <1>9 DEF vars, otaVars, fileVars, IInv, TypeOK, Fallback, Selected, Settled, Unpacked, Up
<1> QED BY <1>1, <1>2, <1>3, <1>4, <1>5, <1>6, <1>7, <1>8, <1>9 DEF Next, Main

-----------------------------------------------------------------------------
THEOREM Invariance == Spec => []IInv
BY InitInv, NextInv, PTL DEF Spec

(* The variables of app_main(), otadata and ota.c keep their types.        *)
THEOREM TypeCorrect == Spec => []TypeOK
<1>1. IInv => TypeOK
  BY DEF IInv
<1> QED BY <1>1, Invariance, PTL

(* Confirming after shell_start() and writing only to the slot that is not *)
(* running always leave an image to come back to.                          *)
THEOREM AlwaysAFallback == Spec => []Fallback
<1>1. IInv => Fallback
  BY DEF IInv
<1> QED BY <1>1, Invariance, PTL

(* provision_builtin_apps() leaves the running image's files behind,       *)
(* whatever another image or a cut left there before.                      *)
THEOREM FilesAreCurrent == Spec => []FilesCurrent
<1>1. IInv => FilesCurrent
  BY BootAssumption DEF IInv, TypeOK, Unpacked, FilesCurrent, Files
<1> QED BY <1>1, Invariance, PTL

(* An image stays from when app_main() confirms it to the next update, and *)
(* one that is not confirmed goes with the next reset.                     *)
THEOREM ImageKept == Spec => []Kept
<1>1. IInv => Kept
  BY DEF IInv, Selected, Kept
<1> QED BY <1>1, Invariance, PTL
=============================================================================
