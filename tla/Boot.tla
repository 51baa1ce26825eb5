---------------------------------- MODULE Boot ----------------------------------
(***************************************************************************)
(* From reset to a running shell: app_main() of main.c, the built-in apps  *)
(* it unpacks to the internal file system, and the confirmation of an      *)
(* image that ota.c has written, with resets at any point in between.      *)
(*                                                                         *)
(* The bootloader and esp_https_ota are external. An update goes to the    *)
(* slot that is not running and is tried once; an image that is reset      *)
(* before it was confirmed is not tried again, its predecessor is.         *)
(*                                                                         *)
(* Left out: NVS, the SD card and the single drivers, which either fail    *)
(* for an image (it is dead) or do not; the display diagnostic and the     *)
(* chord self test, which are not compiled in.                             *)
(***************************************************************************)
EXTENDS Naturals

CONSTANTS
  Healthy,   \* images whose app_main() brings the device up
  Dead,      \* images that fail an ESP_ERROR_CHECK on the way
  First,     \* the image flashed over USB
  NFiles     \* how many files provision_builtin_apps() unpacks

Images == Healthy \cup Dead

ASSUME BootAssumption ==
  First \in Healthy /\ NFiles \in Nat /\ {"none", "part"} \cap Images = {}

VARIABLES
  slots,    \* what ota_0 and ota_1 hold
  sel,      \* the slot otadata selects
  trial,    \* and its state: "no", "new" or "pending" (PENDING_VERIFY)
  running,  \* the slot that was booted
  step,     \* where app_main() is; "off" after a cut and "reset" after an
            \* abort or a restart, until the bootloader starts it
  at,       \* the next file of provision_builtin_apps()
  fs,       \* whose version of each file is on the internal file system
  failed,   \* ghost: the files that could not be written in this boot
  good,     \* ghost: the slot whose image was the last to be confirmed
  update    \* ota_update_task(): "no", "download" or "reboot"

otaVars  == <<slots, sel, trial, running>>
fileVars == <<at, fs, failed>>
vars == <<otaVars, step, fileVars, good, update>>

Slots == {0, 1}
Files == 1 .. NFiles
Other(s) == 1 - s

-----------------------------------------------------------------------------
(* The bootloader; bsp_fs_mount() formats what it cannot mount.            *)
PowerOn ==
  /\ step \in {"off", "reset"} /\ step' = "provision"
  /\ running' = IF trial = "pending" THEN Other(sel) ELSE sel
  /\ sel' = running'
  /\ trial' = IF trial = "new" THEN "pending" ELSE "no"
  /\ at' = 1 /\ failed' = {}
  /\ fs' \in {fs, [f \in Files |-> "none"]}
  /\ UNCHANGED <<slots, good, update>>

(* already_current() compares the content, not just the size.              *)
AlreadyCurrentSize(f) ==   \* mutant: the versions of a file are of one size
  fs[f] \in Images

AlreadyCurrent(f) == fs[f] = slots[running]

(* write_if_changed(): the file is not opened, written in part or written. *)
ProvisionPastEnd ==   \* mutant: one file too many
  /\ step = "provision" /\ at <= NFiles + 1 /\ at' = at + 1
  /\ UNCHANGED <<otaVars, step, fs, failed, good, update>>

Provision ==
  /\ step = "provision" /\ at <= NFiles /\ at' = at + 1
  /\ \/ AlreadyCurrent(at) /\ UNCHANGED <<fs, failed>>
     \/ /\ ~AlreadyCurrent(at)
        /\ \/ fs' = [fs EXCEPT ![at] = slots[running]] /\ UNCHANGED failed
           \/ fs' = [fs EXCEPT ![at] = "part"] /\ failed' = failed \cup {at}
           \/ UNCHANGED fs /\ failed' = failed \cup {at}
  /\ UNCHANGED <<otaVars, step, good, update>>

Provisioned ==
  /\ step = "provision" /\ at > NFiles /\ step' = "bringup"
  /\ UNCHANGED <<otaVars, fileVars, good, update>>

(* From the display to shell_start(), or an abort at any of the checks.    *)
BringUpConfirmed ==   \* mutant: confirmed before anything was brought up
  /\ step = "bringup" /\ step' = IF slots[running] \in Healthy THEN "shell" ELSE step
  /\ trial' = "no"
  /\ UNCHANGED <<slots, sel, running, fileVars, good, update>>

BringUp ==
  /\ step = "bringup" /\ slots[running] \in Healthy /\ step' = "shell"
  /\ UNCHANGED <<otaVars, fileVars, good, update>>

Abort ==
  /\ step \in {"provision", "bringup"} /\ slots[running] \in Dead /\ step' = "reset"
  /\ UNCHANGED <<otaVars, fileVars, good, update>>

(* esp_ota_mark_app_valid_cancel_rollback(); its error is only logged, and *)
(* leaves the image on trial.                                              *)
Confirm ==
  /\ step = "shell" /\ step' = "done"
  /\ \/ trial' = (IF trial = "pending" THEN "no" ELSE trial) /\ good' = running
     \/ UNCHANGED <<trial, good>>
  /\ UNCHANGED <<slots, sel, running, fileVars, update>>

-----------------------------------------------------------------------------
(* ota_update_task(). Begun under an image on trial it is refused; it does *)
(* not end before app_main() does.                                         *)
UpdateBegins ==
  /\ step \in {"shell", "done"} /\ update = "no" /\ trial # "pending"
  /\ update' = "download" /\ slots' = [slots EXCEPT ![Other(running)] = "part"]
  /\ UNCHANGED <<sel, trial, running, step, fileVars, good>>

UpdateFails ==
  /\ update = "download" /\ update' = "no"
  /\ UNCHANGED <<otaVars, step, fileVars, good>>

UpdateEnds ==
  /\ update = "download" /\ step = "done" /\ update' = "reboot"
  /\ \E image \in Images : slots' = [slots EXCEPT ![Other(running)] = image]
  /\ sel' = Other(running) /\ trial' = "new"
  /\ UNCHANGED <<running, step, fileVars, good>>

(* esp_restart(), 2 s later.                                               *)
Restart ==
  /\ update = "reboot" /\ update' = "no" /\ step' = "reset"
  /\ UNCHANGED <<otaVars, fileVars, good>>

(* A panic, or the power goes.                                             *)
Cut ==
  /\ step # "off" /\ step' = "off" /\ update' = "no"
  /\ UNCHANGED <<otaVars, fileVars, good>>

Init ==
  /\ slots = [s \in Slots |-> IF s = 0 THEN First ELSE "none"]
  /\ sel = 0 /\ trial = "no" /\ running = 0 /\ step = "off" /\ update = "no"
  /\ at = 1 /\ fs = [f \in Files |-> "none"] /\ failed = {} /\ good = 0

Main == Provision \/ Provisioned \/ BringUp \/ Abort \/ Confirm
Next == PowerOn \/ Main \/ UpdateBegins \/ UpdateFails \/ UpdateEnds \/ Restart \/ Cut

(* The bootloader starts what was reset, and app_main() goes on.           *)
Spec == Init /\ [][Next]_vars /\ WF_vars(PowerOn \/ Main)

-----------------------------------------------------------------------------
TypeOK ==
  /\ slots \in [Slots -> Images \cup {"none", "part"}]
  /\ {sel, running, good} \subseteq Slots /\ trial \in {"no", "new", "pending"}
  /\ step \in {"off", "reset", "provision", "bringup", "shell", "done"}
  /\ at \in 1 .. NFiles + 1
  /\ fs \in [Files -> Images \cup {"none", "part"}] /\ failed \subseteq Files
  /\ update \in {"no", "download", "reboot"}

(* Whatever was downloaded and whenever the power goes, the slot that the  *)
(* bootloader ends up with after a failed trial holds an image that comes  *)
(* up: app_main() confirms only after shell_start(), and an update never   *)
(* overwrites the last image known to work.                                *)
Fallback == slots[IF trial = "no" THEN sel ELSE Other(sel)] \in Healthy

(* Once the shell is up, the built-in apps are those of the image that     *)
(* runs, after an update as well as after a rollback, except for a file    *)
(* that could not be written.                                              *)
FilesCurrent ==
  step \in {"shell", "done"} => \A f \in Files \ failed : fs[f] = slots[running]

(* From reset to reset, aborts, cuts and failed confirmations included,    *)
(* the device runs the image that was last confirmed, or the one that an   *)
(* update wrote since, and that on trial: what is not confirmed, because   *)
(* it died or because the confirmation failed, never comes to stay, and    *)
(* what is confirmed never goes but for an update.                         *)
Kept ==
  step \notin {"off", "reset"} /\ update # "reboot" =>
    running = IF trial = "no" THEN good ELSE Other(good)

(* Once cuts end the device comes up, and again after every update, a dead *)
(* one included.                                                           *)
Recovers == <>[][~Cut]_vars => []<>(step = "done")
=============================================================================
