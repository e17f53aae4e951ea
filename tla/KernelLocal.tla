---------------------------- MODULE KernelLocal ----------------------------
(***************************************************************************)
(* scripts/kernel-local-install.py: a developer's kernel update, as a      *)
(* transaction that must survive a power cut at any point.  `install'      *)
(* records what it is about to do in pending.json, installs the package,   *)
(* lets dc1-boot-sync write and arm the other slot, and stops; `confirm',  *)
(* a unit of the next boot, proves the candidate's slot or restores the    *)
(* previous package.  The boot-time dc1-boot-sync oneshot must not         *)
(* interfere.                                                              *)
(*                                                                         *)
(* A kernel stands for a build: its package with the matching modules, its *)
(* banner, its boot image and its hash.  What the scripts keep in files is *)
(* the record fs; the file system makes changes durable in the order they  *)
(* were made, so a power cut brings back one of the states since the last  *)
(* sync, which are kept in journal.                                        *)
(***************************************************************************)
EXTENDS Bcb

CONSTANTS
    Kernels,      \* kernel builds
    Good,         \* the builds that reach userspace
    Torn,         \* a file, package or image that is only partly written
    NoUpdate,     \* no pending.json
    MaxInstalls,  \* bound: local installs started
    MaxFaults     \* bound: power cuts and failing commands

ASSUME KernelLocalAssumption ==
    /\ Good \subseteq Kernels /\ Good # {}
    /\ Torn \notin Kernels /\ Torn # NoUpdate
    /\ MaxInstalls \in Nat /\ MaxFaults \in Nat

VARIABLES
    block,     \* the A/B block in misc
    image,     \* the boot image of each slot
    running,   \* slot and kernel of this boot; "down": the bootloader is next
    fs,        \* pending.json, the package, the confirm unit, the pause marker
    journal,   \* the values of fs a power cut may bring back
    tool,      \* `install': its step, its candidate, what it saw at the start
    conf,      \* the step of dc1-local-kernel-confirm.service in this boot
    svc,       \* dc1-boot-sync.service in this boot
    masked,    \* it is masked until the next boot
    fresh,     \* pending.json was written in this boot (its boot_id)
    raced,     \* history: the service started between check and mask
    installs, faults

vars == <<block, image, running, fs, journal, tool, conf, svc, masked, fresh,
          raced, installs, faults>>

slots  == <<block, image>>
boot   == <<conf, svc, masked>>
counts == <<installs, faults>>

Updates == [target : Slots, old : Kernels, new : Kernels]

ASSUME RecordAssumption == NoUpdate \notin Updates /\ Torn \notin Updates

Files == [pending : Updates \cup {NoUpdate, Torn}, pkg : Kernels \cup {Torn},
          unit : BOOLEAN, paused : BOOLEAN]

ToolSteps == {"idle", "unit", "busy", "mask", "recheck", "save", "saveSync",
              "apk", "apkEnd", "deploy", "dd", "arm", "verify"}

ConfSteps == {"wait", "read", "restore", "restoreEnd", "pause", "prove",
              "unlink", "sync", "ok", "failed", "skipped"}

TypeOK ==
    /\ block \in Block
    /\ image \in [Slots -> Kernels \cup {Torn}]
    /\ running \in [slot : Slots, kernel : Kernels, up : BOOLEAN]
    /\ fs \in Files /\ fs \in journal /\ journal \subseteq Files
    /\ tool.at \in ToolSteps /\ tool.new \in Kernels
    /\ tool.block \in Block /\ tool.image \in [Slots -> Kernels \cup {Torn}]
    /\ conf \in ConfSteps /\ svc \in {"wait", "active", "done"}
    /\ {masked, fresh, raced} \subseteq BOOLEAN
    /\ installs \in 0 .. MaxInstalls /\ faults \in 0 .. MaxFaults

Selected == ActiveSlot(block)

Sealed(m) == [header |-> TRUE, meta |-> m, crc |-> m]

(* A device in its normal state: slot a selected, running and proven, its   *)
(* kernel installed, and no local kernel ever installed.                    *)
Init ==
    /\ block = Sealed([s \in Slots |-> Pack(IF s = "a" THEN 15 ELSE 14, 0, 1)])
    /\ image \in [Slots -> Good]
    /\ running = [slot |-> "a", kernel |-> image["a"], up |-> TRUE]
    /\ fs = [pending |-> NoUpdate, pkg |-> image["a"], unit |-> FALSE,
             paused |-> FALSE]
    /\ journal = {fs}
    /\ tool = [at |-> "idle", new |-> image["a"], block |-> block, image |-> image]
    /\ conf = "skipped" /\ svc = "wait" /\ masked = FALSE
    /\ fresh = FALSE /\ raced = FALSE
    /\ installs = 0 /\ faults = 0

-----------------------------------------------------------------------------
Goto(s) == tool' = [tool EXCEPT !.at = s]

(* The files become f; with a change still in flight a power cut may also   *)
(* bring back the states of Between.                                        *)
Change(f, Between) == fs' = f /\ journal' = journal \cup Between \cup {f}

Sync == journal' = {fs} /\ UNCHANGED fs

Fault == faults < MaxFaults /\ faults' = faults + 1 /\ UNCHANGED installs

(* Bcb's commands, as the scripts invoke dc1-slotctl. *)
SlotCtl(c) == block' = IF Accepts(block, c) THEN Commanded(block, c) ELSE block

-----------------------------------------------------------------------------
(* install *)

(* The slots whose image unpacks to the running build's banner. *)
RunningSlots == {s \in Slots : image[s] = running.kernel}

(* The builds whose packages authenticate; the banner must be a new one. *)
Candidates == Kernels \ {running.kernel}

(* The checks up to the first change: no update is pending; the running     *)
(* build names one slot, which is selected and proven and holds the         *)
(* installed kernel; the candidate is another build; flock is free.         *)
Begin ==
    /\ running.up /\ tool.at = "idle" /\ installs < MaxInstalls
    /\ conf \in {"wait", "ok", "failed", "skipped"}
    /\ fs.pending = NoUpdate
    /\ RunningSlots = {running.slot}
    /\ Selected = running.slot /\ Proven(StateOf(block, Selected))
    /\ fs.pkg = running.kernel
    /\ \E k \in Candidates :
          tool' = [at |-> "unit", new |-> k, block |-> block, image |-> image]
    /\ installs' = installs + 1
    /\ UNCHANGED <<slots, running, fs, journal, boot, fresh, raced, faults>>

(* Variant: the unit is written but never enabled. *)
EnableUnitForgotten ==
    /\ tool.at = "unit"
    /\ Goto("busy")
    /\ UNCHANGED <<slots, running, fs, journal, boot, fresh, raced, counts>>

(* The confirm unit, and the drop-ins by which dc1-boot-sync requires it. *)
EnableUnit ==
    /\ tool.at = "unit"
    /\ Goto("busy")
    /\ Change([fs EXCEPT !.unit = TRUE], {})
    /\ UNCHANGED <<slots, running, boot, fresh, raced, counts>>

(* systemctl is-active: refuse while the service runs. *)
CheckBusy ==
    /\ tool.at = "busy"
    /\ Goto(IF svc = "active" THEN "idle" ELSE "mask")
    /\ UNCHANGED <<slots, running, fs, journal, boot, fresh, raced, counts>>

(* Variant: the mask is forgotten. *)
MaskForgotten ==
    /\ tool.at = "mask"
    /\ Goto("recheck")
    /\ UNCHANGED <<slots, running, fs, journal, boot, fresh, raced, counts>>

(* systemctl mask --runtime: a service that has started keeps running. *)
Mask ==
    /\ tool.at = "mask"
    /\ Goto("recheck")
    /\ masked' = TRUE
    /\ UNCHANGED <<slots, running, fs, journal, conf, svc, fresh, raced, counts>>

(* Variant: the package is installed without a record of the update. *)
RecheckUnrecorded ==
    /\ tool.at = "recheck"
    /\ Goto("apk")
    /\ UNCHANGED <<slots, running, fs, journal, boot, fresh, raced, counts>>

(* Nothing may have changed since Begin. *)
Recheck ==
    /\ tool.at = "recheck"
    /\ Goto(IF /\ block = tool.block /\ image = tool.image
               /\ fs.pkg = tool.image[running.slot]
            THEN "save" ELSE "idle")
    /\ UNCHANGED <<slots, running, fs, journal, boot, fresh, raced, counts>>

(* save_state: written to a temporary file and renamed; until os.sync the   *)
(* name may be durable and the contents not.                                *)
SaveState ==
    /\ tool.at = "save"
    /\ Goto("saveSync")
    /\ LET u == [target |-> Other(running.slot), old |-> running.kernel,
                 new |-> tool.new]
       IN  Change([fs EXCEPT !.pending = u], {[fs EXCEPT !.pending = Torn]})
    /\ fresh' = TRUE
    /\ UNCHANGED <<slots, running, boot, raced, counts>>

SaveSync ==
    /\ tool.at = "saveSync"
    /\ Goto("apk")
    /\ Sync
    /\ UNCHANGED <<slots, running, boot, fresh, raced, counts>>

(* install_apk: the apk transaction, with its triggers suppressed. *)
InstallApk ==
    /\ \/ tool.at = "apk"    /\ Goto("apkEnd") /\ Change([fs EXCEPT !.pkg = Torn], {})
       \/ tool.at = "apkEnd" /\ Goto("deploy") /\ Change([fs EXCEPT !.pkg = tool.new], {})
    /\ UNCHANGED <<slots, running, boot, fresh, raced, counts>>

(* Variant: the selected slot is the one that is written. *)
DeployStartSelected ==
    /\ tool.at = "deploy"
    /\ Goto("dd") /\ image' = [image EXCEPT ![Selected] = Torn]
    /\ UNCHANGED <<block, running, fs, journal, boot, fresh, raced, counts>>

(* dc1-boot-sync --deploy over the local image: nothing to do if the        *)
(* selected slot has the installed kernel; else dd to the inactive slot.    *)
DeployStart ==
    /\ tool.at = "deploy"
    /\ IF image[Selected] = fs.pkg
       THEN Goto("verify") /\ UNCHANGED image
       ELSE Goto("dd") /\ image' = [image EXCEPT ![Other(Selected)] = Torn]
    /\ UNCHANGED <<block, running, fs, journal, boot, fresh, raced, counts>>

(* The end of dd, sync and the read-back. *)
DeployWritten ==
    /\ tool.at = "dd"
    /\ Goto("arm")
    /\ image' = [image EXCEPT ![Other(Selected)] = tool.new]
    /\ Sync
    /\ UNCHANGED <<block, running, boot, fresh, raced, counts>>

ArmInactive == [op |-> "arm", slot |-> Other(Selected), tries |-> 1]

DeployArm ==
    /\ tool.at = "arm"
    /\ Goto("verify")
    /\ SlotCtl(ArmInactive)
    /\ UNCHANGED <<image, running, fs, journal, boot, fresh, raced, counts>>

(* The deployer is best effort: whatever fails in it, it exits with 0.  A   *)
(* failing arm may have written its block.                                  *)
DeployFails ==
    /\ tool.at \in {"deploy", "dd", "arm"}
    /\ Fault
    /\ Goto("verify")
    /\ IF tool.at = "arm" THEN UNCHANGED block \/ SlotCtl(ArmInactive)
                          ELSE UNCHANGED block
    /\ UNCHANGED <<image, running, fs, journal, boot, fresh, raced>>

(* The final checks decide what the developer is told, and end in os.sync   *)
(* if they pass.                                                            *)
Staged ==
    LET target == Other(running.slot)
    IN  /\ Selected = target
        /\ StateOf(block, target) = [priority |-> 15, tries |-> 1, successful |-> 0]
        /\ StateOf(block, running.slot).successful = 1
        /\ image = [tool.image EXCEPT ![target] = tool.new]

Verify ==
    /\ tool.at = "verify"
    /\ Goto("idle")
    /\ IF Staged THEN Sync ELSE UNCHANGED <<fs, journal>>
    /\ UNCHANGED <<slots, running, boot, fresh, raced, counts>>

(* A command or a check of install fails and it stops where it is; a failed *)
(* apk transaction leaves either package or a mixture.                      *)
InstallStops ==
    /\ tool.at \in {"unit", "busy", "mask", "recheck", "save", "apk", "apkEnd"}
    /\ Fault
    /\ Goto("idle")
    /\ IF tool.at = "apkEnd"
       THEN \E p \in {running.kernel, Torn, tool.new} : Change([fs EXCEPT !.pkg = p], {})
       ELSE UNCHANGED <<fs, journal>>
    /\ UNCHANGED <<slots, running, boot, fresh, raced>>

Install == \/ EnableUnit \/ CheckBusy \/ Mask \/ Recheck \/ SaveState
           \/ SaveSync \/ InstallApk \/ DeployStart \/ DeployWritten
           \/ DeployArm \/ Verify

-----------------------------------------------------------------------------
(* confirm, at boot *)

(* ConditionPathExists=pending.json, then flock. *)
ConfirmStart ==
    /\ running.up /\ conf = "wait"
    /\ conf' = IF fs.pending = NoUpdate THEN "skipped"
               ELSE IF tool.at # "idle" THEN "failed" ELSE "read"
    /\ UNCHANGED <<slots, running, fs, journal, tool, svc, masked, fresh, raced,
                   counts>>

(* A file that is not JSON, this boot's own boot_id, or an unknown build    *)
(* end the confirmation.                                                    *)
ConfirmRead ==
    /\ conf = "read"
    /\ conf' = IF fs.pending = Torn \/ fresh THEN "failed"
               ELSE CASE running.kernel = fs.pending.old -> "restore"
                      [] running.kernel = fs.pending.new -> "prove"
                      [] OTHER -> "failed"
    /\ UNCHANGED <<slots, running, fs, journal, tool, svc, masked, fresh, raced,
                   counts>>

(* install_apk of previous.apk, whose digest was recorded. *)
Restore ==
    /\ \/ conf = "restore" /\ conf' = "restoreEnd" /\ Change([fs EXCEPT !.pkg = Torn], {})
       \/ conf = "restoreEnd" /\ conf' = "pause" /\ Change([fs EXCEPT !.pkg = fs.pending.old], {})
    /\ UNCHANGED <<slots, running, tool, svc, masked, fresh, raced, counts>>

(* /var/lib/dc1/no-auto-update *)
PauseUpdates ==
    /\ conf = "pause"
    /\ conf' = "unlink"
    /\ Change([fs EXCEPT !.paused = TRUE], {})
    /\ UNCHANGED <<slots, running, tool, svc, masked, fresh, raced, counts>>

MarkSelected == [op |-> "mark-successful", slot |-> Selected]

(* Slot, boot image and package are the candidate's. *)
CandidateRuns == /\ Selected = fs.pending.target
                 /\ image[Selected] = fs.pending.new
                 /\ fs.pkg = fs.pending.new

Prove ==
    /\ conf = "prove"
    /\ IF CandidateRuns /\ Accepts(block, MarkSelected)
       THEN conf' = "unlink" /\ SlotCtl(MarkSelected)
       ELSE conf' = "failed" /\ UNCHANGED block
    /\ UNCHANGED <<image, running, fs, journal, tool, svc, masked, fresh, raced,
                   counts>>

(* Variant: pending.json is not removed. *)
UnlinkForgotten ==
    /\ conf = "unlink"
    /\ conf' = "sync"
    /\ UNCHANGED <<slots, running, fs, journal, tool, svc, masked, fresh, raced,
                   counts>>

Unlink ==
    /\ conf = "unlink"
    /\ conf' = "sync"
    /\ Change([fs EXCEPT !.pending = NoUpdate], {})
    /\ UNCHANGED <<slots, running, tool, svc, masked, fresh, raced, counts>>

ConfirmSync ==
    /\ conf = "sync"
    /\ conf' = "ok"
    /\ Sync
    /\ UNCHANGED <<slots, running, tool, svc, masked, fresh, raced, counts>>

(* A backup that has changed, an apk that fails, a filesystem or the SD     *)
(* host missing, a failing mark-successful that may have written its block. *)
ConfirmFails ==
    /\ conf \in {"read", "restore", "restoreEnd", "pause", "prove", "unlink"}
    /\ Fault
    /\ conf' = "failed"
    /\ IF conf = "restoreEnd"
       THEN \E p \in {Torn, fs.pending.old} : Change([fs EXCEPT !.pkg = p], {})
       ELSE UNCHANGED <<fs, journal>>
    /\ \/ UNCHANGED block
       \/ conf = "prove" /\ CandidateRuns /\ SlotCtl(MarkSelected)
    /\ UNCHANGED <<image, running, tool, svc, masked, fresh, raced>>

Confirm == \/ ConfirmStart \/ ConfirmRead \/ Restore \/ PauseUpdates \/ Prove
           \/ Unlink \/ ConfirmSync

-----------------------------------------------------------------------------
(* dc1-boot-sync.service *)

(* systemd starts it once per boot, unless it is masked or the confirm unit *)
(* it requires has failed.                                                  *)
OneshotStart ==
    /\ running.up /\ svc = "wait" /\ ~masked
    /\ conf \in {"ok", "skipped"}
    /\ svc' = "active"
    /\ raced' = (raced \/ tool.at = "mask")
    /\ UNCHANGED <<slots, running, fs, journal, tool, conf, masked, fresh, counts>>

(* In sync it marks the selected slot.  Otherwise it looks for the          *)
(* installed kernel in the published release, which has no local build, and *)
(* leaves everything as it is.                                              *)
Oneshot ==
    /\ svc = "active"
    /\ svc' = "done"
    /\ IF image[Selected] = fs.pkg THEN SlotCtl(MarkSelected) ELSE UNCHANGED block
    /\ UNCHANGED <<image, running, fs, journal, tool, conf, masked, fresh, raced,
                   counts>>

-----------------------------------------------------------------------------
(* Reboots and power cuts. *)

GoDown ==
    /\ running' = [running EXCEPT !.up = FALSE]
    /\ tool' = [tool EXCEPT !.at = "idle"]
    /\ conf' = "skipped" /\ svc' = "done"
    /\ masked' = FALSE /\ fresh' = FALSE
    /\ UNCHANGED <<slots, raced>>

(* systemd-inhibit keeps a shutdown out of install; the owner waits for the *)
(* units of the boot, and a shutdown syncs.                                 *)
UserReboot ==
    /\ running.up /\ tool.at = "idle" /\ svc # "active"
    /\ conf \in {"ok", "failed", "skipped"}
    /\ GoDown
    /\ Sync
    /\ UNCHANGED counts

PowerCut ==
    /\ running.up
    /\ Fault
    /\ GoDown
    /\ fs' \in journal /\ journal' = {fs'}

(* The bootloader hands off; a kernel that is torn or bad dies and the      *)
(* device is back in the bootloader.                                        *)
Boot ==
    /\ ~running.up /\ LKBoots(block)
    /\ LET s == LKSlot(block)
       IN  IF image[s] \in Good
           THEN /\ running' = [slot |-> s, kernel |-> image[s], up |-> TRUE]
                /\ conf' = IF fs.unit THEN "wait" ELSE "skipped"
                /\ svc' = "wait"
           ELSE UNCHANGED <<running, conf, svc>>
    /\ block' = LKAfter(block)
    /\ UNCHANGED <<image, fs, journal, tool, masked, fresh, raced, counts>>

Next == \/ Begin \/ Install \/ DeployFails \/ InstallStops
        \/ Confirm \/ ConfirmFails
        \/ OneshotStart \/ Oneshot
        \/ UserReboot \/ PowerCut \/ Boot

Spec == Init /\ [][Next]_vars

(* Scripts that run go on running, systemd starts its units, the device is  *)
(* powered on again, and its owner reboots it now and then.                 *)
FairSpec == /\ Spec
            /\ WF_vars(Install) /\ WF_vars(Confirm)
            /\ WF_vars(OneshotStart) /\ WF_vars(Oneshot)
            /\ WF_vars(UserReboot) /\ WF_vars(Boot)

-----------------------------------------------------------------------------
(* Properties. *)

(* Where the device ends up if whatever is on trial fails. *)
SettleSlot == IF Proven(StateOf(block, Selected)) THEN Selected ELSE Other(Selected)

(* kernel-local-install.py:484-485, "arms exactly one try": at every point  *)
(* of an install, a confirmation and their failures, the slot the device    *)
(* settles on is proven and holds a kernel that works, unless the service   *)
(* slipped in between the check and the mask.                               *)
AlwaysComesBack ==
    ~raced => /\ Proven(StateOf(block, SettleSlot))
              /\ image[SettleSlot] \in Good

(* kernel-local-install.py:460-461, "A failed confirmation must not be      *)
(* bypassed by the normal boot-sync service marking the merely selected     *)
(* slot successful": a slot becomes proven only in a boot from it, when the *)
(* service has not slipped in between the check that it is idle and its     *)
(* mask (470-474).  Without that proviso it fails.                          *)
ProvesOnlyBootedUnraced ==
    [][\A s \in Slots : /\ ~raced /\ ~Proven(StateOf(block, s))
                        /\ Proven(StateOf(block, s)')
          => running.up /\ running.slot = s]_vars

(* kernel-local-install.py:451, "Install a boot-time verifier before the    *)
(* package or any slot is changed": in every state a power cut can bring    *)
(* back, a changed package or an armed slot comes with the record and the   *)
(* unit that will settle it.                                                *)
VerifierFirst ==
    running.up => \A f \in journal :
        f.pkg # running.kernel \/ Selected # running.slot
            => f.unit /\ f.pending \notin {NoUpdate, Torn}

(* When the oneshot runs, every crash and failure before it has been        *)
(* settled: the installed kernel is the one the selected slot boots, so     *)
(* that there is nothing to download over the developer's slots.            *)
InStep == svc = "active" /\ ~raced => fs.pkg = image[Selected]

(* docs/kernel-development.md:88-97: an update whose record is on the disk  *)
(* is confirmed or rolled back in the end, whatever fails on the way,       *)
(* unless the service slipped in.                                           *)
PendingResolves ==
    (journal = {fs} /\ fs.pending \in Updates) ~> (fs.pending = NoUpdate \/ raced)
=============================================================================
