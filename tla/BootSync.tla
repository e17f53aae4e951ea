------------------------------ MODULE BootSync ------------------------------
(***************************************************************************)
(* dc1-boot-sync (device-daylight-jagar/dc1-boot-sync): keeps the boot     *)
(* image in the A/B slots in step with the kernel package.  It runs as two *)
(* processes that nothing serialises: the apk trigger (--deploy) and the   *)
(* boot-time oneshot.  The module composes them with dc1-slotctl and the   *)
(* bootloader (Bcb), the package manager, the rolling release they         *)
(* download from, power cuts and reboots.                                  *)
(*                                                                         *)
(* A kernel stands for a build: the installed /boot/vmlinuz, the inner     *)
(* kernel of a boot image, and its SHA-256 are all named by it.            *)
(***************************************************************************)
EXTENDS Bcb

CONSTANTS
    Kernels,      \* kernel builds
    Good,         \* the builds that reach userspace on this device
    NoKernel,     \* an absent loop-guard marker
    Callers,      \* who runs apk upgrade: "timer" (dc1-update), "owner"
    VarWritable,  \* /var takes the marker; FALSE: a full or failed disk
    MaxUpgrades,  \* bound on package transactions that touch the kernel
    MaxRushed,    \* bound on those of a device that has not settled
    MaxMoves,     \* bound on moves of the rolling release
    MaxFaults     \* bound on power cuts, I/O errors and failed downloads

ASSUME BootSyncAssumption ==
    /\ Good \subseteq Kernels /\ Good # {}
    /\ NoKernel \notin Kernels
    /\ Callers \subseteq {"timer", "owner"}
    /\ VarWritable \in BOOLEAN
    /\ {MaxUpgrades, MaxRushed, MaxMoves, MaxFaults} \subseteq Nat

VARIABLES
    block,      \* the A/B block in misc
    image,      \* image[s]: the kernel of the boot image in slot s, or the
                \*           set of writers that left it incomplete
    phase,      \* "up": userspace runs; "down": the bootloader is next
    running,    \* the slot the bootloader last handed off to
    installed,  \* the kernel package's /boot/vmlinuz
    mark,       \* /var/lib/dc1/boot-sync-attempted
    release,    \* the kernel in the rolling release's jagar-boot.img
    proc,       \* proc[p]: where the two processes are, and their locals
    tested,     \* history: the image in slot s has reached userspace
    rushed,     \* history: upgrades of a device that had not settled
    upgrades, moves, faults   \* budgets spent

device == <<block, image, phase, running, tested>>
vars   == <<block, image, phase, running, installed, mark, release, proc,
            tested, rushed, upgrades, moves, faults>>

Procs == {"trigger", "oneshot"}

PCs == {"off", "start", "active", "kernel", "mark", "markwrite", "rmmark",
        "sums", "fetch", "verify", "slot", "dd", "ddend", "readback",
        "arm", "armwrite", "setmark", "reboot", "done"}

(* A process that holds nothing: not started this boot, or finished. *)
At(pc) == [pc |-> pc, sha |-> NoKernel, slot |-> "a", want |-> NoKernel,
           img |-> NoKernel, blk |-> block]

Torn == SUBSET Procs \ {{}}

TypeOK ==
    /\ block \in Block
    /\ image \in [Slots -> Kernels \cup Torn]
    /\ phase \in {"up", "down"}
    /\ running \in Slots
    /\ installed \in Kernels /\ release \in Kernels
    /\ mark \in Kernels \cup {NoKernel}
    /\ tested \in [Slots -> BOOLEAN]
    /\ rushed \in 0 .. MaxRushed
    /\ upgrades \in 0 .. MaxUpgrades
    /\ moves \in 0 .. MaxMoves
    /\ faults \in 0 .. MaxFaults
    /\ \A p \in Procs :
          /\ proc[p].pc \in PCs
          /\ proc[p].slot \in Slots
          /\ {proc[p].sha, proc[p].want, proc[p].img} \subseteq Kernels \cup {NoKernel}
          /\ proc[p].blk \in Block

(* The installer leaves boot_a with the installed kernel; docs/             *)
(* preloader-recovery.md shows both slots proven, a preferred.              *)
Healthy == [header |-> TRUE,
            meta |-> [s \in Slots |-> IF s = "a" THEN Pack(15, 0, 1) ELSE Pack(14, 0, 1)],
            crc  |-> [s \in Slots |-> IF s = "a" THEN Pack(15, 0, 1) ELSE Pack(14, 0, 1)]]

Init ==
    /\ block = Healthy
    /\ image \in [Slots -> Good]
    /\ installed = image["a"]
    /\ phase = "up" /\ running = "a"
    /\ tested = [s \in Slots |-> TRUE]
    /\ mark = NoKernel
    /\ release = installed
    /\ proc = [trigger |-> At("off"), oneshot |-> At("start")]
    /\ rushed = 0 /\ upgrades = 0 /\ moves = 0 /\ faults = 0

-----------------------------------------------------------------------------
Goto(p, pc)   == proc' = [proc EXCEPT ![p].pc = pc]
Finish(p)     == proc' = [proc EXCEPT ![p] = At("done")]
Env           == <<installed, release, rushed, upgrades, moves>>

Selected == ActiveSlot(block)

(* Nothing is under way: this boot's oneshot has finished and the selected   *)
(* slot is the running one and proven.                                       *)
Settled == /\ proc["oneshot"].pc = "done"
           /\ Selected = running
           /\ Proven(StateOf(block, running))

-----------------------------------------------------------------------------
(* The environment: releases, package transactions, power, the bootloader.   *)

ReleaseMoves ==
    /\ moves < MaxMoves
    /\ \E k \in Kernels \ {release} : release' = k
    /\ moves' = moves + 1
    /\ UNCHANGED <<device, installed, mark, proc, rushed, upgrades, faults>>

(* apk installs the kernel of the release and fires the trigger; the apk     *)
(* database lock keeps one transaction at a time.  dc1-update.service is     *)
(* ordered after dc1-boot-sync.service and waits for nothing else: neither   *)
(* it nor apk asks whether the slot armed last has booted.                   *)
ApkUpgrade(by) ==
    /\ phase = "up" /\ upgrades < MaxUpgrades
    /\ proc["trigger"].pc \in {"off", "done"}
    /\ by = "timer" => proc["oneshot"].pc = "done"
    /\ rushed' = IF Settled THEN rushed ELSE rushed + 1
    /\ rushed' <= MaxRushed
    /\ installed' = release
    /\ proc' = [proc EXCEPT !["trigger"] = At("start")]
    /\ upgrades' = upgrades + 1
    /\ UNCHANGED <<device, mark, release, moves, faults>>

GoDown ==
    /\ phase' = "down"
    /\ proc' = [p \in Procs |-> At("off")]
    /\ UNCHANGED <<block, image, running, tested, mark, Env>>

(* A reboot that cuts a script short is a PowerCut. *)
UserReboot ==
    /\ phase = "up"
    /\ proc["oneshot"].pc = "done" /\ proc["trigger"].pc \in {"off", "done"}
    /\ GoDown
    /\ UNCHANGED faults

PowerCut ==
    /\ phase = "up" /\ faults < MaxFaults
    /\ faults' = faults + 1
    /\ GoDown

(* The bootloader hands off.  A kernel that is torn or bad dies and the      *)
(* device comes back to the bootloader; otherwise userspace starts and with  *)
(* it the oneshot.                                                           *)
Boot ==
    /\ phase = "down" /\ LKBoots(block)
    /\ LET s  == LKSlot(block)
           ok == image[s] \in Good
       IN  /\ running' = s
           /\ block' = LKAfter(block)
           /\ phase' = IF ok THEN "up" ELSE "down"
           /\ tested' = [tested EXCEPT ![s] = @ \/ ok]
           /\ proc' = [trigger |-> At("off"),
                       oneshot |-> IF ok THEN At("start") ELSE At("off")]
    /\ UNCHANGED <<image, mark, Env, faults>>

-----------------------------------------------------------------------------
(* The script's common head: the installed kernel, the active slot, the      *)
(* kernel in it.                                                             *)

Start(p) ==
    /\ proc[p].pc = "start"
    /\ proc' = [proc EXCEPT ![p].pc = "active", ![p].sha = installed]
    /\ UNCHANGED <<device, mark, Env, faults>>

ReadActive(p) ==
    /\ proc[p].pc = "active"
    /\ proc' = [proc EXCEPT ![p].pc = "kernel", ![p].slot = Selected]
    /\ UNCHANGED <<device, mark, Env, faults>>

(* kernel_sha: the kernel of a complete image.  It covers the kernel part    *)
(* only, so what it finds in a torn image may be any kernel, or no gzip      *)
(* stream at all (NoKernel).                                                 *)
KernelSha(s) == IF image[s] \in Kernels THEN {image[s]} ELSE Kernels \cup {NoKernel}

(* Variant: the oneshot has no loop guard. *)
ReadKernelUnguarded(p) ==
    /\ proc[p].pc = "kernel"
    /\ \E booted \in KernelSha(proc[p].slot) :
          CASE booted = NoKernel    -> Finish(p)
            [] booted = proc[p].sha -> IF p = "oneshot" THEN Goto(p, "mark") ELSE Finish(p)
            [] OTHER                -> Goto(p, "sums")
    /\ UNCHANGED <<device, mark, Env, faults>>

(* In sync: the oneshot marks the slot, the trigger has nothing to do.  Out  *)
(* of sync: both deploy, the oneshot only once per installed kernel.         *)
ReadKernel(p) ==
    /\ proc[p].pc = "kernel"
    /\ \E booted \in KernelSha(proc[p].slot) :
          CASE booted = NoKernel    -> Finish(p)
            [] booted = proc[p].sha -> IF p = "oneshot" THEN Goto(p, "mark") ELSE Finish(p)
            [] OTHER                -> IF p = "oneshot" /\ mark = proc[p].sha
                                       THEN Finish(p) ELSE Goto(p, "sums")
    /\ UNCHANGED <<device, mark, Env, faults>>

-----------------------------------------------------------------------------
(* The oneshot in sync: dc1-slotctl mark-successful, then rm -f MARK.        *)

(* Variant: a slot that is in sync is never marked successful. *)
MarkReadSkipped(p) ==
    /\ proc[p].pc = "mark"
    /\ Goto(p, "rmmark")
    /\ UNCHANGED <<device, mark, Env, faults>>

MarkRead(p) ==
    /\ proc[p].pc = "mark"
    /\ LET c == [op |-> "mark-successful", slot |-> proc[p].slot]
       IN  IF Accepts(block, c)
           THEN proc' = [proc EXCEPT ![p].pc = "markwrite", ![p].blk = Commanded(block, c)]
           ELSE Goto(p, "rmmark")
    /\ UNCHANGED <<device, mark, Env, faults>>

MarkWrite(p) ==
    /\ proc[p].pc = "markwrite"
    /\ block' = proc[p].blk
    /\ Goto(p, "rmmark")
    /\ UNCHANGED <<image, phase, running, tested, mark, Env, faults>>

RemoveMark(p) ==
    /\ proc[p].pc = "rmmark"
    /\ mark' = NoKernel
    /\ Finish(p)
    /\ UNCHANGED <<device, Env, faults>>

-----------------------------------------------------------------------------
(* deploy().                                                                 *)

FetchSums(p) ==
    /\ proc[p].pc = "sums"
    /\ proc' = [proc EXCEPT ![p].pc = "fetch", ![p].want = release]
    /\ UNCHANGED <<device, mark, Env, faults>>

FetchImage(p) ==
    /\ proc[p].pc = "fetch"
    /\ proc' = [proc EXCEPT ![p].pc = "verify", ![p].img = release]
    /\ UNCHANGED <<device, mark, Env, faults>>

(* Variant: the inner kernel is not compared with the installed one. *)
ImageVerifiedByHash(p) == proc[p].img = proc[p].want

(* The file hash against SHA256SUMS, then the inner kernel against the       *)
(* installed one.                                                            *)
ImageVerified(p) == /\ proc[p].img = proc[p].want
                    /\ proc[p].img = proc[p].sha

Verify(p) ==
    /\ proc[p].pc = "verify"
    /\ IF ImageVerified(p) THEN Goto(p, "slot") ELSE Finish(p)
    /\ UNCHANGED <<device, mark, Env, faults>>

(* Variant: the active slot is written instead of the inactive one. *)
PickSlotActive(p) ==
    /\ proc[p].pc = "slot"
    /\ proc' = [proc EXCEPT ![p].pc = "dd", ![p].slot = Selected]
    /\ UNCHANGED <<device, mark, Env, faults>>

PickSlot(p) ==
    /\ proc[p].pc = "slot"
    /\ proc' = [proc EXCEPT ![p].pc = "dd", ![p].slot = Other(Selected)]
    /\ UNCHANGED <<device, mark, Env, faults>>

Writers(s) == {p \in Procs : proc[p].pc = "ddend" /\ proc[p].slot = s}

DdStart(p) ==
    /\ proc[p].pc = "dd"
    /\ image' = [image EXCEPT ![proc[p].slot] = Writers(proc[p].slot) \cup {p}]
    /\ tested' = [tested EXCEPT ![proc[p].slot] = FALSE]
    /\ Goto(p, "ddend")
    /\ UNCHANGED <<block, phase, running, mark, Env, faults>>

(* A writer that had the slot to itself leaves its image; bytes of two       *)
(* interleaved writers may stay mixed.                                       *)
DdEnd(p) ==
    /\ proc[p].pc = "ddend"
    /\ \E c \in (IF image[proc[p].slot] = {p} THEN {proc[p].img}
                 ELSE {proc[p].img, Procs}) :
          image' = [image EXCEPT ![proc[p].slot] = c]
    /\ Goto(p, "readback")
    /\ UNCHANGED <<block, phase, running, tested, mark, Env, faults>>

ReadBack(p) ==
    /\ proc[p].pc = "readback"
    /\ IF image[proc[p].slot] = proc[p].img THEN Goto(p, "arm") ELSE Finish(p)
    /\ UNCHANGED <<device, mark, Env, faults>>

ArmRead(p) ==
    /\ proc[p].pc = "arm"
    /\ LET c == [op |-> "arm", slot |-> proc[p].slot, tries |-> 1]
       IN  IF Accepts(block, c)
           THEN proc' = [proc EXCEPT ![p].pc = "armwrite", ![p].blk = Commanded(block, c)]
           ELSE Finish(p)
    /\ UNCHANGED <<device, mark, Env, faults>>

ArmWrite(p) ==
    /\ proc[p].pc = "armwrite"
    /\ block' = proc[p].blk
    /\ Goto(p, "setmark")
    /\ UNCHANGED <<image, phase, running, tested, mark, Env, faults>>

(* Variant: a deploy goes on to mark the slot it has armed. *)
SetMarkAndProve(p) ==
    /\ proc[p].pc = "setmark" /\ VarWritable
    /\ mark' = proc[p].sha
    /\ Goto(p, "mark")
    /\ UNCHANGED <<device, Env, faults>>

SetMark(p) ==
    /\ proc[p].pc = "setmark" /\ VarWritable
    /\ mark' = proc[p].sha
    /\ IF p = "oneshot" THEN Goto(p, "reboot") ELSE Finish(p)
    /\ UNCHANGED <<device, Env, faults>>

OneshotReboot ==
    /\ proc["oneshot"].pc = "reboot"
    /\ GoDown
    /\ UNCHANGED faults

-----------------------------------------------------------------------------
(* Error paths.  Each costs one fault.                                       *)

(* The script returns or exits early: no network, a bad download, an image   *)
(* that is not a dtbswap payload or does not fit, a slot that does not       *)
(* resolve, a dd or a read-back that fails, a dc1-slotctl that cannot write. *)
Fails(p) ==
    /\ proc[p].pc \in {"active", "kernel", "sums", "fetch", "verify", "slot",
                       "dd", "ddend", "readback", "arm", "armwrite"}
    /\ faults < MaxFaults /\ faults' = faults + 1
    /\ Finish(p)
    /\ UNCHANGED <<device, mark, Env>>

(* dc1-slotctl arm reports failure although its block reached misc.          *)
ArmWrittenButFails(p) ==
    /\ proc[p].pc = "armwrite"
    /\ faults < MaxFaults /\ faults' = faults + 1
    /\ block' = proc[p].blk
    /\ Finish(p)
    /\ UNCHANGED <<image, phase, running, tested, mark, Env>>

(* mark-successful is best-effort: its failure is swallowed.                 *)
MarkWriteFails(p) ==
    /\ proc[p].pc = "markwrite"
    /\ faults < MaxFaults /\ faults' = faults + 1
    /\ Goto(p, "rmmark")
    /\ UNCHANGED <<device, mark, Env>>

(* The marker cannot be opened, or is truncated and cannot be written (a     *)
(* full disk): deploy() runs with errexit off, so it carries on and returns  *)
(* success.  On a disk that stays full every write fails, for no fault more. *)
SetMarkFails(p) ==
    /\ proc[p].pc = "setmark"
    /\ IF VarWritable THEN faults < MaxFaults /\ faults' = faults + 1
                      ELSE UNCHANGED faults
    /\ mark' \in {mark, NoKernel}
    /\ IF p = "oneshot" THEN Goto(p, "reboot") ELSE Finish(p)
    /\ UNCHANGED <<device, Env>>

-----------------------------------------------------------------------------
Step(p) ==
    \/ Start(p) \/ ReadActive(p) \/ ReadKernel(p)
    \/ MarkRead(p) \/ MarkWrite(p) \/ RemoveMark(p)
    \/ FetchSums(p) \/ FetchImage(p) \/ Verify(p) \/ PickSlot(p)
    \/ DdStart(p) \/ DdEnd(p) \/ ReadBack(p)
    \/ ArmRead(p) \/ ArmWrite(p) \/ SetMark(p)

Fault(p) == \/ Fails(p) \/ ArmWrittenButFails(p)
            \/ MarkWriteFails(p) \/ SetMarkFails(p)

Next ==
    \/ ReleaseMoves \/ UserReboot \/ PowerCut \/ Boot \/ OneshotReboot
    \/ \E by \in Callers : ApkUpgrade(by)
    \/ \E p \in Procs : Step(p) \/ Fault(p)

Spec == Init /\ [][Next]_vars

(* A started script keeps running, a device that is down is powered on again *)
(* (the watchdog, or its owner), and its owner reboots it now and then.      *)
Fairness == /\ \A p \in Procs : WF_vars(Step(p) \/ SetMarkFails(p))
            /\ WF_vars(OneshotReboot)
            /\ WF_vars(Boot)
            /\ SF_vars(UserReboot)

FairSpec == Spec /\ Fairness

-----------------------------------------------------------------------------
(* Properties. *)

(* The slot the bootloader ends up in when every trial fails. *)
SettleSlot == IF Proven(StateOf(block, Selected)) THEN Selected ELSE Other(Selected)

(* The device can always come back: the slot it settles on is proven and     *)
(* holds an image that has itself reached userspace (dc1-boot-sync:22-23,    *)
(* "The inactive slot is never the one we are running from, so a failed      *)
(* switch falls back to the still-proven slot").                             *)
FallsBack == /\ Proven(StateOf(block, SettleSlot))
             /\ tested[SettleSlot]
             /\ image[SettleSlot] \in Good

(* That holds, whatever the scripts, the bootloader and the power do, until  *)
(* a kernel is installed on a device that has not settled on the one before. *)
SafeFallback == rushed = 0 => FallsBack

(* A slot with a try left to it holds one complete image, which was verified *)
(* against the release and against the installed kernel of its deploy: a     *)
(* download, a moved release or a torn write never gets armed                *)
(* (dc1-boot-sync:38-43).  As long as upgrades wait for one another.         *)
ArmedIsInstalled ==
    rushed = 0 /\ ~Proven(StateOf(block, Selected)) => image[Selected] = installed

(* The oneshot "marks the running slot proven (mark-successful) so a LATER    *)
(* arm has a reliable fallback" (dc1-boot-sync:31-32): a slot becomes proven *)
(* only in a boot from it, although the slot that is marked is the selected  *)
(* one.  As long as upgrades wait for one another: one between the boot and  *)
(* its oneshot has the armed slot marked before it has booted.               *)
ProvesOnlyRunning ==
    [][\A s \in Slots :
          rushed = 0 /\ ~Proven(StateOf(block, s)) /\ Proven(StateOf(block, s)')
              => phase = "up" /\ running = s /\ image[s] \in Good]_vars

(* The loop guard (dc1-boot-sync:34-36): however long the owner keeps        *)
(* rebooting a device whose installed kernel does not boot, the oneshot      *)
(* itself reboots it only finitely often.                                    *)
NoRebootLoop == <>[][~OneshotReboot]_vars

(* What the scripts are for: once the release carries the installed kernel   *)
(* and that kernel works, the device ends up running it, provided nothing    *)
(* failed on the way and no upgrade ran into another: one power cut between  *)
(* the boot of the armed slot and mark-successful retires that slot, and the *)
(* marker then pins the old kernel.                                          *)
Converges ==
    [](faults = 0 /\ rushed = 0) /\ <>[](release = installed /\ installed \in Good)
      => <>[](phase = "up" => image[running] = installed)

(* The A/B update implements the two-kernel abstraction, with the upgrade    *)
(* of a device that has not settled as the step that ends its promise.       *)
Abs == INSTANCE ABSwitch WITH
    stable <- IF rushed > 0 THEN NoKernel ELSE image[SettleSlot],
    trial  <- IF rushed > 0 \/ Proven(StateOf(block, Selected))
              THEN NoKernel ELSE image[Selected],
    live   <- IF rushed > 0 THEN "rushed"
              ELSE IF phase = "down" THEN "off"
              ELSE IF running = SettleSlot THEN "stable" ELSE "trial"

ImplementsABSwitch == Abs!AbsSpec
=============================================================================
