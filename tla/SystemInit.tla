----------------------------- MODULE SystemInit -----------------------------
(***************************************************************************)
(* PID 1 of the boot initramfs and its watchdog petter.  Two programs have *)
(* this shape: installer/src/system/init.c, which is staged as /init, and  *)
(* its Go port internal/systeminit.  They differ in one decision, handsOff *)
(* below: in front of a systemd root the C init gives the watchdog to      *)
(* systemd before switch_root; the Go port, and the C init in front of any *)
(* other root, keep the petter for ever.                                   *)
(*                                                                         *)
(* The module composes PID 1 and the petter with the choice of the root    *)
(* filesystem (RootFs) and the tool an operator may run to reach fastboot  *)
(* (RebootFastboot); the rescue shells are RescueConsoles.                 *)
(*                                                                         *)
(* Time is counted in pet intervals (10 s).  One interval is long against  *)
(* every step of a process that is not asleep, so time passes only when    *)
(* the petter sleeps, waits for the device or is gone; LK's timer runs out *)
(* after WdtTicks.                                                         *)
(***************************************************************************)
EXTENDS RootFs, RebootFastboot

CONSTANTS
    WdtTicks,     \* LK's ~31 s watchdog, in pet intervals
    BootTicks,    \* how much of it the kernel may use up before PID 1 runs
    LeaseTicks,   \* the rescue lease, in pet intervals
    KernelFs,     \* kernelMounts: how many filesystems are moved, in order
    RootWait,     \* how long findRoot waits for the partition, in intervals
    Snapshots     \* sets of partitions that sysfs may show

ASSUME SystemInitAssumption ==
    /\ WdtTicks \in Nat /\ BootTicks \in Nat /\ WdtTicks > BootTicks + 1
    /\ LeaseTicks \in Nat /\ LeaseTicks > 0
    /\ KernelFs \in Nat /\ KernelFs > 0
    /\ RootWait \in Nat

VARIABLES
    handsOff,  \* init.c in front of a systemd root; never changes
    busybox,   \* /bin/busybox (and boot.sh) are staged; never changes
    init,      \* where PID 1 is
    waited,    \* intervals findRoot has waited
    dev,       \* the partition it has chosen
    mounted,   \* it is mounted at /mnt/root
    written,   \* something has been written to it
    moved,     \* the local moved of boot(): how many have been moved
    inNew,     \* the kernel filesystems that are mounted in the new root
    refused,   \* history: those whose move back has failed
    petter,    \* where the petter is
    handoff,   \* SIGUSR1 has been delivered to the petter's handler
    lapse,     \* history: age of the lease when the petter gave up, or 0
    wdt,       \* intervals left on the hardware timer, or Stopped
    owner,     \* who holds /dev/watchdog
    lease,     \* age of /tmp/wd-lease in intervals, or NoLease
    deadman,   \* /tmp/wd-deadman exists
    operator   \* somebody is attached to a rescue shell

root    == <<waited, dev, mounted, written>>
moves   == <<moved, inNew, refused>>
told    == <<handoff, lapse>>
timer   == <<wdt, owner>>
files   == <<lease, deadman>>
people  == <<handsOff, busybox, operator>>
outside == <<people, toolVars>>
vars    == <<init, root, moves, petter, told, timer, files, outside>>

Stopped == WdtTicks + 1
NoLease == LeaseTicks + 2

InRescue == init \in {"deadman", "gadget", "shells"}

TypeOK ==
    /\ init \in {"start", "check", "find", "wait", "fsck", "mount", "verify", "signal",
                 "await", "move", "exec", "rollback", "lease", "deadman", "gadget",
                 "shells", "userspace"}
    /\ moved \in 0 .. KernelFs /\ waited \in 0 .. RootWait
    /\ {inNew, refused} \subseteq SUBSET (1 .. KernelFs)
    /\ petter \in {"none", "opening", "late", "loop", "decide", "arm", "pet", "asleep",
                   "parked", "gone"}
    /\ {handsOff, busybox, handoff, deadman, mounted, written} \subseteq BOOLEAN
    /\ wdt \in 0 .. Stopped
    /\ owner \in {"nobody", "petter", "systemd"}
    /\ {lease, lapse} \subseteq 0 .. NoLease
    /\ operator \in {"here", "gone"}
    /\ ToolTypeOK

Init ==
    /\ handsOff \in BOOLEAN /\ busybox \in BOOLEAN /\ memFails \in BOOLEAN
    /\ init = "start" /\ moved = 0 /\ inNew = {} /\ refused = {}
    /\ waited = 0 /\ dev = NoDev /\ mounted = FALSE /\ written = FALSE
    /\ petter = "none" /\ handoff = FALSE /\ lapse = 0
    /\ wdt \in WdtTicks - BootTicks .. WdtTicks /\ owner = "nobody"
    /\ lease = NoLease /\ deadman = FALSE
    /\ bcb \in {"", "boot-fastboot", "other"} /\ nibble = 0
    /\ misc \in {<<>>, <<MiscMaxSectors>>}
    /\ tool = "idle" /\ args = NoArgs /\ mode = "on"
    /\ operator = "here"

-----------------------------------------------------------------------------
(* PID 1 fails closed: every error goes to rescue(). *)
Rescue == init' = "lease"

(* proc, sys and dev are mounted and the petter is started, or cannot be. *)
StartPetter ==
    /\ On /\ init = "start" /\ init' = "check"
    /\ petter' \in {"opening", "none"}
    /\ UNCHANGED <<root, moves, told, timer, files, outside>>

(* busybox and boot.sh are present, or there is nothing to run. *)
Check ==
    /\ On /\ init = "check"
    /\ IF busybox THEN init' = "find" ELSE Rescue
    /\ UNCHANGED <<root, moves, petter, told, timer, files, outside>>

(* findRoot: probe what sysfs shows now.  Only a partition that is not there *)
(* (or is not unique, or is too small, or has no usable node) is waited for; *)
(* what is found is judged once.                                             *)
FindRoot ==
    /\ On /\ init = "find"
    /\ \E seen \in Snapshots :
       LET cands == ProbeRoots(seen)
           chosen == SelectRoot(cands)
       IN  \/ cands # {} /\ chosen = {} /\ Rescue /\ UNCHANGED dev
           \/ \E d \in chosen : dev' = d /\ init' = "fsck"
           \/ waited < RootWait /\ init' = "wait" /\ UNCHANGED dev
           \/ waited = RootWait /\ Rescue /\ UNCHANGED dev
    /\ UNCHANGED <<waited, mounted, written, moves, petter, told, timer, files, outside>>

(* mountRoot gives up: the device name goes out of scope. *)
GiveUp == Rescue /\ dev' = NoDev

(* e2fsck -p: not staged or not runnable, or its exit code.  Code 1 and up   *)
(* mean that it had something to correct.                                    *)
Fsck ==
    /\ On /\ init = "fsck"
    /\ \/ init' = "mount" /\ UNCHANGED <<dev, written>>
       \/ \E rc \in {0, 1, 4} :
            /\ IF FsckAcceptable(rc) THEN init' = "mount" /\ UNCHANGED dev ELSE GiveUp
            /\ written' \in {written \/ rc = 1, written \/ rc >= 1}
    /\ UNCHANGED <<waited, mounted, moves, petter, told, timer, files, outside>>

(* A read-write mount: ext4 replays its journal and marks the superblock. *)
Mount ==
    /\ On /\ init = "mount"
    /\ \/ mounted' = TRUE /\ written' = TRUE /\ init' = "verify" /\ UNCHANGED dev
       \/ GiveUp /\ UNCHANGED <<mounted, written>>
    /\ UNCHANGED <<waited, moves, petter, told, timer, files, outside>>

(* The rest of mountRoot: /mnt/root is another filesystem than /, and has an *)
(* executable /sbin/init; otherwise it is unmounted again.                   *)
VerifyRoot ==
    /\ On /\ init = "verify"
    /\ \/ /\ dev.init /\ init' = IF handsOff /\ petter # "none" THEN "signal" ELSE "move"
          /\ UNCHANGED <<dev, mounted>>
       \/ GiveUp /\ mounted' = FALSE
    /\ UNCHANGED <<waited, written, moves, petter, told, timer, files, outside>>

(* kill(g_petter_pid, SIGUSR1).  Before the handler is installed the signal  *)
(* kills the petter; a sleeping petter is woken; anywhere else the flag      *)
(* waits for the top of the loop.                                            *)
Signal ==
    /\ On /\ init = "signal" /\ init' = "await"
    /\ petter' = CASE petter \in {"opening", "late"} -> "gone"
                   [] petter = "asleep"             -> "loop"
                   [] OTHER                         -> petter
    /\ handoff' = (petter \notin {"opening", "late", "gone"})
    /\ UNCHANGED <<root, moves, lapse, timer, files, outside>>

(* PID 1 reaps the petter, or gives up after five seconds: a petter that the *)
(* signal missed on its way into sleep() is still there then.                *)
Await ==
    /\ On /\ init = "await"
    /\ petter \in {"gone", "asleep", "parked"}
    /\ init' = "move"
    /\ UNCHANGED <<root, moves, petter, told, timer, files, outside>>

(* The next of kernelMounts, in order; the first failure ends the loop. *)
MoveMount ==
    /\ On /\ init = "move"
    /\ \/ /\ moved < KernelFs /\ UNCHANGED init
          /\ moved' = moved + 1 /\ inNew' = inNew \cup {moved + 1}
       \/ moved = KernelFs /\ init' = "exec" /\ UNCHANGED <<moved, inNew>>
       \/ moved < KernelFs /\ init' = "rollback" /\ UNCHANGED <<moved, inNew>>
    /\ UNCHANGED <<root, refused, petter, told, timer, files, outside>>

(* exec busybox switch_root: control never comes back, or the exec fails. *)
SwitchRoot ==
    /\ On /\ init = "exec"
    /\ init' \in {"userspace", "rollback"}
    /\ UNCHANGED <<root, moves, petter, told, timer, files, outside>>

(* Variant: the index is taken before moved is decremented. *)
RollbackOffByOne ==
    /\ On /\ init = "rollback"
    /\ IF moved = 0 THEN Rescue /\ UNCHANGED moves
       ELSE /\ moved' = moved - 1 /\ UNCHANGED init
            /\ \/ inNew' = inNew \ {moved + 1} /\ UNCHANGED refused
               \/ refused' = refused \cup {moved + 1} /\ UNCHANGED inNew
    /\ UNCHANGED <<root, petter, told, timer, files, outside>>

(* What has been moved is moved back, last one first.  The error of a move   *)
(* back is dropped, and rescue is entered all the same.                      *)
Rollback ==
    /\ On /\ init = "rollback"
    /\ IF moved = 0 THEN Rescue /\ UNCHANGED moves
       ELSE /\ moved' = moved - 1 /\ UNCHANGED init
            /\ \/ inNew' = inNew \ {moved} /\ UNCHANGED refused
               \/ refused' = refused \cup {moved} /\ UNCHANGED inNew
    /\ UNCHANGED <<root, petter, told, timer, files, outside>>

(* Variant: rescue() arms the deadman over a lease that was never seeded. *)
SeedNoLease ==
    /\ On /\ init = "lease" /\ init' = "deadman"
    /\ UNCHANGED <<root, moves, petter, told, timer, files, outside>>

(* rescue(): seed the lease, then arm the deadman, then the USB gadget. *)
SeedLease ==
    /\ On /\ init = "lease" /\ init' = "deadman"
    /\ lease' = 0
    /\ UNCHANGED <<root, moves, petter, told, timer, deadman, outside>>

ArmDeadman ==
    /\ On /\ init = "deadman" /\ init' = "gadget"
    /\ deadman' = TRUE
    /\ UNCHANGED <<root, moves, petter, told, timer, lease, outside>>

(* A sysfs write of the gadget set-up may hang: no fairness on this step. *)
Gadget ==
    /\ On /\ init = "gadget" /\ init' = "shells"
    /\ UNCHANGED <<root, moves, petter, told, timer, files, outside>>

-----------------------------------------------------------------------------
(* The petter. *)

(* Ten attempts, one a second: together one interval, which Tick lets pass. *)
OpenWatchdog ==
    /\ On /\ petter \in {"opening", "late"}
    /\ \/ petter' = "loop" /\ owner' = "petter" /\ wdt' = WdtTicks
       \/ petter = "late" /\ petter' = "gone" /\ UNCHANGED timer
    /\ UNCHANGED <<init, root, moves, told, files, outside>>

(* Variant: the loop never looks at the hand-over flag. *)
LoopTopDeaf ==
    /\ On /\ petter = "loop" /\ petter' = "decide"
    /\ UNCHANGED <<init, root, moves, told, timer, files, outside>>

(* The top of the loop: a pending hand-over writes 'V' and closes. *)
LoopTop ==
    /\ On /\ petter = "loop"
    /\ IF handoff
       THEN petter' = "gone" /\ owner' = "nobody" /\ wdt' = Stopped
       ELSE petter' = "decide" /\ UNCHANGED timer
    /\ UNCHANGED <<init, root, moves, told, files, outside>>

LeaseFresh(age) == age <= LeaseTicks

(* Variant: the petter pets whatever the lease says. *)
DecidePets ==
    /\ On /\ petter = "decide" /\ petter' = "pet"
    /\ UNCHANGED <<init, root, moves, told, timer, files, outside>>

(* The deadman decides whether to pet. *)
Decide ==
    /\ On /\ petter = "decide"
    /\ IF deadman /\ ~LeaseFresh(lease)
       THEN petter' = "arm" /\ lapse' = lease
       ELSE petter' = "pet" /\ UNCHANGED lapse
    /\ UNCHANGED <<init, root, moves, handoff, timer, files, outside>>

(* The nibble is written, best-effort, before petting stops for good. *)
ArmFastboot ==
    /\ On /\ petter = "arm" /\ petter' = "parked"
    /\ nibble' = IF memFails THEN nibble ELSE FastbootMode
    /\ UNCHANGED <<init, root, moves, told, timer, files, people, bcb, given, tool,
                   args, mode>>

(* Variant: the write does not reach the timer. *)
PetNothing ==
    /\ On /\ petter = "pet" /\ petter' = "asleep"
    /\ UNCHANGED <<init, root, moves, told, timer, files, outside>>

Pet ==
    /\ On /\ petter = "pet" /\ petter' = "asleep"
    /\ wdt' = WdtTicks
    /\ UNCHANGED <<init, root, moves, told, owner, files, outside>>

-----------------------------------------------------------------------------
(* The environment: systemd, the operator and the clock. *)

(* systemd opens the single-open device when it is free and then pings. *)
SystemdOpens ==
    /\ On /\ init = "userspace" /\ handsOff /\ owner = "nobody"
    /\ owner' = "systemd" /\ wdt' = WdtTicks
    /\ UNCHANGED <<init, root, moves, petter, told, files, outside>>

SystemdPings ==
    /\ On /\ owner = "systemd" /\ wdt # WdtTicks
    /\ wdt' = WdtTicks
    /\ UNCHANGED <<init, root, moves, petter, told, owner, files, outside>>

(* Somebody sits at a rescue shell. *)
Attended == operator = "here" /\ init = "shells"

RenewLease ==
    /\ On /\ Attended
    /\ lease' = 0
    /\ UNCHANGED <<init, root, moves, petter, told, timer, deadman, outside>>

OperatorLeaves ==
    /\ On /\ operator = "here" /\ operator' = "gone"
    /\ UNCHANGED <<init, root, moves, petter, told, timer, files, handsOff, busybox,
                   toolVars>>

(* dc1-reboot-fastboot, from a rescue shell or from the installed system. *)
Tool ==
    /\ (RunTool /\ (Attended \/ init = "userspace")) \/ ToolStep
    /\ UNCHANGED <<init, root, moves, petter, told, timer, files, people>>

(* An interval passes: everybody who is awake has done what they had to do.  *)
Quiet ==
    /\ petter \in {"none", "opening", "asleep", "parked", "gone"}
    /\ init \in {"wait", "fsck", "gadget", "shells", "userspace"}
    /\ owner = "systemd" => wdt = WdtTicks
    /\ init = "userspace" /\ handsOff => owner # "nobody"

Tick ==
    /\ On /\ Quiet
    /\ wdt' = IF wdt = Stopped THEN Stopped ELSE wdt - 1
    /\ mode' = IF wdt' = 0 THEN BootMode ELSE "on"
    /\ lease' = IF lease < LeaseTicks + 1 THEN lease + 1 ELSE lease
    /\ petter' = CASE petter = "asleep"  -> "loop"
                   [] petter = "opening" -> "late"
                   [] OTHER              -> petter
    /\ IF init = "wait" THEN init' = "find" /\ waited' = waited + 1 ELSE UNCHANGED <<init, waited>>
    /\ UNCHANGED <<dev, mounted, written, moves, told, owner, deadman, people, register,
                   given, tool, args>>

-----------------------------------------------------------------------------
Pid1  == \/ StartPetter \/ Check \/ FindRoot \/ Fsck \/ Mount \/ VerifyRoot \/ Signal \/ Await
         \/ MoveMount \/ SwitchRoot \/ Rollback \/ SeedLease \/ ArmDeadman

Petter == OpenWatchdog \/ LoopTop \/ Decide \/ ArmFastboot \/ Pet

Next == \/ Pid1 \/ Gadget \/ Tool \/ Petter
        \/ SystemdOpens \/ SystemdPings \/ RenewLease \/ OperatorLeaves \/ Tick

Spec == Init /\ [][Next]_vars

(* The kernel schedules PID 1, the petter and systemd, and time passes.  An  *)
(* operator owes nothing, and a gadget write may hang.                       *)
FairSpec == /\ Spec
            /\ WF_vars(Pid1) /\ WF_vars(Petter)
            /\ WF_vars(SystemdOpens) /\ WF_vars(SystemdPings)
            /\ WF_vars(Tick)

-----------------------------------------------------------------------------
(* Properties. *)

(* The board is never reset while anybody has charge of it.  A reset is the  *)
(* fastboot tool's; or the petter's, which has parked over a lease that had  *)
(* lapsed when it looked; or it has never been opened since LK started it,   *)
(* there being no petter or one that has used up its ten tries.  Anything    *)
(* else is no excuse: not a device that appears late, a long fsck, a gadget  *)
(* that hangs, a hand-over, nor the moment between deadman and lease         *)
(* (decide.go:38-44, systeminit.go:323-345).                                 *)
NoSpuriousReset ==
    ~On => \/ tool = "done"
           \/ petter = "parked" /\ lapse = LeaseTicks + 1
           \/ owner = "nobody" /\ ~handoff /\ petter \in {"none", "gone"}

(* The petter gives up only on a lease that was there and has run its full   *)
(* length since the last renewal: an operator who renews in time is never    *)
(* reset, and neither is one who has just dropped into rescue.               *)
GivesUpOnlyOnLapse ==
    [][petter = "decide" /\ petter' = "arm" => lease = LeaseTicks + 1]_vars

(* A board that leaves Linux for fastboot gets there: the reset of an        *)
(* abandoned rescue, whose nibble must be set before the petting stops       *)
(* ("The hardware reset itself can run no code"), and the reboot of the      *)
(* tool.  What remains is a register that does not take, and a BCB command   *)
(* that the petter never looks at and the tool could not find.               *)
LandsInFastboot ==
    /\ ~On /\ petter = "parked" /\ tool # "done" =>
        mode = "fastboot" \/ memFails \/ Diverts(bcb)
    /\ tool = "done" => mode = "fastboot" \/ (Diverts(bcb) /\ ~Resolvable)

(* Whoever runs next finds the mounts as they must be.  What is mounted at   *)
(* /mnt/root once it has been verified, and so what switch_root enters with  *)
(* all kernel filesystems in it, is the partition called userdata, above the *)
(* size floor, with the label that only the installer's finished image       *)
(* carries, and with an init (systeminit.go:220-243); a rescue has back all  *)
(* of /dev, /proc and /sys that could be moved back, whichever move failed   *)
(* (systeminit.go:184-190).                                                  *)
MountsRight ==
    /\ mounted /\ init # "verify" =>
        /\ dev.name = "userdata" /\ dev.sectors >= MinUserdataSectors /\ dev.init
        /\ ProbeSuperblock(dev.sb) = [type |-> "ext4", label |-> "jagar-root"]
    /\ init = "userspace" => mounted /\ inNew = 1 .. KernelFs
    /\ init = "lease" \/ InRescue => inNew = refused

(* "From here the board stays alive only while someone renews the lease;     *)
(* otherwise it resets": a rescue nobody attends ends in a reset.            *)
AbandonedRescueResets ==
    (deadman /\ operator = "gone") ~> (~On)

(* The same for every rescue that is entered with the watchdog still in the  *)
(* petter's hands: whatever fails before the hand-over, and with a gadget    *)
(* set-up that hangs, an unattended board resets.                            *)
KeptWatchdogResets ==
    (deadman /\ operator = "gone" /\ ~handoff) ~> (~On)

(* The hand-over completes: a systemd root ends up with systemd holding the  *)
(* watchdog, and with no petter keeping a wedged system alive for ever.      *)
SystemdTakesOver ==
    (handsOff /\ init = "userspace") ~> (owner = "systemd" \/ ~On)
=============================================================================
