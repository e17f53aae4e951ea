-------------------------- MODULE SystemInitProofs --------------------------
(***************************************************************************)
(* For any watchdog, any lease, any number of kernel filesystems and       *)
(* anything sysfs may show: the petter gives up only on a lapsed lease and *)
(* the board is not reset otherwise, a board that means to reach fastboot  *)
(* does, and whoever runs next finds the mounts as they must be.  And on   *)
(* the consoles of a rescue PID 1 never runs two shells on one.            *)
(***************************************************************************)
EXTENDS SystemInit, RescueConsoles, TLAPS

-----------------------------------------------------------------------------
(* The lease. *)

(* rescue() seeds the lease before it arms the deadman. *)
LeaseInv == InRescue \/ deadman => lease \in 0 .. LeaseTicks + 1

LEMMA LeaseInvInit == Init => LeaseInv
  BY DEF Init, LeaseInv, InRescue

LEMMA LeaseInvStep == LeaseInv /\ [Next]_vars => LeaseInv'
<1> SUFFICES ASSUME LeaseInv, [Next]_vars PROVE LeaseInv'
  OBVIOUS
<1> USE SystemInitAssumption
    DEF LeaseInv, InRescue, timer, files, outside, people
<1>1. CASE Pid1 \/ Gadget
  <2>1. CASE StartPetter \/ Check \/ FindRoot \/ Fsck \/ Mount \/ VerifyRoot
    BY <2>1 DEF StartPetter, Check, FindRoot, Fsck, Mount, VerifyRoot, GiveUp, Rescue
  <2>2. CASE Signal \/ Await \/ MoveMount \/ SwitchRoot \/ Rollback
    BY <2>2 DEF Signal, Await, MoveMount, SwitchRoot, Rollback, Rescue
  <2>3. CASE SeedLease \/ ArmDeadman \/ Gadget
    BY <2>3 DEF SeedLease, ArmDeadman, Gadget
  <2> QED
    BY <1>1, <2>1, <2>2, <2>3 DEF Pid1
<1>2. CASE Tool
  BY <1>2 DEF Tool
<1>3. CASE Petter
  BY <1>3 DEF Petter, OpenWatchdog, LoopTop, Decide, ArmFastboot, Pet
<1>4. CASE SystemdOpens \/ SystemdPings \/ RenewLease \/ OperatorLeaves
  BY <1>4 DEF SystemdOpens, SystemdPings, RenewLease, OperatorLeaves
<1>5. CASE Tick
  BY <1>5 DEF Tick
<1>6. CASE UNCHANGED vars
  BY <1>6 DEF vars
<1> QED
  BY <1>1, <1>2, <1>3, <1>4, <1>5, <1>6 DEF Next

(* The petter stops petting only when a lease that was there has run its     *)
(* full length since the last renewal, for every length of the lease: it     *)
(* never decides between the deadman and the lease of rescue()               *)
(* (systeminit.go, watchdog petter).                                         *)
THEOREM PetterWaitsOutTheLease == Spec => GivesUpOnlyOnLapse
<1>1. LeaseInv /\ [Next]_vars
        => [petter = "decide" /\ petter' = "arm" => lease = LeaseTicks + 1]_vars
  <2> SUFFICES ASSUME LeaseInv, Next, petter = "decide", petter' = "arm"
               PROVE  lease = LeaseTicks + 1
    BY DEF vars
  <2>1. Decide
    BY DEF Next, Pid1, Petter, StartPetter, Check, FindRoot, Fsck, Mount, VerifyRoot, Signal,
           Await, MoveMount, SwitchRoot, Rollback, SeedLease, ArmDeadman, Gadget, Tool,
           OpenWatchdog, LoopTop, ArmFastboot, Pet, SystemdOpens, SystemdPings,
           RenewLease, OperatorLeaves, Tick
  <2>2. deadman /\ ~LeaseFresh(lease)
    BY <2>1 DEF Decide
  <2> QED
    BY <2>2, SystemInitAssumption DEF LeaseInv, LeaseFresh
<1> QED
  BY LeaseInvInit, LeaseInvStep, <1>1, PTL DEF Spec, GivesUpOnlyOnLapse

-----------------------------------------------------------------------------
(* The watchdog. *)

(* Who has the timer, by where the petter is: one that sleeps has just       *)
(* petted, one that gives up did so on a lapsed lease, and where there is    *)
(* none (yet, or any more) the watchdog is systemd's, or has been stopped,   *)
(* or nobody has ever opened it; one that still tries has time for its tries.*)
Untaken == owner = "nobody" /\ ~handoff

PetterInv ==
    /\ petter = "asleep" => wdt = WdtTicks
    /\ petter \in {"arm", "parked"} => lapse = LeaseTicks + 1
    /\ petter \in {"none", "opening", "late", "gone"} =>
          Untaken \/ owner = "systemd" \/ wdt = Stopped
    /\ petter = "opening" => wdt \in Nat /\ wdt > 1
    /\ init = "start" => petter = "none" /\ Untaken /\ wdt \in Nat /\ wdt > 1
    /\ init = "signal" => petter # "none"
    /\ NoSpuriousReset

LEMMA PetterInvInit == Init => PetterInv
<1>1. ASSUME Init PROVE wdt \in Nat /\ wdt > 1
  <2>1. wdt \in WdtTicks - BootTicks .. WdtTicks
    BY <1>1 DEF Init
  <2>2. WdtTicks \in Nat /\ BootTicks \in Nat /\ WdtTicks > BootTicks + 1
    BY SystemInitAssumption
  <2> QED
    BY <2>1, <2>2
<1> QED
  BY <1>1 DEF Init, PetterInv, NoSpuriousReset, On, Untaken

LEMMA PetterInvStep == LeaseInv /\ PetterInv /\ [Next]_vars => PetterInv'
<1> SUFFICES ASSUME LeaseInv, PetterInv, [Next]_vars PROVE PetterInv'
  OBVIOUS
<1> USE SystemInitAssumption
    DEF PetterInv, Untaken, NoSpuriousReset, On, told, timer, files, outside, toolVars, people
<1>1. CASE StartPetter
  BY <1>1 DEF StartPetter
<1>2. CASE Check \/ FindRoot \/ Fsck \/ Mount
  BY <1>2 DEF Check, FindRoot, Fsck, Mount, GiveUp, Rescue
<1>3. CASE VerifyRoot
  <2>1. init' # "start" /\ (init' = "signal" => petter # "none")
    BY <1>3 DEF VerifyRoot, GiveUp, Rescue
  <2> QED
    BY <1>3, <2>1 DEF VerifyRoot
<1>4. CASE Signal
  BY <1>4 DEF Signal
<1>5. CASE Await \/ MoveMount \/ SwitchRoot \/ Rollback \/ Gadget
  BY <1>5 DEF Await, MoveMount, SwitchRoot, Rollback, Rescue, Gadget
<1>6. CASE SeedLease \/ ArmDeadman
  BY <1>6 DEF SeedLease, ArmDeadman
<1>7. CASE Tool
  <2>1. UNCHANGED <<init, petter, told, timer>> /\ mode = "on"
    BY <1>7 DEF Tool, RunTool, ToolStep, ResolveMisc, DisarmBCB, ArmNibble, Reboot
  <2>2. mode' = "on" \/ tool' = "done"
    BY <1>7 DEF Tool, RunTool, ToolStep, ResolveMisc, DisarmBCB, ArmNibble, Reboot
  <2> QED
    BY <2>1, <2>2
<1>8. CASE OpenWatchdog
  BY <1>8 DEF OpenWatchdog
<1>9. CASE LoopTop \/ Pet
  BY <1>9 DEF LoopTop, Pet
<1>10. CASE Decide
  <2>1. petter' = "arm" => lapse' = LeaseTicks + 1
    BY <1>10 DEF Decide, LeaseFresh, LeaseInv
  <2> QED
    BY <1>10, <2>1 DEF Decide
<1>11. CASE ArmFastboot
  BY <1>11 DEF ArmFastboot
<1>12. CASE SystemdOpens \/ SystemdPings
  BY <1>12 DEF SystemdOpens, SystemdPings
<1>13. CASE RenewLease \/ OperatorLeaves
  BY <1>13 DEF RenewLease, OperatorLeaves
<1>14. CASE Tick
  <2>1. UNCHANGED <<told, owner, tool>> /\ mode = "on" /\ petter' # "asleep"
    BY <1>14 DEF Tick, Quiet
  <2>2. init' # "start" /\ init' # "signal"
    BY <1>14 DEF Tick, Quiet
  <2>3. wdt = Stopped => wdt' = Stopped
    BY <1>14 DEF Tick
  <2>4. wdt = WdtTicks => wdt' # 0
    BY <1>14 DEF Tick, Stopped
  <2>5. wdt' # 0 => mode' = "on"
    BY <1>14 DEF Tick
  <2>6. petter \in {"none", "opening", "asleep", "parked", "gone"}
    BY <1>14 DEF Tick, Quiet
  <2>7. petter' = CASE petter = "asleep" -> "loop" [] petter = "opening" -> "late" [] OTHER -> petter
    BY <1>14 DEF Tick
  <2>8. petter = "opening" => wdt' # 0 /\ petter' # "opening"
    BY <1>14, <2>7 DEF Tick, Stopped
  <2>9. NoSpuriousReset'
    <3>1. Stopped # 0
      BY DEF Stopped
    <3>2. owner = "systemd" => wdt = WdtTicks
      BY <1>14 DEF Tick, Quiet
    <3> QED
      BY <2>1, <2>3, <2>4, <2>5, <2>6, <2>7, <2>8, <3>1, <3>2
  <2> QED
    BY <2>1, <2>2, <2>3, <2>6, <2>7, <2>8, <2>9
<1>15. CASE UNCHANGED vars
  BY <1>15 DEF vars
<1> QED
  BY <1>1, <1>2, <1>3, <1>4, <1>5, <1>6, <1>7, <1>8, <1>9, <1>10, <1>11, <1>12, <1>13,
     <1>14, <1>15 DEF Next, Pid1, Petter

(* The board is never reset under a boot that is looked after: a reset needs *)
(* a lease that had lapsed when the petter looked, a watchdog that no petter *)
(* could open in its tries, or the fastboot tool, whatever PID 1, petter,    *)
(* systemd and operator do in between and however late the device appears    *)
(* (decide.go:38-44, systeminit.go:330-345, init.c).                         *)
THEOREM NoResetUnderABoot == Spec => []NoSpuriousReset
<1>1. PetterInv => NoSpuriousReset
  BY DEF PetterInv
<1> QED
  BY LeaseInvInit, LeaseInvStep, PetterInvInit, PetterInvStep, <1>1, PTL DEF Spec

-----------------------------------------------------------------------------
(* Fastboot. *)

(* The command in misc cannot hide the nibble, or the tool could not find    *)
(* misc.                                                                     *)
NibbleCounts == ~Diverts(bcb) \/ ~Resolvable

(* Whoever is past arming has armed, and the tool has looked at misc before. *)
ArmedInv ==
    /\ args \in [dryRun : BOOLEAN, noReboot : BOOLEAN, misc : BOOLEAN]
    /\ nibble \in {0, FastbootMode}
    /\ petter = "parked" => memFails \/ nibble = FastbootMode
    /\ tool = "arm" /\ ~args.dryRun => NibbleCounts
    /\ tool = "reboot" => nibble = FastbootMode /\ NibbleCounts
    /\ tool = "done" => ~On

FastbootInv == ArmedInv /\ LandsInFastboot

LEMMA NoArgsType ==
    /\ NoArgs \in [dryRun : BOOLEAN, noReboot : BOOLEAN, misc : BOOLEAN]
    /\ ~NoArgs.dryRun
  BY Zenon DEF NoArgs

LEMMA FastbootInvInit == Init => FastbootInv
<1> SUFFICES ASSUME Init PROVE FastbootInv
  OBVIOUS
<1>1. /\ args = NoArgs /\ nibble = 0 /\ petter = "none" /\ tool = "idle" /\ mode = "on"
  BY DEF Init
<1> QED
  BY <1>1, NoArgsType DEF FastbootInv, ArmedInv, LandsInFastboot, On

LEMMA FastbootInvStep == FastbootInv /\ [Next]_vars => FastbootInv'
<1> SUFFICES ASSUME FastbootInv, [Next]_vars PROVE FastbootInv'
  OBVIOUS
<1> USE DEF FastbootInv, ArmedInv, LandsInFastboot, NibbleCounts, Resolvable, Diverts, On,
            outside, people, toolVars, register, given
<1>1. CASE Pid1 \/ Gadget
  <2>1. UNCHANGED toolVars /\ On
    BY <1>1 DEF Pid1, StartPetter, Check, FindRoot, Fsck, Mount, VerifyRoot, Signal, Await,
                MoveMount, SwitchRoot, Rollback, SeedLease, ArmDeadman, Gadget
  <2>2. petter' = "parked" => petter = "parked"
    BY <1>1 DEF Pid1, StartPetter, Check, FindRoot, Fsck, Mount, VerifyRoot, Signal, Await,
                MoveMount, SwitchRoot, Rollback, SeedLease, ArmDeadman, Gadget
  <2> QED
    BY <2>1, <2>2
<1>2. CASE Tool
  <2> UNCHANGED petter
    BY <1>2 DEF Tool
  <2>1. CASE RunTool
    BY <2>1 DEF RunTool
  <2>2. CASE ResolveMisc
    BY <2>2 DEF ResolveMisc
  <2>3. CASE DisarmBCB
    BY <2>3, NoArgsType DEF DisarmBCB, Exit
  <2>4. CASE ArmNibble
    BY <2>4, NoArgsType DEF ArmNibble, Exit, FastbootMode
  <2>5. CASE Reboot
    <3>1. CASE mode' = BootMode /\ tool' = "done" /\ args' = NoArgs
      <4>1. nibble = 3 /\ NibbleCounts /\ UNCHANGED <<bcb, nibble, memFails, misc>>
        BY <2>5 DEF Reboot, FastbootMode
      <4>2. mode' \in {"recovery", "fastboot", "linux"}
        BY <3>1 DEF BootMode
      <4>3. ~Diverts(bcb) => mode' = "fastboot"
        BY <3>1, <4>1 DEF BootMode, FastbootMode
      <4> QED
        BY <3>1, <4>1, <4>2, <4>3, NoArgsType DEF FastbootMode
    <3>2. CASE Exit /\ UNCHANGED mode
      BY <2>5, <3>2, NoArgsType DEF Reboot, Exit
    <3> QED
      BY <2>5, <3>1, <3>2 DEF Reboot
  <2> QED
    BY <1>2, <2>1, <2>2, <2>3, <2>4, <2>5 DEF Tool, ToolStep
<1>3. CASE OpenWatchdog \/ LoopTop \/ Decide \/ Pet
  BY <1>3 DEF OpenWatchdog, LoopTop, Decide, Pet
<1>4. CASE ArmFastboot
  BY <1>4 DEF ArmFastboot, FastbootMode
<1>5. CASE SystemdOpens \/ SystemdPings \/ RenewLease \/ OperatorLeaves
  BY <1>5 DEF SystemdOpens, SystemdPings, RenewLease, OperatorLeaves
<1>6. CASE Tick
  <2>1. /\ UNCHANGED <<register, given, tool, args>> /\ tool # "done"
        /\ petter' = "parked" => petter = "parked"
    BY <1>6 DEF Tick
  <2>2. mode' = BootMode \/ mode' = "on"
    BY <1>6 DEF Tick
  <2>3. nibble = 3 /\ ~Diverts(bcb) => BootMode = "fastboot"
    BY DEF BootMode, FastbootMode
  <2> QED
    BY <2>1, <2>2, <2>3 DEF FastbootMode
<1>7. CASE UNCHANGED vars
  BY <1>7 DEF vars
<1> QED
  BY <1>1, <1>2, <1>3, <1>4, <1>5, <1>6, <1>7 DEF Next, Petter

(* A board that leaves Linux for fastboot gets there, by the petter or by    *)
(* the tool run at any moment beside it, except where the register does not  *)
(* take or nobody can look at the command in misc                            *)
(* (rebootfastboot.go, armFastboot of the petter).                           *)
THEOREM FastbootIsReached == Spec => []LandsInFastboot
<1>1. FastbootInv => LandsInFastboot
  BY DEF FastbootInv
<1> QED
  BY FastbootInvInit, FastbootInvStep, <1>1, PTL DEF Spec

-----------------------------------------------------------------------------
(* The root filesystem and the mounts. *)

(* What findRoot is willing to choose. *)
IsOurs(d) ==
    /\ d.name = "userdata" /\ d.sectors >= MinUserdataSectors
    /\ ProbeSuperblock(d.sb) = [type |-> "ext4", label |-> "jagar-root"]

(* Whatever sysfs shows, SelectRoot yields only partitions that are ours. *)
LEMMA ChosenIsOurs ==
    ASSUME NEW seen, NEW d \in SelectRoot(ProbeRoots(seen))
    PROVE  IsOurs(d)
<1>1. PICK c \in ProbeRoots(seen) :
        c.device = d /\ c.fs.type = "ext4" /\ c.fs.label = "jagar-root"
  BY DEF SelectRoot
<1>2. PICK p \in ResolveUserdata(seen) : c = [device |-> p, fs |-> ProbeSuperblock(p.sb)]
  BY DEF ProbeRoots
<1>3. p = d /\ ProbeSuperblock(d.sb).type = "ext4" /\ ProbeSuperblock(d.sb).label = "jagar-root"
  BY <1>1, <1>2
<1>4. d.name = "userdata" /\ d.sectors >= MinUserdataSectors
  BY <1>2, <1>3 DEF ResolveUserdata, resolveNamed
<1>5. ProbeSuperblock(d.sb) = [type |-> "ext4", label |-> "jagar-root"]
  BY <1>3 DEF ProbeSuperblock
<1> QED
  BY <1>4, <1>5 DEF IsOurs

(* In the new root are the filesystems that were moved and not yet moved     *)
(* back, and those that could not be.                                        *)
Accounted ==
    /\ inNew = (1 .. moved) \cup refused
    /\ \A i \in refused : i > moved /\ i \in 1 .. KernelFs

(* Where PID 1 is says what is mounted where; what is mounted was chosen by  *)
(* findRoot and, past the look for an init, has one.                         *)
MountInv ==
    /\ init \in {"fsck", "mount", "verify"} \/ mounted => IsOurs(dev)
    /\ mounted /\ init # "verify" => dev.init
    /\ init \in {"verify", "signal", "await", "move", "exec", "userspace", "rollback"} => mounted
    /\ init \in {"start", "check", "find", "wait", "fsck", "mount"} => ~mounted
    /\ init \in {"exec", "userspace"} => moved = KernelFs
    /\ moved # 0 => init \in {"move", "exec", "rollback", "userspace"}
    /\ moved \in 0 .. KernelFs
    /\ refused # {} => init \in {"rollback", "lease", "deadman", "gadget", "shells"}
    /\ Accounted

LEMMA MountInvInit == Init => MountInv
<1> SUFFICES ASSUME Init PROVE MountInv
  OBVIOUS
<1>1. init = "start" /\ ~mounted /\ moved = 0 /\ inNew = {} /\ refused = {}
  BY DEF Init
<1> QED
  BY <1>1, SystemInitAssumption DEF MountInv, Accounted

LEMMA MountInvStep == MountInv /\ [Next]_vars => MountInv'
<1> SUFFICES ASSUME MountInv, [Next]_vars PROVE MountInv'
  OBVIOUS
<1> USE SystemInitAssumption DEF MountInv, root
<1>0. UNCHANGED moves => (Accounted' <=> Accounted) /\ UNCHANGED <<moved, refused>>
  BY DEF moves, Accounted
<1> USE <1>0
<1>1. CASE StartPetter \/ Check
  BY <1>1 DEF StartPetter, Check, Rescue
<1>2. CASE FindRoot
  <2>1. \/ Rescue /\ UNCHANGED dev
        \/ init' = "fsck" /\ \E seen \in Snapshots : dev' \in SelectRoot(ProbeRoots(seen))
        \/ init' = "wait" /\ UNCHANGED dev
    BY <1>2 DEF FindRoot
  <2>2. init = "find" /\ UNCHANGED <<mounted, moves>>
    BY <1>2 DEF FindRoot
  <2> QED
    BY <2>1, <2>2, ChosenIsOurs DEF Rescue
<1>3. CASE Fsck
  BY <1>3 DEF Fsck, GiveUp, Rescue
<1>4. CASE Mount
  BY <1>4 DEF Mount, GiveUp, Rescue
<1>5. CASE VerifyRoot
  <2>1. init = "verify" /\ UNCHANGED moves
    BY <1>5 DEF VerifyRoot
  <2>2. \/ dev.init /\ init' \in {"signal", "move"} /\ UNCHANGED <<dev, mounted>>
        \/ init' = "lease" /\ ~mounted'
    BY <1>5 DEF VerifyRoot, GiveUp, Rescue
  <2> QED
    BY <2>1, <2>2
<1>6. CASE Signal \/ Await \/ SwitchRoot
  BY <1>6 DEF Signal, Await, SwitchRoot
<1>7. CASE MoveMount
  <2>1. Accounted'
    <3>1. CASE UNCHANGED <<moved, inNew, refused>>
      BY <3>1 DEF Accounted
    <3>2. CASE /\ moved < KernelFs /\ moved' = moved + 1 /\ inNew' = inNew \cup {moved + 1}
               /\ UNCHANGED refused /\ refused = {}
      BY <3>2 DEF Accounted
    <3> QED
      BY <1>7, <3>1, <3>2 DEF MoveMount
  <2> QED
    BY <1>7, <2>1 DEF MoveMount
<1>8. CASE Rollback
  <2>1. CASE moved = 0
    BY <1>8, <2>1 DEF Rollback, Rescue
  <2>2. CASE moved # 0
    <3>1. /\ moved' = moved - 1 /\ init' = "rollback" /\ UNCHANGED <<dev, mounted>>
      BY <1>8, <2>2 DEF Rollback
    <3>2. Accounted'
      <4>1. CASE inNew' = inNew \ {moved} /\ UNCHANGED refused
        BY <2>2, <3>1, <4>1 DEF Accounted
      <4>2. CASE refused' = refused \cup {moved} /\ UNCHANGED inNew
        BY <2>2, <3>1, <4>2 DEF Accounted
      <4> QED
        BY <1>8, <2>2, <4>1, <4>2 DEF Rollback
    <3> QED
      BY <1>8, <3>1, <3>2 DEF Rollback
  <2> QED
    BY <2>1, <2>2
<1>9. CASE SeedLease \/ ArmDeadman \/ Gadget
  BY <1>9 DEF SeedLease, ArmDeadman, Gadget
<1>10. CASE Tool \/ Petter
  BY <1>10 DEF Tool, Petter, OpenWatchdog, LoopTop, Decide, ArmFastboot, Pet
<1>11. CASE SystemdOpens \/ SystemdPings \/ RenewLease \/ OperatorLeaves
  BY <1>11 DEF SystemdOpens, SystemdPings, RenewLease, OperatorLeaves
<1>12. CASE Tick
  BY <1>12 DEF Tick
<1>13. CASE UNCHANGED vars
  BY <1>13 DEF vars
<1> QED
  BY <1>1, <1>2, <1>3, <1>4, <1>5, <1>6, <1>7, <1>8, <1>9, <1>10, <1>11, <1>12, <1>13
     DEF Next, Pid1

(* switch_root enters the one partition that is called userdata, is large    *)
(* enough, carries the installer's label and has an init, with all kernel    *)
(* filesystems in it; a rescue has back every one that could be moved back,  *)
(* whichever move failed (systeminit.go:184-243).                            *)
THEOREM RightRootRightMounts == Spec => []MountsRight
<1>1. MountInv => MountsRight
  <2> SUFFICES ASSUME MountInv PROVE MountsRight
    OBVIOUS
  <2>1. init = "userspace" => moved = KernelFs /\ refused = {}
    BY DEF MountInv
  <2>2. init = "lease" \/ InRescue => moved = 0
    BY DEF MountInv, InRescue
  <2>3. inNew = (1 .. moved) \cup refused
    BY DEF MountInv, Accounted
  <2>4. /\ init = "userspace" => inNew = 1 .. KernelFs
        /\ init = "lease" \/ InRescue => inNew = refused
    BY <2>1, <2>2, <2>3
  <2> QED
    BY <2>4 DEF MountInv, MountsRight, IsOurs
<1> QED
  BY MountInvInit, MountInvStep, <1>1, PTL DEF Spec

-----------------------------------------------------------------------------
(* The consoles of a rescue: a second state machine, over variables of its   *)
(* own.                                                                      *)

HelperStates == {"off", "spawn", "up", "ended", "sleep"}
LogStates == {"off", "open", "copy", "sleep"}
KidStates == {"none", "up", "zombie", "reaped"}
Outcomes == {"", "usage", "plan", "refused", "helper", "signal"}

Types ==
    /\ kid \in [Consoles -> KidStates]
    /\ live \in [Consoles -> Nat]
    /\ helper \in [Starters -> HelperStates]
    /\ line \in [Starters -> 0 .. NConsoles]
    /\ log \in [Starters -> LogStates]
    /\ typed \in [at : 0 .. Nowhere, as : Outcomes]

(* What PID 1 remembers of a console says how many shells run there: a pid   *)
(* it takes for running is running, and one it replaces is gone.  Its own    *)
(* helper is on the USB line, which is none of its consoles.                 *)
RemembersRight ==
    /\ \A i \in Consoles : live[i] = IF kid[i] = "up" THEN 1 ELSE 0
    /\ line["pid1"] = 0

ByHandFromUsb ==
    /\ helper["hand"] # "off" => typed.at = 0
    /\ log["hand"] # "off" => typed.at = 0

ConsolesInv == Types /\ RemembersRight /\ ByHandFromUsb

LEMMA ConsolesInvInit == ASSUME ConsolesInit PROVE ConsolesInv
<1>1. kid \in [Consoles -> KidStates] /\ live \in [Consoles -> Nat] /\ RemembersRight
  BY DEF ConsolesInit, KidStates, RemembersRight, Starters
<1>2. /\ helper \in [Starters -> HelperStates] /\ log \in [Starters -> LogStates]
      /\ ByHandFromUsb
  BY DEF ConsolesInit, Starters, HelperStates, LogStates, ByHandFromUsb
<1>3. line \in [Starters -> 0 .. NConsoles]
  <2>1. 0 \in 0 .. NConsoles
    BY ConsolesAssumption
  <2> QED
    BY <2>1 DEF ConsolesInit
<1>4. typed \in [at : 0 .. Nowhere, as : Outcomes]
  <2>1. Nowhere \in 0 .. Nowhere
    BY ConsolesAssumption DEF Nowhere
  <2>2. "" \in Outcomes
    BY DEF Outcomes
  <2> QED
    BY <2>1, <2>2 DEF ConsolesInit
<1> QED
  BY <1>1, <1>2, <1>3, <1>4 DEF ConsolesInv, Types

(* The gate lets a process typed at a shell through only with the helpers'   *)
(* mark, which the shells of PID 1's own consoles do not have.               *)
LEMMA OnlyMarkedHelpers ==
    ASSUME NEW a \in Args, NEW ppid1, NEW marker \in BOOLEAN, Outcome(a, ppid1, marker) = "helper"
    PROVE  marker
  BY DEF Outcome, helperAllowed

LEMMA OutcomeType ==
    ASSUME NEW a \in Args, NEW ppid1 \in BOOLEAN, NEW marker \in BOOLEAN
    PROVE  Outcome(a, ppid1, marker) \in Outcomes
  BY DEF Outcome, Outcomes

LEMMA ConsolesInvStep ==
    ASSUME ConsolesInv, [ConsolesNext]_consoleVars PROVE ConsolesInv'
<1> USE ConsolesAssumption DEF ConsolesInv, Types, RemembersRight, ByHandFromUsb, Starters, Nowhere,
        HelperStates, LogStates, KidStates
<1>1. CASE spawnHelper
  <2>1. PICK roles \in SUBSET {"kmsg", "shell"} :
          /\ log' = [log EXCEPT !["pid1"] = IF "kmsg" \in roles THEN "open" ELSE @]
          /\ helper' = [helper EXCEPT !["pid1"] = IF "shell" \in roles THEN "spawn" ELSE @]
    BY <1>1 DEF spawnHelper
  <2>2. UNCHANGED <<kid, live, line, typed>>
    BY <1>1 DEF spawnHelper
  <2> QED
    BY <2>1, <2>2
<1>2. CASE SpawnShell
  <2>1. at \in Consoles /\ UNCHANGED <<helper, line, log, typed>>
    BY <1>2 DEF SpawnShell
  <2>2. CASE Running(at) /\ UNCHANGED <<kid, live>>
    BY <2>1, <2>2
  <2>3. CASE /\ ~Running(at)
             /\ kid' = [kid EXCEPT ![at] = "up"] /\ live' = [live EXCEPT ![at] = 1 + @]
    <3>1. live[at] = 0
      BY <2>1, <2>3 DEF Running
    <3> QED
      BY <2>1, <2>3, <3>1
  <2>4. CASE /\ ~Running(at)
             /\ kid' = [kid EXCEPT ![at] = "none"] /\ UNCHANGED live
    BY <2>1, <2>4 DEF Running
  <2> QED
    BY <1>2, <2>2, <2>3, <2>4 DEF SpawnShell
<1>3. CASE ReapStrays
  BY <1>3 DEF ReapStrays
<1>4. CASE WakeUp
  BY <1>4 DEF WakeUp
<1>5. CASE Unplug
  BY <1>5 DEF Unplug
<1>6. CASE Rebind
  BY <1>6 DEF Rebind
<1>7. ASSUME NEW h \in Starters, RespawnShell(h) PROVE ConsolesInv'
  BY <1>7 DEF RespawnShell
<1>8. ASSUME NEW h \in Starters, StreamKmsg(h) PROVE ConsolesInv'
  BY <1>8 DEF StreamKmsg
<1>9. ASSUME NEW h \in Starters, UsbShellDies(h) PROVE ConsolesInv'
  BY <1>9 DEF UsbShellDies
<1>10. ASSUME NEW i \in Consoles, ShellDies(i) PROVE ConsolesInv'
  <2>1. kid[i] = "up" /\ live[i] = 1
    BY <1>10 DEF ShellDies
  <2>2. kid' = [kid EXCEPT ![i] = "zombie"] /\ live' = [live EXCEPT ![i] = 0]
    BY <1>10, <2>1 DEF ShellDies
  <2>3. UNCHANGED <<helper, line, log, typed>>
    BY <1>10 DEF ShellDies
  <2> QED
    BY <2>2, <2>3
<1>11. ASSUME NEW sig \in Deadly, Shield(sig) PROVE ConsolesInv'
  BY <1>11 DEF Shield, Outcomes
<1>12. ASSUME NEW i \in 0 .. NConsoles, NEW a \in Args, NEW orphan \in BOOLEAN, Type(i, a, orphan)
       PROVE  ConsolesInv'
  <2> DEFINE out == Outcome(a, orphan, i = 0)
  <2>1. out \in Outcomes
    BY OutcomeType
  <2>2. out = "helper" => i = 0
    BY OnlyMarkedHelpers
  <2>3. /\ typed' = [at |-> IF out = "helper" THEN i ELSE Nowhere, as |-> out]
        /\ IF out = "helper" THEN runHelper("hand", a) ELSE UNCHANGED <<helper, line, log>>
        /\ UNCHANGED <<kid, live>> /\ typed.at = Nowhere
    BY <1>12 DEF Type
  <2> HIDE DEF out
  <2>4. CASE out = "helper"
    <3>1. line' \in [Starters -> 0 .. NConsoles] /\ line'["pid1"] = line["pid1"]
      <4>1. a.helper = "shell" => a.tty \in 0 .. NConsoles
        BY <2>4 DEF out, Outcome, ParseArgs, Args
      <4> QED
        BY <2>3, <2>4, <4>1 DEF runHelper
    <3> QED
      BY <2>1, <2>2, <2>3, <2>4, <3>1 DEF runHelper
  <2>5. CASE out # "helper"
    BY <2>1, <2>3, <2>5
  <2> QED
    BY <2>4, <2>5
<1>13. CASE UNCHANGED consoleVars
  BY <1>13 DEF consoleVars
<1> QED
  BY <1>1, <1>2, <1>3, <1>4, <1>5, <1>6, <1>7, <1>8, <1>9, <1>10, <1>11, <1>12, <1>13
     DEF ConsolesNext, RescueLoop

(* However shells die and whoever reaps them, PID 1's loop never puts a      *)
(* second shell on a console: two on any line, and two writers of the log,   *)
(* need a helper started by hand, and the gate of Main lets that happen only *)
(* from the shell of the USB line (systeminit.go:442-456, decide.go:264-267).*)
THEOREM NeverTwoShells == ConsolesSpec => []OneShellPerConsole
<1>1. ConsolesInv => OneShellPerConsole
  <2> SUFFICES ASSUME ConsolesInv PROVE OneShellPerConsole
    OBVIOUS
  <2> USE DEF ConsolesInv, Types, RemembersRight, ByHandFromUsb
  <2>1. ASSUME NEW i \in 0 .. NConsoles
        PROVE  ShellsOn(i) <= IF line["hand"] = i /\ typed.at = 0 THEN 2 ELSE 1
    <3>1. (IF i \in Consoles THEN live[i] ELSE 0) \in 0 .. IF i = 0 THEN 0 ELSE 1
      BY ConsolesAssumption DEF Consoles
    <3>2. Serves("pid1", i) => i = 0
      BY DEF Serves
    <3>3. Serves("hand", i) => line["hand"] = i /\ typed.at = 0
      BY DEF Serves
    <3> QED
      BY <3>1, <3>2, <3>3 DEF ShellsOn
  <2>2. log["hand"] # "off" => typed.at = 0
    OBVIOUS
  <2> QED
    BY <2>1, <2>2 DEF OneShellPerConsole
<1>2. ConsolesInit => ConsolesInv
  BY ConsolesInvInit
<1>3. ConsolesInv /\ [ConsolesNext]_consoleVars => ConsolesInv'
  BY ConsolesInvStep
<1> QED
  BY <1>1, <1>2, <1>3, PTL DEF ConsolesSpec
=============================================================================
