--------------------------- MODULE RebootFastboot ---------------------------
(***************************************************************************)
(* dc1-reboot-fastboot (internal/rebootfastboot) and what it talks to: the *)
(* boot-mode nibble of WDT_NONRST_REG2, the command at the start of misc   *)
(* (the BCB) and the bootloader that reads both.  One invocation at a time.*)
(***************************************************************************)
EXTENDS Naturals, Sequences

CONSTANT MiscMaxSectors

VARIABLES
    bcb,       \* the command in misc
    nibble,    \* the boot-mode nibble
    memFails,  \* /dev/mem cannot be used, or the register does not take
    misc,      \* sizes of the partitions named misc
    tool,      \* where the tool is
    args,      \* its flags
    mode       \* "on", or where the bootloader went after a reset

register == <<bcb, nibble>>
given    == <<memFails, misc>>
toolVars == <<register, given, tool, args, mode>>

FastbootMode == 3
NoArgs == [dryRun |-> FALSE, noReboot |-> FALSE, misc |-> FALSE]

Commands == {"", "boot-recovery", "boot-fastboot", "other"}
Diverts(cmd) == cmd \in {"boot-recovery", "boot-fastboot"}

ToolTypeOK ==
    /\ bcb \in Commands /\ nibble \in 0 .. 15 /\ memFails \in BOOLEAN
    /\ tool \in {"idle", "resolve", "disarm", "arm", "reboot", "done"}
    /\ args \in [dryRun : BOOLEAN, noReboot : BOOLEAN, misc : BOOLEAN]
    /\ mode \in {"on", "fastboot", "recovery", "linux"}

On == mode = "on"

(* boot_mode_select of LK: both commands of the BCB come before nibble 3. *)
BootMode ==
    CASE nibble = 2 \/ Diverts(bcb) -> "recovery"
      [] nibble = FastbootMode /\ ~Diverts(bcb) -> "fastboot"
      [] OTHER -> "linux"

Exit == tool' = "idle" /\ args' = NoArgs

(* Only root gets past the first line. *)
RunTool ==
    /\ On /\ tool = "idle" /\ tool' = "resolve"
    /\ args' \in [dryRun : BOOLEAN, noReboot : BOOLEAN, misc : BOOLEAN]
    /\ UNCHANGED <<register, given, mode>>

(* ResolveMisc: a name that is not unique, a size that cannot be read or is  *)
(* too large is a warning and no more.  -misc names the device instead.      *)
Resolvable == Len(misc) = 1 /\ misc[1] <= MiscMaxSectors

ResolveMisc ==
    /\ On /\ tool = "resolve"
    /\ tool' = IF args.misc \/ Resolvable THEN "disarm" ELSE "arm"
    /\ UNCHANGED <<register, given, args, mode>>

(* Variant: the command is left in place. *)
DisarmNothing ==
    /\ On /\ tool = "disarm" /\ tool' = "arm"
    /\ UNCHANGED <<register, given, args, mode>>

(* Clear a command that would hide the nibble; any error, a BCB that does    *)
(* not read back clear included, ends the tool before it has armed anything. *)
DisarmBCB ==
    /\ On /\ tool = "disarm"
    /\ \/ /\ tool' = "arm" /\ UNCHANGED args
          /\ bcb' = IF Diverts(bcb) /\ ~args.dryRun THEN "" ELSE bcb
       \/ Exit /\ UNCHANGED bcb
       \/ Exit /\ Diverts(bcb) /\ ~args.dryRun /\ bcb' = ""
    /\ UNCHANGED <<nibble, given, mode>>

(* ArmNibble and armMapping: write and read back, and go no further if the   *)
(* register did not take; -n and -no-reboot end here.                        *)
ArmNibble ==
    /\ On /\ tool = "arm"
    /\ nibble' = IF memFails \/ args.dryRun THEN nibble ELSE FastbootMode
    /\ IF memFails \/ args.dryRun \/ args.noReboot
       THEN Exit ELSE tool' = "reboot" /\ UNCHANGED args
    /\ UNCHANGED <<bcb, given, mode>>

(* sync, then /sbin/reboot or reboot(2); the latter may fail. *)
Reboot ==
    /\ On /\ tool = "reboot"
    /\ \/ mode' = BootMode /\ tool' = "done" /\ args' = NoArgs
       \/ Exit /\ UNCHANGED mode
    /\ UNCHANGED <<register, given>>

ToolStep == ResolveMisc \/ DisarmBCB \/ ArmNibble \/ Reboot
=============================================================================
