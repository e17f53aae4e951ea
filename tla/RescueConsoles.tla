--------------------------- MODULE RescueConsoles ---------------------------
(***************************************************************************)
(* The ways into a failed boot: PID 1's loop over the consoles (rescue()   *)
(* of systeminit.go and init.c), the helper that keeps a shell on the USB  *)
(* serial line (respawnShell), the one that streams the kernel log over it *)
(* (streamKmsg), and the gates that tell a helper from system-init typed   *)
(* at a shell (Main), and the signals PID 1 survives (pid1.Shield).        *)
(* Console 0 is the USB line.  The gadget may be torn down and bound again *)
(* under all of them.                                                      *)
(***************************************************************************)
EXTENDS Naturals, FiniteSets

CONSTANT NConsoles   \* consoles of PID 1's loop

ASSUME ConsolesAssumption == NConsoles \in Nat \ {0}

VARIABLES
    bbox,     \* /bin/busybox is there; without it rescue has no shell
    ttys,     \* consoles that can be opened; 0 while the gadget is bound
    at,       \* what PID 1 does next: the helpers, a console, reaping, sleeping
    kid,      \* what has become of the process whose pid is in kid[i]
    live,     \* shells running on each of PID 1's consoles
    helper,   \* the shell helpers, by who started them
    line,     \* the console each of them was given with -tty
    log,      \* the log helpers, likewise
    typed,    \* the console at which a helper was started by hand, and how the last try ended
    panic     \* PID 1 was killed, and the kernel went with it

consoleVars == <<bbox, ttys, at, kid, live, helper, line, log, typed, panic>>

Consoles == 1 .. NConsoles
Reaping  == NConsoles + 1
Sleeping == NConsoles + 2
SpawnHelpers == 0
Starters == {"pid1", "hand"}
Nowhere  == NConsoles + 1

(* The command line: -helper, -tty (any console, or Nowhere: not given), -n. *)
Roles == {"", "watchdog", "kmsg", "shell", "other"}
Args == [helper : Roles, tty : 0 .. Nowhere, dry : BOOLEAN]

ConsolesTypeOK ==
    /\ bbox \in BOOLEAN /\ ttys \subseteq 0 .. NConsoles /\ at \in 0 .. Sleeping
    /\ kid \in [Consoles -> {"none", "up", "zombie", "reaped"}]
    /\ live \in [Consoles -> Nat]
    /\ helper \in [Starters -> {"off", "spawn", "up", "ended", "sleep"}]
    /\ line \in [Starters -> 0 .. NConsoles]
    /\ log \in [Starters -> {"off", "open", "copy", "sleep"}]
    /\ typed.at \in 0 .. Nowhere /\ typed.as \in {"", "usage", "plan", "refused", "helper", "signal"}
    /\ panic \in BOOLEAN

ConsolesInit ==
    /\ bbox \in BOOLEAN /\ ttys \in SUBSET (0 .. NConsoles) /\ at = SpawnHelpers
    /\ kid = [i \in Consoles |-> "none"] /\ live = [i \in Consoles |-> 0]
    /\ helper = [h \in Starters |-> "off"] /\ line = [h \in Starters |-> 0]
    /\ log = [h \in Starters |-> "off"]
    /\ typed = [at |-> Nowhere, as |-> ""] /\ panic = FALSE

-----------------------------------------------------------------------------
(* The gates. *)

(* The roles there are, and "-tty" with the shell's only. *)
ParseArgs(a) == a.helper # "other" /\ (a.tty # Nowhere <=> a.helper = "shell")

(* Variant: being a child of PID 1 is enough. *)
ChildOfPid1(ppid1, marker) == ppid1

(* A helper's parent is PID 1 and it was marked by it. *)
helperAllowed(ppid1, marker) == ppid1 /\ marker

(* Main of a process that is not PID 1. *)
Outcome(a, ppid1, marker) ==
    CASE ~ParseArgs(a) -> "usage"
      [] ParseArgs(a) /\ a.dry -> "plan"
      [] ParseArgs(a) /\ ~a.dry /\ (a.helper = "" \/ ~helperAllowed(ppid1, marker)) -> "refused"
      [] OTHER -> "helper"

(* runHelper.  A second petter cannot open the watchdog, which is            *)
(* single-open, and ends.                                                    *)
runHelper(h, a) ==
    /\ helper' = IF a.helper = "shell" THEN [helper EXCEPT ![h] = "spawn"] ELSE helper
    /\ line' = IF a.helper = "shell" THEN [line EXCEPT ![h] = a.tty] ELSE line
    /\ log' = IF a.helper = "kmsg" THEN [log EXCEPT ![h] = "open"] ELSE log

-----------------------------------------------------------------------------
(* PID 1. *)

(* Both helpers are started once, marked; either may fail to start. *)
spawnHelper ==
    /\ ~panic /\ at = SpawnHelpers /\ at' = 1
    /\ \E roles \in SUBSET {"kmsg", "shell"} :
          /\ \A r \in roles :
                Outcome([helper |-> r, tty |-> IF r = "shell" THEN 0 ELSE Nowhere,
                         dry |-> FALSE], TRUE, TRUE) = "helper"
          /\ log' = [log EXCEPT !["pid1"] = IF "kmsg" \in roles THEN "open" ELSE @]
          /\ helper' = [helper EXCEPT !["pid1"] = IF "shell" \in roles THEN "spawn" ELSE @]
    /\ UNCHANGED <<bbox, ttys, kid, live, line, typed, panic>>

(* Variant: a wait that fails because the pid has been reaped already is     *)
(* taken for a shell that runs.                                              *)
RunningOrReaped(i) == kid[i] \in {"up", "reaped"}

(* Wait(kid[i], false) returned 0: still running.  An error means it is not. *)
Running(i) == kid[i] = "up"

(* One console: nothing to do, or another shell if the tty and busybox can   *)
(* be had.                                                                   *)
SpawnShell ==
    /\ ~panic /\ at \in Consoles /\ at' = at + 1
    /\ CASE Running(at) -> UNCHANGED <<kid, live>>
         [] ~Running(at) /\ bbox /\ at \in ttys ->
                kid' = [kid EXCEPT ![at] = "up"] /\ live' = [live EXCEPT ![at] = 1 + @]
         [] OTHER -> kid' = [kid EXCEPT ![at] = "none"] /\ UNCHANGED live
    /\ UNCHANGED <<bbox, ttys, helper, line, log, typed, panic>>

(* Wait(-1, false) until nothing is left: it takes the exit statuses of the  *)
(* consoles' shells as well as those of orphans.                             *)
ReapStrays ==
    /\ ~panic /\ at = Reaping /\ at' = Sleeping
    /\ kid' = [i \in Consoles |-> IF kid[i] = "zombie" THEN "reaped" ELSE kid[i]]
    /\ UNCHANGED <<bbox, ttys, live, helper, line, log, typed, panic>>

WakeUp ==
    /\ ~panic /\ at = Sleeping /\ at' = 1
    /\ UNCHANGED <<bbox, ttys, kid, live, helper, line, log, typed, panic>>

-----------------------------------------------------------------------------
(* The helpers. *)

(* The shell helper: spawn, wait for the shell, sleep a second. *)
RespawnShell(h) ==
    /\ ~panic
    /\ \/ /\ helper[h] = "spawn"
          /\ helper' = [helper EXCEPT ![h] = IF bbox /\ line[h] \in ttys THEN "up" ELSE "sleep"]
       \/ helper[h] = "ended" /\ helper' = [helper EXCEPT ![h] = "sleep"]
       \/ helper[h] = "sleep" /\ helper' = [helper EXCEPT ![h] = "spawn"]
    /\ UNCHANGED <<bbox, ttys, at, kid, live, line, log, typed, panic>>

(* The log helper: open both ends, copy until a write fails, sleep, again. *)
StreamKmsg(h) ==
    /\ ~panic
    /\ \/ log[h] = "open" /\ log' = [log EXCEPT ![h] = IF 0 \in ttys THEN "copy" ELSE "sleep"]
       \/ log[h] = "sleep" /\ log' = [log EXCEPT ![h] = "open"]
    /\ UNCHANGED <<bbox, ttys, at, kid, live, helper, line, typed, panic>>

-----------------------------------------------------------------------------
(* What happens to them. *)

(* A shell of PID 1's loop ends, and is a zombie until somebody waits. *)
ShellDies(i) ==
    /\ ~panic /\ live[i] > 0 /\ live' = [live EXCEPT ![i] = @ - 1]
    /\ kid' = [kid EXCEPT ![i] = IF @ = "up" THEN "zombie" ELSE @]
    /\ UNCHANGED <<bbox, ttys, at, helper, line, log, typed, panic>>

UsbShellDies(h) ==
    /\ ~panic /\ helper[h] = "up" /\ helper' = [helper EXCEPT ![h] = "ended"]
    /\ UNCHANGED <<bbox, ttys, at, kid, live, line, log, typed, panic>>

(* The gadget goes away: descriptors on it are dead, the shells on it read   *)
(* the end of the line, copies fail.                                         *)
Unplug ==
    /\ ~panic /\ 0 \in ttys /\ ttys' = ttys \ {0}
    /\ helper' = [h \in Starters |->
                     IF helper[h] = "up" /\ line[h] = 0 THEN "ended" ELSE helper[h]]
    /\ log' = [h \in Starters |-> IF log[h] = "copy" THEN "sleep" ELSE log[h]]
    /\ UNCHANGED <<bbox, at, kid, live, line, typed, panic>>

Rebind ==
    /\ ~panic /\ 0 \notin ttys /\ ttys' = ttys \cup {0}
    /\ UNCHANGED <<bbox, at, kid, live, helper, line, log, typed, panic>>

(* The shell of helper h runs on console i. *)
Serves(h, i) == helper[h] = "up" /\ line[h] = i

HasShell(i) == IF i = 0 THEN \E h \in Starters : Serves(h, 0) ELSE live[i] > 0

(* Someone types system-init at the shell of console i, perhaps from a       *)
(* process that then ends and leaves it to PID 1.  Spawn hands on the whole  *)
(* environment: the shells of a helper have its mark, PID 1's have none.     *)
(* Once a helper has been started so, no more is typed.                      *)
Type(i, a, orphan) ==
    /\ ~panic /\ HasShell(i) /\ typed.at = Nowhere
    /\ LET out == Outcome(a, orphan, i = 0)
       IN  /\ typed' = [at |-> IF out = "helper" THEN i ELSE Nowhere, as |-> out]
           /\ IF out = "helper" THEN runHelper("hand", a) ELSE UNCHANGED <<helper, line, log>>
    /\ UNCHANGED <<bbox, ttys, at, kid, live, panic>>

fatal == {"TERM", "INT", "HUP", "QUIT", "PIPE"}

(* What a Go process dies of unless it is notified of it: the runtime has a  *)
(* handler for every signal, and throws on these four as well.               *)
Deadly == fatal \cup {"ABRT", "ILL", "TRAP", "SYS"}

(* A signal reaches PID 1, from "reboot" or "kill" typed at a shell, or      *)
(* because a VT or the gadget went away under a write.  What Shield has      *)
(* taken is read from a channel and dropped.                                 *)
Shield(sig) ==
    /\ ~panic /\ sig \in Deadly
    /\ typed' = [typed EXCEPT !.as = "signal"] /\ panic' = (sig \notin fatal)
    /\ UNCHANGED <<bbox, ttys, at, kid, live, helper, line, log>>

RescueLoop == spawnHelper \/ SpawnShell \/ ReapStrays \/ WakeUp

ConsolesNext ==
    \/ RescueLoop \/ Unplug \/ Rebind
    \/ \E h \in Starters : RespawnShell(h) \/ StreamKmsg(h) \/ UsbShellDies(h)
    \/ \E i \in Consoles : ShellDies(i)
    \/ \E sig \in Deadly : Shield(sig)
    \/ \E i \in 0 .. NConsoles, a \in Args, orphan \in BOOLEAN : Type(i, a, orphan)

ConsolesSpec == ConsolesInit /\ [][ConsolesNext]_consoleVars

(* Processes are scheduled and their sleeps end. *)
FairConsoles ==
    /\ ConsolesSpec /\ WF_consoleVars(RescueLoop)
    /\ \A h \in Starters : WF_consoleVars(RespawnShell(h)) /\ WF_consoleVars(StreamKmsg(h))

-----------------------------------------------------------------------------
(* Properties. *)

(* How many shells read console i: PID 1's and the helpers'. *)
ShellsOn(i) ==
    (IF i \in Consoles THEN live[i] ELSE 0)
        + (IF Serves("pid1", i) THEN 1 ELSE 0) + (IF Serves("hand", i) THEN 1 ELSE 0)

(* At most one shell reads a console, and one helper writes the log: two     *)
(* would share the keystrokes (systeminit.go:442-456).  PID 1 alone never    *)
(* puts two there, whoever reaped the last shell; a second one takes a       *)
(* helper typed at the shell of the USB line, since the marker keeps out     *)
(* what is typed anywhere else and left to PID 1: "every daemonized process  *)
(* on a normal host is reparented to PID 1 too" (decide.go:264-266).         *)
OneShellPerConsole ==
    /\ \A i \in 0 .. NConsoles :
          ShellsOn(i) <= IF line["hand"] = i /\ typed.at = 0 THEN 2 ELSE 1
    /\ log["hand"] # "off" => typed.at = 0

(* Every way in comes back.  "losing it permanently ... strands the device   *)
(* with no way to drive it" (systeminit.go:405-408): while PID 1 lives every *)
(* console that can be opened gets its shell again whoever reaped the last   *)
(* one, and so does the USB line, across a re-enumeration, if its helper     *)
(* could be started.  "a one-shot streamer would go silent for the rest of   *)
(* the boot" (systeminit.go:383-386): the log resumes after the gadget is    *)
(* bound again.                                                              *)
LinesComeBack ==
    /\ \A i \in 0 .. NConsoles :
          (at # SpawnHelpers /\ bbox /\ i \in ttys /\ (i = 0 => helper["pid1"] # "off"))
              ~> (HasShell(i) \/ i \notin ttys \/ panic)
    /\ (log["pid1"] # "off" /\ 0 \in ttys) ~> (log["pid1"] = "copy" \/ 0 \notin ttys \/ panic)
=============================================================================
