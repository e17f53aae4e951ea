------------------------------ MODULE ABSwitch ------------------------------
(***************************************************************************)
(* What the A/B update promises, without slots, metadata or downloads: the *)
(* device has a stable kernel it can always come back to, and at most one  *)
(* kernel on trial.  The stable kernel is replaced only by a trial kernel  *)
(* that is running.  The promise is one upgrade at a time: an upgrade that *)
(* does not wait for the one before ends it (Rush).                        *)
(***************************************************************************)
CONSTANTS Kernels, NoKernel

VARIABLES
    stable,   \* the kernel the device settles on if the trial fails
    trial,    \* the kernel armed for a try, or NoKernel
    live      \* what is running: "stable", "trial" or "off"; "rushed" once
              \* upgrades ran into one another

absVars == <<stable, trial, live>>

AbsInit == /\ stable \in Kernels
           /\ trial = NoKernel
           /\ live = "stable"

Stage(k) == /\ live = "stable" /\ trial = NoKernel
            /\ trial' = k
            /\ UNCHANGED <<stable, live>>

PowerOff == /\ live \in {"stable", "trial"}
            /\ live' = "off"
            /\ UNCHANGED <<stable, trial>>

BootTrial == /\ live = "off" /\ trial # NoKernel
             /\ live' = "trial"
             /\ UNCHANGED <<stable, trial>>

(* The trial is given up, if there was one, and the stable kernel boots. *)
BootStable == /\ live = "off"
              /\ live' = "stable" /\ trial' = NoKernel
              /\ UNCHANGED stable

Commit == /\ live = "trial"
          /\ stable' = trial /\ trial' = NoKernel /\ live' = "stable"

(* The next upgrade arrives while a kernel is on trial or being staged. *)
Rush == /\ live \in {"stable", "trial"}
        /\ live' = "rushed" /\ stable' = NoKernel /\ trial' = NoKernel

AbsNext == \/ \E k \in Kernels : Stage(k)
           \/ PowerOff \/ BootTrial \/ BootStable \/ Commit \/ Rush

AbsSpec == AbsInit /\ [][AbsNext]_absVars
=============================================================================
