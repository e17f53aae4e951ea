----------------------------- MODULE MCBootSync -----------------------------
(* Three kernel builds: the one the device came with, a good update and an   *)
(* update that does not boot.                                                *)
EXTENDS BootSync

CONSTANTS k0, k1, bad

MCKernels == {k0, k1, bad}
MCGood    == {k0, k1}
=============================================================================
