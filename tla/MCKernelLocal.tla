--------------------------- MODULE MCKernelLocal ---------------------------
(* Three kernel builds: the one the device came with, a candidate that      *)
(* works and one that does not boot.                                        *)
EXTENDS KernelLocal

CONSTANTS k0, k1, bad

MCKernels == {k0, k1, bad}
MCGood    == {k0, k1}
=============================================================================
