---------------------------- MODULE MCBootImage ----------------------------
(* Pages of twelve cells.  The lengths make sections end before, at and      *)
(* behind a page's edge, and images that are short of the partition, fill it *)
(* and exceed it.                                                            *)
EXTENDS BootImage

MCStubs    == {<<0, ARMd, 0, 0, 0, 0>>, <<0, ARMd, 0, 0, 0, 0, 8>>}
MCDtbs     == {<<FDT>>, <<FDT, 6>>}
MCKernels  == {<<7, ARMd>>, <<0, ARMd, 7>>, <<7, ARMd, 0, 0>>, <<7, ARMd, 7, 7, 0>>,
               <<7, ARMd, 0, 7, 0, 7>>,
               [i \in 1 .. 14 |-> IF i = 2 THEN ARMd ELSE i % 2]}
MCRamdisks == {<<LZ4>>, [i \in 1 .. 12 |-> IF i = 1 THEN LZ4 ELSE 5],
               [i \in 1 .. 13 |-> IF i = 1 THEN LZ4 ELSE 0], <<5>>}
MCCmdlines == {<<>>, <<4>>, <<4, 5, 4>>, <<4, 5, 4, 5>>}
=============================================================================
