--------------------------- MODULE MCInstallerInit ---------------------------
(* Units of ten seconds: LK's 31 s are three, the waits of the gate 1 + 2 + 2. *)
EXTENDS InstallerInit

L(is, n) == [is |-> is, n |-> n]
First == <<L("text", 1), L("blank", 0), L("text", 2), L("progress", 140)>>
Files == {<<>>, First, <<L("progress", 40), L("text", 3), L("notANumber", 0)>>}
=============================================================================
