--------------------------- MODULE MCTouchDialog ----------------------------
(* The real panel, 1200x1600 with raw axes up to 16384.  The first finger    *)
(* reaches a button or a key, the gap under a button, the last column's      *)
(* edge and row 3; the second one stays in one place.                        *)
EXTENDS TouchDialog

Raw(x, y) == [x |-> (x * RawMax) \div W, y |-> (y * RawMax) \div H]

Fingers ==
    [s \in Slots |->
        IF s = 1 THEN {Raw(60, 285), Raw(1150, 1230), Raw(1200, 1345), Raw(1150, 1465), Raw(60, 1345)}
        ELSE {Raw(1110, 80)}]

D(mode, n, buf) == [mode |-> mode, n |-> n, page |-> 0, layer |-> 0, shifted |-> 0, buf |-> buf]
Asked == {D("menu", 7, <<>>), D("info", 25, <<>>), D("text", 0, <<Space, Space>>), D("secret", 0, <<>>)}
=============================================================================
