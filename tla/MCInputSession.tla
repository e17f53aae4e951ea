--------------------------- MODULE MCInputSession ---------------------------
EXTENDS InputSession

Board == <<"keys", "ts", "pen">>
TestList == <<[name |-> "key", dev |-> "keys"], [name |-> "touch", dev |-> "ts"],
              [name |-> "pen", dev |-> "pen"], [name |-> "hall", dev |-> "hall"]>>

Away == [tool |-> None, touch |-> FALSE, stylus |-> FALSE]

Start(ds, d, n, s, p) ==
    [present |-> ds, touching |-> {0}, slot |-> s, pen |-> p,
     frames |-> [e \in Devs |-> IF e = d THEN n ELSE 0]]

(* Three frames of the touchscreen: all lifted, a finger, another one; or    *)
(* two of the pen, whose eraser is on the glass, or whose tip hovers, when   *)
(* the session opens; or a key that never rests.                             *)
StartSet ==
    {Start({"ts", "pen"}, "ts", 3, s, Away) : s \in Slots}
    \cup {Start({"pen"}, "pen", 2, 0, [Away EXCEPT !.tool = t, !.touch = (t = "rubber")])
            : t \in {"pen", "rubber"}}
    \cup {Start({"keys", "ts"}, "keys", Endless, 0, Away), Start({}, "ts", 0, 0, Away)}
=============================================================================
