---------------------------- MODULE DialogLayout ----------------------------
(***************************************************************************)
(* The arithmetic of the on-panel dialogs (internal/ask: layout.go,        *)
(* keyboard.go, draw.go): where buttons and keys are drawn, which of them  *)
(* a tap hits, and the text editor.  Pixels are the code's.                *)
(*                                                                         *)
(* A dialog is a record: mode, the number n of options or lines, the page  *)
(* of a menu, and the editor of a text entry (buf, layer, shifted).        *)
(***************************************************************************)
EXTENDS Integers, Sequences, FiniteSets

CONSTANTS
    W, H,      \* the panel
    MenuPage,  \* options per page
    MaxText,   \* longest entry
    Cols       \* columns of the entry box

ASSUME LayoutAssumption == {W, H, MenuPage, MaxText, Cols} \subseteq Nat \ {0}

AtMost(n, bound) == IF n < bound THEN n ELSE bound
AtLeast(n, bound) == IF n > bound THEN n ELSE bound

Box(x, y, w, h) == [x |-> x, y |-> y, w |-> w, h |-> h]

inRect(p, b) == /\ b.x <= p.x /\ p.x < b.x + b.w
                /\ b.y <= p.y /\ p.y < b.y + b.h

Nothing == <<"none">>

-----------------------------------------------------------------------------
(* Menus. *)

Pages(n) == AtLeast((n + MenuPage - 1) \div MenuPage, 1)

(* How many options a page shows. *)
count(page, n) == AtLeast(AtMost(n - page * MenuPage, MenuPage), 0)

buttonY(i) == 220 + i * 154
Button(i) == Box(40, buttonY(i), W - 80, 130)
More == Box(40, 220 + MenuPage * 154 + 20, W - 80, 130)

(* Variant: the option's index on the page, not in the list. *)
menuHitOnPage(d, p) ==
    LET on == {i \in 0 .. count(d.page, d.n) - 1 : inRect(p, Button(i))}
    IN  CASE on # {} -> <<"option", CHOOSE i \in on : \A j \in on : i <= j>>
          [] on = {} /\ Pages(d.n) > 1 /\ inRect(p, More) -> <<"more">>
          [] OTHER -> Nothing

(* The first button under the tap, then MORE if there is more than a page.   *)
menuHit(d, p) ==
    LET on == {i \in 0 .. count(d.page, d.n) - 1 : inRect(p, Button(i))}
    IN  CASE on # {} -> <<"option", d.page * MenuPage + CHOOSE i \in on : \A j \in on : i <= j>>
          [] on = {} /\ Pages(d.n) > 1 /\ inRect(p, More) -> <<"more">>
          [] OTHER -> Nothing

-----------------------------------------------------------------------------
(* Messages. *)

okY == H - 200
OkButton == Box(40, okY, W - 80, 130)

-----------------------------------------------------------------------------
(* The keyboard.  A character is named by the face it is on and its cell;    *)
(* the digits are on every face.                                             *)

cellH == H \div 11
cellW == W \div 10
top == H - 5 * cellH

Char(face, r, c) == <<"char", IF r = 0 THEN "digits" ELSE face, r, c>>

kbRows(layer, shifted) ==
    LET face == IF layer = 1 THEN "symbols" ELSE IF shifted = 1 THEN "upper" ELSE "lower"
    IN  [r \in 0 .. 3 |-> [c \in 0 .. 9 |->
            CASE r = 3 /\ c = 0 -> IF layer = 1 THEN <<"sym">> ELSE <<"shift">>
              [] r = 3 /\ c = 9 -> <<"bs">>
              [] OTHER -> Char(face, r, c)]]

Space == <<"char", "space", 4, 0>>
AtKey(layer) == <<"char", IF layer = 1 THEN "tilde" ELSE "at", 4, 0>>

kbHit(layer, shifted, p) ==
    LET r == (p.y - top) \div cellH
        c == AtMost(p.x \div cellW, 9)
    IN  CASE p.y < top -> Nothing
          [] p.y >= top /\ r < 4 -> kbRows(layer, shifted)[r][c]
          [] p.y >= top /\ r >= 4 ->
                CASE c < 2 -> <<"sym">>
                  [] c \in 2 .. 6 -> Space
                  [] c = 7 -> AtKey(layer)
                  [] OTHER -> <<"ok">>

(* drawKey leaves a margin of four pixels. *)
drawKey(c, r, cells, key) ==
    [box |-> Box(c * cellW + 4, top + r * cellH + 4, cells * cellW - 8, cellH - 8), is |-> key]

drawKeyboard(layer, shifted) ==
    {drawKey(c, r, 1, kbRows(layer, shifted)[r][c]) : r \in 0 .. 3, c \in 0 .. 9}
        \cup {drawKey(0, 4, 2, <<"sym">>), drawKey(2, 4, 5, Space),
              drawKey(7, 4, 1, AtKey(layer)), drawKey(8, 4, 2, <<"ok">>)}

Cancel == Box(W - 140, 30, 100, 100)

(* editor.key: shift lasts for one character, and only one that went in. *)
EditorKey(d, k) ==
    CASE k[1] = "shift" -> [d EXCEPT !.shifted = 1 - @]
      [] k[1] = "sym" -> [d EXCEPT !.layer = 1 - @, !.shifted = 0]
      [] k[1] = "bs" /\ d.buf # <<>> -> [d EXCEPT !.buf = SubSeq(@, 1, Len(@) - 1)]
      [] k[1] = "char" /\ Len(d.buf) < MaxText ->
            [d EXCEPT !.buf = Append(@, k), !.shifted = 0]
      [] OTHER -> d

Star == <<"char", "star", 0, 0>>

(* What the entry box shows: the end of the text, or of its stars. *)
masked(d) == IF d.mode = "secret" THEN [i \in 1 .. Len(d.buf) |-> Star] ELSE d.buf
entryTail(s) == SubSeq(s, AtLeast(Len(s) - Cols, 0) + 1, Len(s))

-----------------------------------------------------------------------------
(* One tap at p: the cancel box comes before the keyboard. *)
Hit(d, p) ==
    CASE d.mode = "menu" -> menuHit(d, p)
      [] d.mode = "info" -> IF inRect(p, OkButton) THEN <<"ok">> ELSE Nothing
      [] OTHER -> IF inRect(p, Cancel) THEN <<"cancel">> ELSE kbHit(d.layer, d.shifted, p)

(* What the dialog has painted that can be tapped. *)
Drawn(d) ==
    CASE d.mode = "menu" ->
            {[box |-> Button(i), is |-> <<"option", d.page * MenuPage + i>>] :
                i \in 0 .. count(d.page, d.n) - 1}
            \cup {m \in {[box |-> More, is |-> <<"more">>]} : Pages(d.n) > 1}
      [] d.mode = "info" -> {[box |-> OkButton, is |-> <<"ok">>]}
      [] OTHER -> drawKeyboard(d.layer, d.shifted) \cup {[box |-> Cancel, is |-> <<"cancel">>]}

Under(d, p) == {k.is : k \in {e \in Drawn(d) : inRect(p, e.box)}}
=============================================================================
