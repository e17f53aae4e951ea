---------------------------- MODULE TouchDialog -----------------------------
(***************************************************************************)
(* One touchscreen and the dialogs that are answered on it, one after the  *)
(* other (internal/ask: touch.go, ask.go, screen.go).  Fingers move and    *)
(* the kernel turns them into event frames whatever the program does; a    *)
(* dialog opens the device, reads frames with the tap detector, and        *)
(* redraws between taps.                                                   *)
(*                                                                         *)
(* The kernel is external: it remembers the last position per slot and     *)
(* leaves out the axes that have not changed, and only a reader that has   *)
(* the device open gets a frame.                                           *)
(***************************************************************************)
EXTENDS DialogLayout

CONSTANTS
    Slots,     \* contacts the panel tracks
    Points,    \* for each slot the raw positions a finger may have
    RawMax,    \* the largest raw coordinate of both axes
    Dialogs,   \* the dialogs that may be asked for
    MaxQueue   \* bound: frames not read yet

ASSUME TouchAssumption ==
    /\ RawMax \in Nat \ {0} /\ MaxQueue \in Nat \ {0}
    /\ \A s \in Slots : Points[s] \subseteq [x : 0 .. RawMax, y : 0 .. RawMax]
    /\ \A d \in Dialogs : d \in [mode : {"menu", "info", "text", "secret"}, n : Nat, page : {0},
                               layer : {0}, shifted : {0}, buf : {d.buf}]

VARIABLES
    panel,   \* how contacts are reported: "tracking", "both" or "button"
    down,    \* slots with a finger on the glass
    kern,    \* the kernel's last raw position per slot
    queue,   \* frames waiting in the open device
    t,       \* touchState
    phase,   \* "shut", "draw" (device open, not yet painted), "up"
    ui,      \* the dialog
    glass,   \* the dialog on the glass
    since    \* since the device was opened: slots that were touched, axes seen,
             \* and the slot of the last press unless a finger was lifted after it

fingers == <<panel, down, kern>>
vars == <<fingers, queue, t, phase, ui, glass, since>>

NoDialog == [mode |-> "none", n |-> 0, page |-> 0, layer |-> 0, shifted |-> 0, buf |-> <<>>]
Idle == [x |-> 0, y |-> 0, down |-> FALSE, wasDown |-> FALSE, tap |-> FALSE]

(* What a frame says of a lift: the finger and where it was, the press the   *)
(* open device had reported last unless a lift came after it, what was on    *)
(* the glass, whether this was the only finger since the open, and whether   *)
(* both axes had been reported as well.                                      *)
NoLift == [of |-> FALSE]

TypeOK ==
    /\ panel \in {"tracking", "both", "button"}
    /\ down \subseteq Slots /\ kern \in [Slots -> [x : 0 .. RawMax, y : 0 .. RawMax]]
    /\ Len(queue) <= MaxQueue
    /\ phase \in {"shut", "draw", "up"}
    /\ ui.page \in 0 .. Pages(ui.n) - 1 /\ Len(ui.buf) <= MaxText
    /\ since.slots \subseteq Slots /\ since.axes \subseteq {"x", "y"}
    /\ since.press \subseteq since.slots

Init ==
    /\ panel \in {"tracking", "both", "button"}
    /\ down = {} /\ kern = [s \in Slots |-> [x |-> 0, y |-> 0]]
    /\ queue = <<>> /\ t = Idle /\ phase = "shut"
    /\ ui = NoDialog /\ glass = NoDialog
    /\ since = [slots |-> {}, axes |-> {}, press |-> {}]

-----------------------------------------------------------------------------
(* The kernel and the fingers (external). *)

(* A frame holds at most one event of each kind, in this order: tracking id, *)
(* the two axes, BTN_TOUCH; and it ends with EV_SYN.  "other" stands for a   *)
(* kind that is left out, and for what the program ignores.                  *)
Event(c, v) == [c |-> c, v |-> v]
If(cond, c, v) == IF cond THEN Event(c, v) ELSE Event("other", 0)

(* Only the axes of a new position that differ from the slot's last one are  *)
(* reported.                                                                 *)
Frame(id, s, p, btn) ==
    <<id, If(p.x # kern[s].x, "x", p.x), If(p.y # kern[s].y, "y", p.y), btn>>

Others(s) == down \ {s}

Deliver(s, events, press, lift) ==
    /\ Len(queue) < MaxQueue
    /\ IF phase = "shut" THEN UNCHANGED <<queue, since>>
       ELSE /\ queue' = Append(queue, [events |-> events, lift |-> lift])
            /\ since' = [slots |-> since.slots \cup {s} \cup down,
                         axes |-> since.axes \cup ({events[2].c, events[3].c} \cap {"x", "y"}),
                         press |-> press]
    /\ UNCHANGED <<panel, t, phase, ui, glass>>

Press(s, p) ==
    /\ s \notin down /\ (panel = "button" => Others(s) = {})
    /\ down' = down \cup {s} /\ kern' = [kern EXCEPT ![s] = p]
    /\ Deliver(s, Frame(If(panel # "button", "id", 1), s, p,
                        If(panel # "tracking" /\ Others(s) = {}, "btn", 1)), {s}, NoLift)

Move(s, p) ==
    /\ s \in down /\ p # kern[s] /\ kern' = [kern EXCEPT ![s] = p]
    /\ Deliver(s, Frame(Event("other", 0), s, p, Event("other", 0)), since.press, NoLift)
    /\ UNCHANGED down

Lift(s) ==
    /\ s \in down /\ down' = down \ {s} /\ UNCHANGED kern
    /\ Deliver(s, Frame(If(panel # "button", "id", -1), s, kern[s],
                        If(panel # "tracking" /\ Others(s) = {}, "btn", 0)), {},
               [of |-> TRUE, slot |-> s, at |-> kern[s], on |-> glass, press |-> since.press,
                lone |-> since.slots \cup down = {s},
                clean |-> since.slots \cup down = {s} /\ since.axes = {"x", "y"}])

-----------------------------------------------------------------------------
(* The tap detector. *)

(* Variant: a release is a tap whether or not a press was seen. *)
feedAnyRelease(s, e) ==
    CASE e.c = "x" -> [s EXCEPT !.x = e.v]
      [] e.c = "y" -> [s EXCEPT !.y = e.v]
      [] e.c = "id" -> [s EXCEPT !.down = e.v >= 0, !.tap = e.v < 0]
      [] e.c = "btn" -> [s EXCEPT !.down = e.v # 0, !.tap = e.v = 0]
      [] e.c = "syn" -> [s EXCEPT !.wasDown = s.down]
      [] OTHER -> s

(* touchState.feed: the slot is ignored, the decision is taken at EV_SYN. *)
feed(s, e) ==
    CASE e.c = "x" -> [s EXCEPT !.x = e.v]
      [] e.c = "y" -> [s EXCEPT !.y = e.v]
      [] e.c = "id" -> [s EXCEPT !.down = e.v >= 0]
      [] e.c = "btn" -> [s EXCEPT !.down = e.v # 0]
      [] e.c = "syn" -> [s EXCEPT !.wasDown = s.down, !.tap = s.wasDown /\ ~s.down]
      [] OTHER -> s

Fed ==
    LET e == Head(queue).events
    IN  feed(feed(feed(feed(feed([t EXCEPT !.tap = FALSE], e[1]), e[2]), e[3]), e[4]),
             Event("syn", 0))

(* tap(): a linear scale from raw to pixels, rounding down. *)
Scale(p) == [x |-> (p.x * W) \div RawMax, y |-> (p.y * H) \div RawMax]

-----------------------------------------------------------------------------
(* The dialogs. *)

(* openTouch, with a fresh touchState; without a touchscreen: exit 2. *)
NewScreen ==
    /\ phase = "shut" /\ phase' = "draw"
    /\ \E d \in Dialogs : ui' = [d EXCEPT !.buf = SubSeq(@, 1, AtMost(Len(@), MaxText))]
    /\ t' = Idle /\ queue' = <<>> /\ since' = [slots |-> {}, axes |-> {}, press |-> {}]
    /\ UNCHANGED <<fingers, glass>>

(* The glass shows a dialog and, of its text, what fits the entry box. *)
OnGlass(d) == [d EXCEPT !.buf = entryTail(masked(d))]

(* Everything is painted into the shadow, then put on the glass by one blit. *)
Blit ==
    /\ phase = "draw" /\ phase' = "up" /\ glass' = OnGlass(ui)
    /\ UNCHANGED <<fingers, queue, t, ui, since>>

Close ==
    /\ phase' = "shut" /\ ui' = NoDialog /\ queue' = <<>> /\ t' = Idle
    /\ since' = [slots |-> {}, axes |-> {}, press |-> {}]
    /\ glass' = NoDialog

Turn(d) == [d EXCEPT !.page = (@ + 1) % Pages(d.n)]

(* One tap in the loops of menu, info and text.  info does not redraw. *)
Answer(k) ==
    \/ k[1] \in {"option", "ok", "cancel"} /\ Close
    \/ /\ k[1] \notin {"option", "ok", "cancel"}
       /\ ui' = IF ui.mode = "menu" THEN IF k[1] = "more" THEN Turn(ui) ELSE ui
                ELSE IF ui.mode = "info" THEN ui ELSE EditorKey(ui, k)
       /\ phase' = IF ui.mode = "info" THEN "up" ELSE "draw"
       /\ t' = Fed /\ queue' = Tail(queue) /\ UNCHANGED <<glass, since>>

ReadFrame ==
    /\ phase = "up" /\ queue # <<>>
    /\ \/ Fed.tap /\ Answer(Hit(ui, Scale(Fed)))
       \/ /\ ~Fed.tap /\ t' = Fed /\ queue' = Tail(queue)
          /\ UNCHANGED <<phase, ui, glass, since>>
    /\ UNCHANGED fingers

(* The device fails under a dialog: exit 2. *)
ReadFails == phase = "up" /\ Close /\ UNCHANGED fingers

Next ==
    \/ \E s \in Slots : Lift(s) \/ \E p \in Points[s] : Press(s, p) \/ Move(s, p)
    \/ NewScreen \/ Blit \/ ReadFrame \/ ReadFails

Spec == Init /\ [][Next]_vars

-----------------------------------------------------------------------------
(* Properties. *)

(* A frame about to be read completes a tap. *)
Tapped == phase = "up" /\ queue # <<>> /\ Fed.tap

(* A tap takes a press of its own: one the open device reported, with no     *)
(* lift between the two, so that the fingers that lie on the glass when a    *)
(* dialog opens do not answer it by being lifted, and one press answers at   *)
(* most once.  With a single finger it is that finger's press; with several, *)
(* "ABS_MT_SLOT is ignored" and it may be another's (touch.go:34-37, 43-75). *)
TapTakesItsPress ==
    Tapped => LET lift == Head(queue).lift
              IN  lift.press # {} /\ (lift.lone => lift.slot \in lift.press)

(* A single finger whose two axes the open device has reported answers what  *)
(* is painted under it: the option, MORE or the key drawn there, and in a    *)
(* menu or a message nothing where nothing is drawn, "a stray press must not *)
(* answer the question" (layout.go:48-50), if the glass was current when it  *)
(* was lifted.                                                               *)
TapHitsWhatIsDrawn ==
    (Tapped /\ Head(queue).lift.clean /\ Head(queue).lift.on = OnGlass(ui)) =>
        LET under == Under(ui, Scale(Head(queue).lift.at))
            got == Hit(ui, Scale(Fed))
        IN  /\ Cardinality(under) <= 1
            /\ under # {} => got \in under
            /\ under = {} /\ ui.mode \in {"menu", "info"} => got = Nothing
=============================================================================
