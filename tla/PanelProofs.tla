---------------------------- MODULE PanelProofs -----------------------------
(***************************************************************************)
(* The panel of the installer.  For any panel, any fingers and any dialogs *)
(* asked for one after the other: a tap takes a press of its own that the  *)
(* open device reported, and a tap answers what is drawn under  *)
(* it.  And for PID 1, which serves them: the dialog that waits for a tap  *)
(* is what the panel shows.                                                *)
(***************************************************************************)
EXTENDS TouchDialog, InstallerInit, FiniteSetTheorems, TLAPS

-----------------------------------------------------------------------------
(* Frames and what the tap detector makes of them. *)

Events == [c : {"id", "x", "y", "btn", "syn", "other"}, v : Int]
States == [x : Int, y : Int, down : BOOLEAN, wasDown : BOOLEAN, tap : BOOLEAN]

Contacts(e) == e.c \in {"id", "btn"}
Ends(e)     == (e.c = "id" /\ e.v < 0) \/ (e.c = "btn" /\ e.v = 0)
Begins(e)   == Contacts(e) /\ ~Ends(e)

(* A frame puts a finger down, or lifts one, or neither. *)
Raises(f) == Begins(f.events[1]) \/ Begins(f.events[4])
Lowers(f) == Ends(f.events[1]) \/ Ends(f.events[4])

WellFormed(f) ==
    /\ f.events[1] \in Events /\ f.events[2] \in Events
    /\ f.events[3] \in Events /\ f.events[4] \in Events
    /\ f.events[1].c \in {"id", "other"} /\ f.events[4].c \in {"btn", "other"}
    /\ f.events[2].c \in {"x", "other"} /\ f.events[3].c \in {"y", "other"}
    /\ Lowers(f) => f.lift.of /\ ~Raises(f)
    /\ f.lift.of => Lowers(f)
    /\ f.lift.of /\ f.lift.lone /\ f.lift.press # {} => f.lift.slot \in f.lift.press

LEMMA FeedOne ==
    ASSUME NEW s \in States, NEW e \in Events, e.c # "syn"
    PROVE  /\ feed(s, e) \in States
           /\ feed(s, e).wasDown = s.wasDown /\ feed(s, e).tap = s.tap
           /\ Begins(e) => feed(s, e).down
           /\ Ends(e) => ~feed(s, e).down
           /\ ~Contacts(e) => feed(s, e).down = s.down
<1>1. CASE e.c = "x"
  BY <1>1 DEF feed, States, Events, Begins, Ends, Contacts
<1>2. CASE e.c = "y"
  BY <1>2 DEF feed, States, Events, Begins, Ends, Contacts
<1>3. CASE e.c = "id"
  <2>1. CASE e.v >= 0
    <3>1. feed(s, e) = [s EXCEPT !.down = TRUE]
      BY <1>3, <2>1 DEF feed
    <3>2. /\ feed(s, e) \in States /\ feed(s, e).down
          /\ feed(s, e).wasDown = s.wasDown /\ feed(s, e).tap = s.tap
      BY <3>1 DEF States
    <3>3. ~Ends(e) /\ Contacts(e)
      BY <1>3, <2>1 DEF Ends, Contacts, Events
    <3> QED
      BY <3>2, <3>3
  <2>2. CASE ~(e.v >= 0)
    <3>0. (e.v >= 0) = FALSE
      BY <2>2 DEF Events
    <3>1. feed(s, e) = [s EXCEPT !.down = FALSE]
      BY <1>3, <3>0 DEF feed
    <3>2. /\ feed(s, e) \in States /\ ~feed(s, e).down
          /\ feed(s, e).wasDown = s.wasDown /\ feed(s, e).tap = s.tap
      BY <3>1 DEF States
    <3>3. Ends(e) /\ Contacts(e)
      BY <1>3, <2>2 DEF Ends, Contacts, Events
    <3> QED
      BY <3>2, <3>3 DEF Begins
  <2> QED
    BY <2>1, <2>2
<1>4. CASE e.c = "btn"
  BY <1>4 DEF feed, States, Events, Begins, Ends, Contacts
<1>5. CASE e.c = "other"
  BY <1>5 DEF feed, States, Events, Begins, Ends, Contacts
<1> QED
  BY <1>1, <1>2, <1>3, <1>4, <1>5 DEF Events

LEMMA FeedSyn ==
    ASSUME NEW s \in States
    PROVE  /\ feed(s, Event("syn", 0)) \in States
           /\ feed(s, Event("syn", 0)).down = s.down
           /\ feed(s, Event("syn", 0)).wasDown = s.down
           /\ feed(s, Event("syn", 0)).tap = (s.wasDown /\ ~s.down)
  BY DEF feed, States, Event

(* A tap takes a finger that was down after the last frame and a frame that  *)
(* lifts one; and a finger is down after a frame that put one down, or one   *)
(* that was down before and the frame did not lift.                          *)
LEMMA FrameFed ==
    ASSUME t \in States, WellFormed(Head(queue))
    PROVE  /\ Fed \in States /\ Fed.wasDown = Fed.down
           /\ Fed.tap => t.wasDown /\ ~Fed.down
           /\ Fed.down => t.down \/ Raises(Head(queue))
           /\ t.down /\ ~Fed.down => Lowers(Head(queue))
           /\ Lowers(Head(queue)) => ~Fed.down
<1> DEFINE f == Head(queue)
<1>0. PICK s0 : s0 = [t EXCEPT !.tap = FALSE]
  OBVIOUS
<1>1. s0 \in States /\ s0.down = t.down /\ s0.wasDown = t.wasDown
  BY <1>0 DEF States
<1>2. PICK s1 : s1 = feed(s0, f.events[1])
  OBVIOUS
<1>3. PICK s2 : s2 = feed(s1, f.events[2])
  OBVIOUS
<1>4. PICK s3 : s3 = feed(s2, f.events[3])
  OBVIOUS
<1>5. PICK s4 : s4 = feed(s3, f.events[4])
  OBVIOUS
<1>6. /\ s1 \in States /\ s1.wasDown = t.wasDown
      /\ Begins(f.events[1]) => s1.down
      /\ Ends(f.events[1]) => ~s1.down
      /\ ~Contacts(f.events[1]) => s1.down = t.down
  BY <1>1, <1>2, FeedOne DEF WellFormed
<1>7. s2 \in States /\ s2.wasDown = t.wasDown /\ s2.down = s1.down
  BY <1>3, <1>6, FeedOne DEF WellFormed, Contacts
<1>8. s3 \in States /\ s3.wasDown = t.wasDown /\ s3.down = s1.down
  BY <1>4, <1>7, FeedOne DEF WellFormed, Contacts
<1>9. /\ s4 \in States /\ s4.wasDown = t.wasDown
      /\ Begins(f.events[4]) => s4.down
      /\ Ends(f.events[4]) => ~s4.down
      /\ ~Contacts(f.events[4]) => s4.down = s1.down
  BY <1>5, <1>8, FeedOne DEF WellFormed
<1>10. Fed = feed(s4, Event("syn", 0))
  BY <1>0, <1>2, <1>3, <1>4, <1>5 DEF Fed
<1>11. /\ Fed \in States /\ Fed.down = s4.down /\ Fed.wasDown = s4.down
       /\ Fed.tap = (t.wasDown /\ ~s4.down)
  BY <1>9, <1>10, FeedSyn
<1>12. s4.down => t.down \/ Raises(f)
  BY <1>6, <1>9 DEF Raises, Begins
<1>13. t.down /\ ~s4.down => Lowers(f)
  BY <1>6, <1>9 DEF Lowers, Begins
<1>14. Lowers(f) => ~s4.down
  <2> HAVE Lowers(f)
  <2>1. ~Raises(f)
    BY DEF WellFormed
  <2>2. CASE Ends(f.events[4])
    BY <1>9, <2>2
  <2>3. CASE Ends(f.events[1]) /\ ~Contacts(f.events[4])
    BY <1>6, <1>9, <2>3
  <2> QED
    BY <2>1, <2>2, <2>3 DEF Lowers, Raises, Begins
<1> QED
  BY <1>11, <1>12, <1>13, <1>14 DEF States

-----------------------------------------------------------------------------
(* The queue of frames. *)

LEMMA Appended ==
    ASSUME NEW S, NEW q \in Seq(S), NEW f
    PROVE  /\ Append(q, f) \in Seq(S \cup {f}) /\ Len(Append(q, f)) = Len(q) + 1
           /\ Append(q, f)[Len(q) + 1] = f
           /\ \A i \in 1 .. Len(q) : Append(q, f)[i] = q[i]
  OBVIOUS

LEMMA Taken ==
    ASSUME NEW S, NEW q \in Seq(S), q # <<>>
    PROVE  /\ Tail(q) \in Seq(S) /\ Len(Tail(q)) = Len(q) - 1 /\ Len(q) \in Nat \ {0}
           /\ Head(q) = q[1]
           /\ \A i \in 1 .. Len(q) - 1 : Tail(q)[i] = q[i + 1]
  OBVIOUS

(* Of the frames of q behind the i-th, the first that lifts a finger knows a *)
(* press before it; and if none of them lifts one, P holds such a press.     *)
Covers(q, i, P) ==
    /\ \A k \in i + 1 .. Len(q) :
          q[k].lift.of /\ (\A j \in i + 1 .. k - 1 : ~q[j].lift.of) => q[k].lift.press # {}
    /\ (\A k \in i + 1 .. Len(q) : ~q[k].lift.of) => P # {}

LEMMA CoversAppend ==
    ASSUME NEW S, NEW q \in Seq(S), NEW f, NEW i \in 0 .. Len(q), NEW P, NEW R, Covers(q, i, P),
           f.lift.of /\ P # {} => f.lift.press # {}, ~f.lift.of /\ P # {} => R # {}
    PROVE  Covers(Append(q, f), i, R)
<1>1. PICK n \in Nat : n = Len(q)
  OBVIOUS
<1>2. PICK r : r = Append(q, f)
  OBVIOUS
<1>3. Len(r) = n + 1 /\ r[n + 1] = f /\ \A j \in 1 .. n : r[j] = q[j]
  BY <1>1, <1>2, Appended
<1>4. ASSUME NEW k \in i + 1 .. n + 1, r[k].lift.of, \A j \in i + 1 .. k - 1 : ~r[j].lift.of
      PROVE  r[k].lift.press # {}
  <2>1. CASE k \in i + 1 .. n
    BY <1>1, <1>3, <1>4, <2>1 DEF Covers
  <2>2. CASE k = n + 1
    <3>1. \A j \in i + 1 .. n : ~q[j].lift.of
      BY <1>1, <1>3, <1>4, <2>2
    <3> QED
      BY <1>1, <1>3, <1>4, <2>2, <3>1 DEF Covers
  <2> QED
    BY <1>1, <2>1, <2>2
<1>5. ASSUME \A k \in i + 1 .. n + 1 : ~r[k].lift.of
      PROVE  R # {}
  <2>1. ~f.lift.of /\ \A k \in i + 1 .. n : ~q[k].lift.of
    BY <1>1, <1>3, <1>5
  <2> QED
    BY <1>1, <2>1 DEF Covers
<1> QED
  BY <1>2, <1>3, <1>4, <1>5 DEF Covers

LEMMA CoversTail ==
    ASSUME NEW S, NEW q \in Seq(S), q # <<>>, NEW i \in 1 .. Len(q), NEW P, Covers(q, i, P)
    PROVE  Covers(Tail(q), i - 1, P)
<1>1. PICK n \in Nat : n + 1 = Len(q)
  BY Taken
<1>2. PICK r : r = Tail(q)
  OBVIOUS
<1>3. Len(r) = n /\ \A j \in 1 .. n : r[j] = q[j + 1]
  BY <1>1, <1>2, Taken
<1>4. ASSUME NEW k \in i .. n, r[k].lift.of, \A j \in i .. k - 1 : ~r[j].lift.of
      PROVE  r[k].lift.press # {}
  <2>1. q[k + 1].lift.of
    BY <1>1, <1>3, <1>4
  <2>2. ASSUME NEW j \in i + 1 .. k PROVE ~q[j].lift.of
    <3>1. j - 1 \in i .. k - 1 /\ j - 1 \in 1 .. n
      BY <1>1
    <3>2. r[j - 1] = q[j]
      BY <1>1, <1>3, <3>1
    <3> QED
      BY <1>4, <3>1, <3>2
  <2>3. q[k + 1].lift.press # {}
    BY <1>1, <2>1, <2>2 DEF Covers
  <2> QED
    BY <1>1, <1>3, <2>3
<1>5. ASSUME \A k \in i .. n : ~r[k].lift.of
      PROVE  P # {}
  <2>1. ASSUME NEW k \in i + 1 .. n + 1 PROVE ~q[k].lift.of
    <3>1. k - 1 \in i .. n /\ k - 1 \in 1 .. n
      BY <1>1
    <3>2. r[k - 1] = q[k]
      BY <1>1, <1>3, <3>1
    <3> QED
      BY <1>5, <3>1, <3>2
  <2> QED
    BY <1>1, <2>1 DEF Covers
<1> QED
  BY <1>2, <1>3, <1>4, <1>5 DEF Covers

LEMMA CoversSkip ==
    ASSUME NEW S, NEW q \in Seq(S), q # <<>>, NEW P, Covers(q, 0, P), ~q[1].lift.of
    PROVE  Covers(q, 1, P)
<1>0. Len(q) \in Nat \ {0}
  BY Taken
<1>1. PICK n \in Nat : n + 1 = Len(q)
  BY <1>0
<1>2. ASSUME NEW k \in 2 .. n + 1, q[k].lift.of, \A j \in 2 .. k - 1 : ~q[j].lift.of
      PROVE  q[k].lift.press # {}
  <2>1. \A j \in 1 .. k - 1 : ~q[j].lift.of
    BY <1>2
  <2> QED
    BY <1>1, <1>2, <2>1 DEF Covers
<1>3. ASSUME \A k \in 2 .. n + 1 : ~q[k].lift.of
      PROVE  P # {}
  <2>1. \A k \in 1 .. n + 1 : ~q[k].lift.of
    BY <1>3
  <2> QED
    BY <1>1, <2>1 DEF Covers
<1> QED
  BY <1>1, <1>2, <1>3 DEF Covers

(* A panel without tracking ids has one finger. *)
OneButton == panel = "button" => \A a, b \in down : a = b

(* While the tap detector holds a finger for down, and after every frame     *)
(* that puts one down, the next lift has a press to itself.                  *)
PressInv ==
    /\ \E S : queue \in Seq(S)
    /\ t \in States /\ t.wasDown = t.down
    /\ phase = "shut" => queue = <<>> /\ ~t.down
    /\ kern \in [Slots -> [x : 0 .. RawMax, y : 0 .. RawMax]]
    /\ OneButton /\ since.press \subseteq since.slots
    /\ \A i \in 1 .. Len(queue) : WellFormed(queue[i])
    /\ t.down => Covers(queue, 0, since.press)
    /\ \A i \in 1 .. Len(queue) : Raises(queue[i]) => Covers(queue, i, since.press)

LEMMA PressInvInit == ASSUME Init PROVE PressInv
<1>1. queue \in Seq({}) /\ Len(queue) = 0
  BY DEF Init
<1>2. t \in States /\ t.wasDown = t.down /\ ~t.down
  BY DEF Init, Idle, States
<1>3. kern \in [Slots -> [x : 0 .. RawMax, y : 0 .. RawMax]]
  BY TouchAssumption DEF Init
<1> QED
  BY <1>1, <1>2, <1>3 DEF PressInv, OneButton, Init

(* A frame is delivered to an open device. *)
LEMMA Delivered ==
    ASSUME PressInv, phase # "shut", NEW f, WellFormed(f), queue' = Append(queue, f),
           kern' \in [Slots -> [x : 0 .. RawMax, y : 0 .. RawMax]],
           OneButton', since'.press \subseteq since'.slots,
           f.lift.of /\ since.press # {} => f.lift.press # {},
           ~f.lift.of /\ since.press # {} => since'.press # {},
           Raises(f) => since'.press # {}, UNCHANGED <<t, phase>>
    PROVE  PressInv'
<1>1. PICK S : queue \in Seq(S)
  BY DEF PressInv
<1>2. PICK n \in Nat : n = Len(queue)
  BY <1>1
<1>3. /\ queue' \in Seq(S \cup {f}) /\ Len(queue') = n + 1 /\ queue'[n + 1] = f
      /\ \A i \in 1 .. n : queue'[i] = queue[i]
  BY <1>1, <1>2, Appended
<1>4. \A i \in 1 .. n + 1 : WellFormed(queue'[i])
  BY <1>2, <1>3 DEF PressInv
<1>5. PICK P, R : P = since.press /\ R = since'.press
  OBVIOUS
<1>6. ASSUME NEW i \in 0 .. n, Covers(queue, i, P)
      PROVE  Covers(queue', i, R)
  BY <1>1, <1>2, <1>5, <1>6, CoversAppend
<1>7. t'.down => Covers(queue', 0, R)
  BY <1>2, <1>5, <1>6 DEF PressInv
<1>8. ASSUME NEW i \in 1 .. n + 1, Raises(queue'[i])
      PROVE  Covers(queue', i, R)
  <2>1. CASE i = n + 1
    <3>1. R # {}
      BY <1>3, <1>5, <1>8, <2>1
    <3>2. i + 1 .. Len(queue') = {}
      BY <1>3, <2>1
    <3> QED
      BY <3>1, <3>2 DEF Covers
  <2>2. CASE i \in 1 .. n
    <3>1. Raises(queue[i])
      BY <1>3, <1>8, <2>2
    <3>2. Covers(queue, i, P)
      BY <1>2, <1>5, <2>2, <3>1 DEF PressInv
    <3> QED
      BY <1>6, <2>2, <3>2
  <2> QED
    BY <1>2, <2>1, <2>2
<1> QED
  BY <1>3, <1>4, <1>5, <1>7, <1>8 DEF PressInv

(* With the device shut nobody sees the frame. *)
LEMMA Unseen ==
    ASSUME PressInv, phase = "shut", UNCHANGED <<queue, t, phase, since>>, OneButton',
           kern' \in [Slots -> [x : 0 .. RawMax, y : 0 .. RawMax]]
    PROVE  PressInv'
  BY DEF PressInv

LEMMA FrameOf ==
    ASSUME PressInv, NEW s \in Slots, NEW p \in [x : 0 .. RawMax, y : 0 .. RawMax],
           NEW id \in Events, NEW btn \in Events, NEW lift, NEW f,
           f = [events |-> Frame(id, s, p, btn), lift |-> lift],
           id.c \in {"id", "other"}, btn.c \in {"btn", "other"},
           Ends(id) \/ Ends(btn) => lift.of /\ ~Begins(id) /\ ~Begins(btn),
           lift.of => Ends(id) \/ Ends(btn),
           lift.of /\ lift.lone /\ lift.press # {} => lift.slot \in lift.press
    PROVE  WellFormed(f) /\ f.lift = lift /\ f.events[1] = id /\ f.events[4] = btn
<1>1. /\ f.events[1] = id /\ f.events[4] = btn /\ f.lift = lift
      /\ f.events[2] = If(p.x # kern[s].x, "x", p.x)
      /\ f.events[3] = If(p.y # kern[s].y, "y", p.y)
  BY DEF Frame
<1>2. p.x \in Int /\ p.y \in Int
  BY TouchAssumption
<1>3. If(p.x # kern[s].x, "x", p.x) \in Events /\ If(p.x # kern[s].x, "x", p.x).c \in {"x", "other"}
  BY <1>2 DEF If, Event, Events
<1>4. If(p.y # kern[s].y, "y", p.y) \in Events /\ If(p.y # kern[s].y, "y", p.y).c \in {"y", "other"}
  BY <1>2 DEF If, Event, Events
<1> QED
  BY <1>1, <1>3, <1>4 DEF WellFormed, Lowers, Raises

(* One finger stays one finger. *)
LEMMA OneButtonStep ==
    ASSUME PressInv, NEW s \in Slots, NEW p, Press(s, p) \/ Move(s, p) \/ Lift(s)
    PROVE  OneButton'
<1>1. OneButton /\ UNCHANGED panel
  BY DEF PressInv, Press, Move, Lift, Deliver
<1>2. \/ panel = "button" => down \ {s} = {} /\ down' = down \cup {s}
      \/ down' \subseteq down
  BY DEF Press, Move, Lift, Others
<1> QED
  BY <1>1, <1>2 DEF OneButton

LEMMA PressStep ==
    ASSUME PressInv, NEW s \in Slots, NEW p \in Points[s], Press(s, p) \/ Move(s, p)
    PROVE  PressInv'
<1>0. OneButton'
  BY OneButtonStep
<1>1. p \in [x : 0 .. RawMax, y : 0 .. RawMax]
  BY TouchAssumption
<1>2. kern' \in [Slots -> [x : 0 .. RawMax, y : 0 .. RawMax]] /\ UNCHANGED <<t, phase>>
  BY <1>1 DEF Press, Move, Deliver, PressInv
<1>3. CASE phase = "shut"
  BY <1>0, <1>2, <1>3, Unseen DEF Press, Move, Deliver
<1>4. CASE phase # "shut"
  <2>1. PICK id, btn, f :
          /\ id \in Events /\ btn \in Events
          /\ f = [events |-> Frame(id, s, p, btn), lift |-> NoLift]
          /\ queue' = Append(queue, f)
          /\ id.c \in {"id", "other"} /\ btn.c \in {"btn", "other"} /\ ~Ends(id) /\ ~Ends(btn)
          /\ Begins(id) \/ Begins(btn) => since'.press = {s}
          /\ since'.press \in {{s}, since.press}
    <3>1. CASE Press(s, p)
      <4>1. /\ If(panel # "button", "id", 1) \in Events
            /\ If(panel # "button", "id", 1).c \in {"id", "other"} /\ ~Ends(If(panel # "button", "id", 1))
        BY DEF If, Event, Events, Ends
      <4>2. /\ If(panel # "tracking" /\ Others(s) = {}, "btn", 1) \in Events
            /\ If(panel # "tracking" /\ Others(s) = {}, "btn", 1).c \in {"btn", "other"}
            /\ ~Ends(If(panel # "tracking" /\ Others(s) = {}, "btn", 1))
        BY DEF If, Event, Events, Ends
      <4>3. since'.press = {s}
        BY <1>4, <3>1 DEF Press, Deliver
      <4>4. queue' = Append(queue, [events |-> Frame(If(panel # "button", "id", 1), s, p,
                                       If(panel # "tracking" /\ Others(s) = {}, "btn", 1)),
                                    lift |-> NoLift])
        BY <1>4, <3>1 DEF Press, Deliver
      <4> QED
        BY <4>1, <4>2, <4>3, <4>4
    <3>2. CASE Move(s, p)
      <4>1. Event("other", 0) \in Events /\ Event("other", 0).c = "other" /\ ~Ends(Event("other", 0))
        BY DEF Event, Events, Ends
      <4>2. ~Begins(Event("other", 0))
        BY <4>1 DEF Begins, Contacts
      <4>3. since'.press = since.press
        BY <1>4, <3>2 DEF Move, Deliver
      <4> QED
        BY <1>4, <3>2, <4>1, <4>2, <4>3 DEF Move, Deliver
    <3> QED
      BY <3>1, <3>2
  <2>2. ~NoLift.of
    BY DEF NoLift
  <2>3. WellFormed(f) /\ f.lift = NoLift /\ f.events[1] = id /\ f.events[4] = btn
    BY <1>1, <2>1, <2>2, FrameOf
  <2>4. since'.press \subseteq since'.slots
    <3>1. since'.slots = since.slots \cup {s} \cup down
      BY <1>4 DEF Press, Move, Deliver
    <3> QED
      BY <2>1, <3>1 DEF PressInv
  <2>5. Raises(f) => since'.press # {}
    BY <2>1, <2>3 DEF Raises
  <2>6. since.press # {} => since'.press # {}
    BY <2>1
  <2> QED
    BY <1>0, <1>2, <1>4, <2>1, <2>2, <2>3, <2>4, <2>5, <2>6, Delivered
<1> QED
  BY <1>3, <1>4

LEMMA LiftStep == ASSUME PressInv, NEW s \in Slots, Lift(s) PROVE PressInv'
<1>0. OneButton'
  BY OneButtonStep
<1>1. /\ kern' \in [Slots -> [x : 0 .. RawMax, y : 0 .. RawMax]] /\ UNCHANGED <<t, phase>>
      /\ kern[s] \in [x : 0 .. RawMax, y : 0 .. RawMax] /\ s \in down /\ down' \subseteq down
  BY DEF Lift, Deliver, PressInv
<1>2. CASE phase = "shut"
  BY <1>0, <1>1, <1>2, Unseen DEF Lift, Deliver
<1>3. CASE phase # "shut"
  <2>0. PICK id, btn, lift :
          /\ id = If(panel # "button", "id", -1)
          /\ btn = If(panel # "tracking" /\ Others(s) = {}, "btn", 0)
          /\ lift = [of |-> TRUE, slot |-> s, at |-> kern[s], on |-> glass, press |-> since.press,
                     lone |-> since.slots \cup down = {s},
                     clean |-> since.slots \cup down = {s} /\ since.axes = {"x", "y"}]
    OBVIOUS
  <2> DEFINE f == [events |-> Frame(id, s, kern[s], btn), lift |-> lift]
  <2>1. /\ queue' = Append(queue, f)
        /\ lift.of /\ lift.slot = s /\ lift.press = since.press
        /\ lift.lone => since.slots \cup down = {s}
    <3>1. queue' = Append(queue, f)
      BY <1>3, <2>0 DEF Lift, Deliver
    <3>2. lift.of /\ lift.slot = s /\ lift.press = since.press
      BY <2>0
    <3>3. lift.lone => since.slots \cup down = {s}
      BY <2>0
    <3> QED
      BY <3>1, <3>2, <3>3
  <2>2. /\ id \in Events /\ btn \in Events
        /\ id.c \in {"id", "other"} /\ btn.c \in {"btn", "other"} /\ ~Begins(id) /\ ~Begins(btn)
    BY <2>0 DEF If, Event, Events, Begins, Ends, Contacts
  <2>3. Ends(id) \/ Ends(btn)
    <3>1. CASE panel # "button"
      BY <2>0, <3>1 DEF If, Event, Ends
    <3>2. CASE panel = "button"
      <4>1. Others(s) = {}
        BY <1>1, <3>2 DEF PressInv, OneButton, Others
      <4> QED
        BY <2>0, <3>2, <4>1 DEF If, Event, Ends
    <3> QED
      BY <3>1, <3>2
  <2>4. lift.lone /\ lift.press # {} => lift.slot \in lift.press
    BY <2>1 DEF PressInv
  <2>5. WellFormed(f) /\ f.lift = lift /\ f.events[1] = id /\ f.events[4] = btn
    BY <1>1, <2>1, <2>2, <2>3, <2>4, FrameOf
  <2>6. ~Raises(f)
    BY <2>2, <2>5 DEF Raises
  <2>7. since'.press \subseteq since'.slots
    BY <1>3 DEF Lift, Deliver
  <2> QED
    BY <1>0, <1>1, <1>3, <2>1, <2>5, <2>6, <2>7, Delivered
<1> QED
  BY <1>2, <1>3

(* The device is opened or closed. *)
LEMMA Emptied ==
    ASSUME PressInv, queue' = <<>>, t' = Idle, UNCHANGED <<kern, panel, down>>,
           since'.press \subseteq since'.slots
    PROVE  PressInv'
<1>1. queue' \in Seq({}) /\ Len(queue') = 0
  OBVIOUS
<1>2. t' \in States /\ t'.wasDown = t'.down /\ ~t'.down
  BY DEF Idle, States
<1> QED
  BY <1>1, <1>2 DEF PressInv, OneButton

(* A frame is read. *)
LEMMA FrameRead ==
    ASSUME PressInv, phase = "up", queue # <<>>, t' = Fed, queue' = Tail(queue),
           phase' # "shut", UNCHANGED <<panel, down, kern, since>>
    PROVE  PressInv'
<1>1. PICK S : queue \in Seq(S)
  BY DEF PressInv
<1>2. PICK n \in Nat : n + 1 = Len(queue)
  BY <1>1, Taken
<1>3. /\ queue' \in Seq(S) /\ Len(queue') = n /\ Head(queue) = queue[1]
      /\ \A i \in 1 .. n : queue'[i] = queue[i + 1]
  BY <1>1, <1>2, Taken
<1>4. WellFormed(Head(queue)) /\ t \in States
  BY <1>2, <1>3 DEF PressInv
<1>5. /\ Fed \in States /\ Fed.wasDown = Fed.down /\ (Fed.down => t.down \/ Raises(queue[1]))
      /\ Lowers(queue[1]) => ~Fed.down
  BY <1>3, <1>4, FrameFed
<1>6. PICK P : P = since.press
  OBVIOUS
<1>7. \A i \in 1 .. n : WellFormed(queue'[i])
  BY <1>2, <1>3 DEF PressInv
<1>8. ASSUME NEW i \in 1 .. n + 1, Covers(queue, i, P)
      PROVE  Covers(queue', i - 1, P)
  BY <1>1, <1>2, <1>8, CoversTail
<1>9. t'.down => Covers(queue', 0, P)
  <2> SUFFICES ASSUME Fed.down PROVE Covers(queue', 0, P)
    OBVIOUS
  <2>1. CASE Raises(queue[1])
    BY <1>2, <1>6, <1>8, <2>1 DEF PressInv
  <2>2. CASE ~Raises(queue[1])
    <3>1. ~queue[1].lift.of
      BY <1>3, <1>4, <1>5 DEF WellFormed
    <3>2. Covers(queue, 0, P)
      BY <1>5, <1>6, <2>2 DEF PressInv
    <3>3. Covers(queue, 1, P)
      BY <1>1, <3>1, <3>2, CoversSkip
    <3> QED
      BY <1>2, <1>8, <3>3
  <2> QED
    BY <2>1, <2>2
<1>10. ASSUME NEW i \in 1 .. n, Raises(queue'[i])
       PROVE  Covers(queue', i, P)
  <2>1. i + 1 \in 1 .. n + 1 /\ Raises(queue[i + 1])
    BY <1>3, <1>10
  <2>2. Covers(queue, i + 1, P)
    BY <1>2, <1>6, <2>1 DEF PressInv
  <2>3. Covers(queue', i + 1 - 1, P)
    BY <1>8, <2>1, <2>2
  <2> QED
    BY <2>3
<1> QED
  BY <1>3, <1>5, <1>6, <1>7, <1>9, <1>10 DEF PressInv, OneButton

LEMMA PressInvStep == ASSUME PressInv, [Next]_vars PROVE PressInv'
<1>1. ASSUME NEW s \in Slots, Lift(s) PROVE PressInv'
  BY <1>1, LiftStep
<1>2. ASSUME NEW s \in Slots, NEW p \in Points[s], Press(s, p) \/ Move(s, p) PROVE PressInv'
  BY <1>2, PressStep
<1>3. CASE NewScreen \/ ReadFails
  <2>1. /\ queue' = <<>> /\ t' = Idle /\ since'.press = {}
        /\ UNCHANGED <<kern, panel, down>>
    BY <1>3 DEF NewScreen, ReadFails, Close, fingers
  <2> QED
    BY <2>1, Emptied
<1>4. CASE Blit \/ UNCHANGED vars
  <2>1. UNCHANGED <<queue, t, kern, panel, down, since>> /\ (phase' = "shut" => phase = "shut")
    BY <1>4 DEF Blit, vars, fingers
  <2> QED
    BY <2>1 DEF PressInv, OneButton
<1>5. CASE ReadFrame
  <2>1. phase = "up" /\ queue # <<>> /\ UNCHANGED <<panel, down, kern>>
    BY <1>5 DEF ReadFrame, fingers
  <2>2. \/ queue' = <<>> /\ t' = Idle /\ since'.press = {}
        \/ t' = Fed /\ queue' = Tail(queue) /\ since' = since /\ phase' # "shut"
    BY <1>5, <2>1 DEF ReadFrame, Answer, Close
  <2> QED
    BY <2>1, <2>2, Emptied, FrameRead
<1> QED
  BY <1>1, <1>2, <1>3, <1>4, <1>5 DEF Next

(* A tap takes a press of its own, which the open device reported with no    *)
(* lift between the two (touch.go:43-75), on panels that report contacts in  *)
(* any of the three ways, with any number of fingers: fingers that lie on    *)
(* the glass when a dialog opens do not answer it by being lifted, one press *)
(* answers at most once, and a single finger answers with its own press.     *)
THEOREM EveryTapHasItsPress == Spec => []TapTakesItsPress
<1>1. PressInv => TapTakesItsPress
  <2>1. SUFFICES ASSUME PressInv, Tapped
                 PROVE  /\ Head(queue).lift.press # {}
                        /\ Head(queue).lift.lone => Head(queue).lift.slot \in Head(queue).lift.press
    BY DEF TapTakesItsPress
  <2>2. PICK S : queue \in Seq(S) /\ queue # <<>>
    BY <2>1 DEF PressInv, Tapped
  <2>3. PICK n \in Nat : n + 1 = Len(queue)
    BY <2>2, Taken
  <2>4. Head(queue) = queue[1]
    BY <2>2, Taken
  <2>5. WellFormed(Head(queue)) /\ t \in States
    BY <2>1, <2>3, <2>4 DEF PressInv
  <2>6. t.down /\ ~Fed.down
    BY <2>1, <2>5, FrameFed DEF Tapped, PressInv
  <2>7. Lowers(Head(queue))
    BY <2>5, <2>6, FrameFed
  <2>8. queue[1].lift.of
    BY <2>4, <2>5, <2>7 DEF WellFormed
  <2>9. Covers(queue, 0, since.press)
    BY <2>1, <2>6 DEF PressInv
  <2>10. queue[1].lift.press # {}
    BY <2>3, <2>8, <2>9 DEF Covers
  <2> QED
    BY <2>4, <2>5, <2>8, <2>10 DEF WellFormed
<1> QED
  BY <1>1, PressInvInit, PressInvStep, PTL DEF Spec

-----------------------------------------------------------------------------
(* Where the tap detector believes the finger is. *)

LEMMA FeedAxes ==
    ASSUME NEW s \in States, NEW e \in Events
    PROVE  /\ feed(s, e).x = IF e.c = "x" THEN e.v ELSE s.x
           /\ feed(s, e).y = IF e.c = "y" THEN e.v ELSE s.y
<1>1. CASE e.c = "x"
  BY <1>1 DEF feed, States, Events
<1>2. CASE e.c = "y"
  BY <1>2 DEF feed, States, Events
<1>3. CASE e.c = "id"
  BY <1>3 DEF feed, States, Events
<1>4. CASE e.c = "btn"
  BY <1>4 DEF feed, States, Events
<1>5. CASE e.c = "syn"
  BY <1>5 DEF feed, States, Events
<1>6. CASE e.c = "other"
  BY <1>6 DEF feed, States, Events
<1> QED
  BY <1>1, <1>2, <1>3, <1>4, <1>5, <1>6 DEF Events

(* A frame reports the axis at place k. *)
Has(f, k) == f.events[k].c # "other"

LEMMA FrameAxes ==
    ASSUME t \in States, WellFormed(Head(queue))
    PROVE  /\ Fed.x = IF Has(Head(queue), 2) THEN Head(queue).events[2].v ELSE t.x
           /\ Fed.y = IF Has(Head(queue), 3) THEN Head(queue).events[3].v ELSE t.y
<1> DEFINE f == Head(queue)
<1>0. PICK s0 : s0 = [t EXCEPT !.tap = FALSE]
  OBVIOUS
<1>1. s0 \in States /\ s0.x = t.x /\ s0.y = t.y
  BY <1>0 DEF States
<1>2. PICK s1 : s1 = feed(s0, f.events[1])
  OBVIOUS
<1>3. PICK s2 : s2 = feed(s1, f.events[2])
  OBVIOUS
<1>4. PICK s3 : s3 = feed(s2, f.events[3])
  OBVIOUS
<1>5. PICK s4 : s4 = feed(s3, f.events[4])
  OBVIOUS
<1>6. s1 \in States /\ s1.x = t.x /\ s1.y = t.y
  BY <1>1, <1>2, FeedOne, FeedAxes DEF WellFormed
<1>7. s2 \in States /\ s2.x = (IF Has(f, 2) THEN f.events[2].v ELSE t.x) /\ s2.y = t.y
  BY <1>3, <1>6, FeedOne, FeedAxes DEF WellFormed, Has
<1>8. s3 \in States /\ s3.x = s2.x /\ s3.y = (IF Has(f, 3) THEN f.events[3].v ELSE t.y)
  <2>1. f.events[3] \in Events /\ f.events[3].c \in {"y", "other"}
    BY DEF WellFormed
  <2>2. s3 \in States
    BY <1>4, <1>7, <2>1, FeedOne
  <2>3. s3.x = s2.x /\ s3.y = IF f.events[3].c = "y" THEN f.events[3].v ELSE s2.y
    BY <1>4, <1>7, <2>1, FeedAxes
  <2> QED
    BY <1>7, <2>1, <2>2, <2>3 DEF Has
<1>9. s4 \in States /\ s4.x = s3.x /\ s4.y = s3.y
  BY <1>5, <1>8, FeedOne, FeedAxes DEF WellFormed
<1>10. Event("syn", 0) \in Events /\ Event("syn", 0).c = "syn"
  BY DEF Event, Events
<1>11. Fed = feed(s4, Event("syn", 0))
  BY <1>0, <1>2, <1>3, <1>4, <1>5 DEF Fed
<1>12. Fed.x = s4.x /\ Fed.y = s4.y
  BY <1>9, <1>10, <1>11, FeedAxes
<1> QED
  BY <1>7, <1>8, <1>9, <1>12

(* The first j frames of q leave an axis, held before them, at v. *)
LeavesAt(q, k, held, j, v) ==
    /\ (\A i \in 1 .. j : ~Has(q[i], k)) => held = v
    /\ \A i \in 1 .. j : Has(q[i], k) /\ (\A h \in i + 1 .. j : ~Has(q[h], k)) => q[i].events[k].v = v

(* One more frame at the end. *)
LEMMA LeavesAfter ==
    ASSUME NEW q, NEW r, NEW k, NEW held, NEW n \in Nat, NEW v, NEW w,
           \A i \in 1 .. n : r[i] = q[i],
           \/ Has(r[n + 1], k) /\ r[n + 1].events[k].v = w
           \/ ~Has(r[n + 1], k) /\ v = w /\ LeavesAt(q, k, held, n, v)
    PROVE  LeavesAt(r, k, held, n + 1, w)
<1>0. n + 1 \in 1 .. n + 1 /\ \A i \in 1 .. n : i \in 1 .. n + 1 /\ n + 1 \in i + 1 .. n + 1
  OBVIOUS
<1>1. CASE Has(r[n + 1], k) /\ r[n + 1].events[k].v = w
  <2>1. \A i \in 1 .. n + 1 : i \in 1 .. n \/ i = n + 1
    OBVIOUS
  <2> QED
    BY <1>0, <1>1, <2>1 DEF LeavesAt
<1>2. CASE ~Has(r[n + 1], k) /\ v = w /\ LeavesAt(q, k, held, n, v)
  <2>1. (\A i \in 1 .. n + 1 : ~Has(r[i], k)) => held = w
    BY <1>0, <1>2 DEF LeavesAt
  <2>2. ASSUME NEW i \in 1 .. n + 1, Has(r[i], k), \A h \in i + 1 .. n + 1 : ~Has(r[h], k)
        PROVE  r[i].events[k].v = w
    <3>1. i \in 1 .. n
      <4>1. i # n + 1
        BY <1>2, <2>2
      <4> QED
        BY <4>1
    <3>2. \A h \in i + 1 .. n : h \in 1 .. n /\ h \in i + 1 .. n + 1
      BY <3>1
    <3>3. \A h \in i + 1 .. n : ~Has(q[h], k)
      BY <2>2, <3>2
    <3> QED
      BY <1>2, <2>2, <3>1, <3>3 DEF LeavesAt
  <2> QED
    BY <2>1, <2>2 DEF LeavesAt
<1> QED
  BY <1>1, <1>2

(* The first frame is read. *)
LEMMA LeavesRest ==
    ASSUME NEW q, NEW r, NEW k, NEW held, NEW n \in Nat, NEW v,
           \A i \in 1 .. n : r[i] = q[i + 1], LeavesAt(q, k, held, n + 1, v)
    PROVE  LeavesAt(r, k, IF Has(q[1], k) THEN q[1].events[k].v ELSE held, n, v)
<1>1. \A i \in 1 .. n : i + 1 \in 1 .. n + 1 /\ r[i] = q[i + 1]
  OBVIOUS
<1>2. \A i \in 2 .. n + 1 : i - 1 \in 1 .. n /\ q[i] = r[i - 1]
  <2>1. \A i \in 2 .. n + 1 : i - 1 \in 1 .. n /\ (i - 1) + 1 = i
    OBVIOUS
  <2> QED
    BY <1>1, <2>1
<1>3. ASSUME \A i \in 1 .. n : ~Has(r[i], k)
      PROVE  (IF Has(q[1], k) THEN q[1].events[k].v ELSE held) = v
  <2>1. \A i \in 2 .. n + 1 : ~Has(q[i], k)
    BY <1>2, <1>3
  <2>2. 1 \in 1 .. n + 1 /\ 1 + 1 = 2 /\ \A i \in 1 .. n + 1 : i = 1 \/ i \in 2 .. n + 1
    OBVIOUS
  <2> QED
    BY <2>1, <2>2 DEF LeavesAt
<1>4. ASSUME NEW i \in 1 .. n, Has(r[i], k), \A h \in i + 1 .. n : ~Has(r[h], k)
      PROVE  r[i].events[k].v = v
  <2>1. \A h \in (i + 1) + 1 .. n + 1 : h \in 2 .. n + 1 /\ h - 1 \in i + 1 .. n
    OBVIOUS
  <2>2. \A h \in (i + 1) + 1 .. n + 1 : ~Has(q[h], k)
    BY <1>2, <1>4, <2>1
  <2> QED
    BY <1>1, <1>4, <2>2 DEF LeavesAt
<1> QED
  BY <1>3, <1>4 DEF LeavesAt

(* Only the first j frames matter. *)
LEMMA LeavesSame ==
    ASSUME NEW q, NEW r, NEW k, NEW held, NEW j \in Nat, NEW v,
           \A i \in 1 .. j : r[i] = q[i], LeavesAt(q, k, held, j, v)
    PROVE  LeavesAt(r, k, held, j, v)
<1>1. \A i \in 1 .. j : \A h \in i + 1 .. j : h \in 1 .. j
  OBVIOUS
<1> QED
  BY <1>1 DEF LeavesAt

Axis(k)   == IF k = 2 THEN "x" ELSE "y"
Pos(p, k) == IF k = 2 THEN p.x ELSE p.y

(* A finger that has been alone on the glass since the device was opened is  *)
(* where the frames say, on an axis that one of them reported; and so was    *)
(* the finger of a lift that is waiting to be read.                          *)
AxisInv(k) ==
    /\ \A s \in Slots : since.slots \cup down \subseteq {s} /\ Axis(k) \in since.axes =>
          LeavesAt(queue, k, Pos(t, k), Len(queue), Pos(kern[s], k))
    /\ \A j \in 1 .. Len(queue) : queue[j].lift.of /\ queue[j].lift.clean =>
          LeavesAt(queue, k, Pos(t, k), j, Pos(queue[j].lift.at, k))

AxesInv ==
    /\ PressInv
    /\ phase = "shut" => since.axes = {}
    /\ \A k \in {2, 3} : AxisInv(k)

(* A frame of finger s, which is then at p, is delivered to an open device. *)
LEMMA AxisDelivered ==
    ASSUME PressInv, NEW k \in {2, 3}, AxisInv(k), NEW s \in Slots, NEW p, NEW f,
           queue' = Append(queue, f), UNCHANGED t, kern'[s] = p,
           IF Has(f, k) THEN f.events[k].v = Pos(p, k) ELSE Pos(p, k) = Pos(kern[s], k),
           since'.slots = since.slots \cup {s} \cup down,
           Axis(k) \in since'.axes => Axis(k) \in since.axes \/ Has(f, k),
           f.lift.of /\ f.lift.clean => /\ f.lift.at = p /\ since.slots \cup down \subseteq {s}
                                        /\ Axis(k) \in since.axes
    PROVE  AxisInv(k)'
<1>1. PICK S : queue \in Seq(S)
  BY DEF PressInv
<1>2. PICK n \in Nat : n = Len(queue)
  BY <1>1
<1>3. Len(queue') = n + 1 /\ queue'[n + 1] = f /\ \A i \in 1 .. n : queue'[i] = queue[i]
  BY <1>1, <1>2, Appended
<1>4. ASSUME since.slots \cup down \subseteq {s}, Axis(k) \in since.axes \/ Has(f, k)
      PROVE  LeavesAt(queue', k, Pos(t, k), n + 1, Pos(p, k))
  <2>1. CASE Has(f, k)
    BY <1>3, <2>1, LeavesAfter
  <2>2. CASE ~Has(f, k)
    <3>1. PICK q, r, held, v, w :
            q = queue /\ r = queue' /\ held = Pos(t, k) /\ v = Pos(kern[s], k) /\ w = Pos(p, k)
      OBVIOUS
    <3>2. LeavesAt(q, k, held, n, v)
      <4>1. LeavesAt(queue, k, Pos(t, k), n, Pos(kern[s], k))
        BY <1>2, <1>4, <2>2 DEF AxisInv
      <4> QED
        BY <3>1, <4>1
    <3>3. v = w
      BY <2>2, <3>1
    <3>4. ~Has(r[n + 1], k)
      BY <1>3, <2>2, <3>1
    <3>5. \A i \in 1 .. n : r[i] = q[i]
      BY <1>3, <3>1
    <3>6. LeavesAt(r, k, held, n + 1, w)
      BY <3>2, <3>3, <3>4, <3>5, LeavesAfter
    <3> QED
      BY <3>1, <3>6
  <2> QED
    BY <2>1, <2>2
<1>5. ASSUME NEW r \in Slots, since'.slots \cup down' \subseteq {r}, Axis(k) \in since'.axes
      PROVE  LeavesAt(queue', k, Pos(t, k), n + 1, Pos(kern'[r], k))
  <2>1. r = s /\ since.slots \cup down \subseteq {s}
    BY <1>5
  <2> QED
    BY <1>4, <1>5, <2>1
<1>6. ASSUME NEW j \in 1 .. n + 1, queue'[j].lift.of, queue'[j].lift.clean
      PROVE  LeavesAt(queue', k, Pos(t, k), j, Pos(queue'[j].lift.at, k))
  <2>1. CASE j = n + 1
    BY <1>3, <1>4, <1>6, <2>1
  <2>2. CASE j \in 1 .. n
    <3>1. queue'[j] = queue[j] /\ j \in Nat /\ \A i \in 1 .. j : queue'[i] = queue[i]
      BY <1>3, <2>2
    <3>2. LeavesAt(queue, k, Pos(t, k), j, Pos(queue[j].lift.at, k))
      BY <1>2, <1>6, <2>2, <3>1 DEF AxisInv
    <3>3. PICK q, r, held, v :
            q = queue /\ r = queue' /\ held = Pos(t, k) /\ v = Pos(queue[j].lift.at, k)
      OBVIOUS
    <3>4. LeavesAt(q, k, held, j, v) /\ \A i \in 1 .. j : r[i] = q[i]
      BY <3>1, <3>2, <3>3
    <3>5. LeavesAt(r, k, held, j, v)
      BY <3>1, <3>4, LeavesSame
    <3>6. Pos(queue'[j].lift.at, k) = v
      BY <3>1, <3>3
    <3> QED
      BY <3>3, <3>5, <3>6
  <2>3. j = n + 1 \/ j \in 1 .. n
    BY <1>2
  <2> QED
    BY <2>1, <2>2, <2>3
<1>7. Pos(t, k)' = Pos(t, k) /\ \A r : Pos(kern[r], k)' = Pos(kern'[r], k)
  BY DEF Pos
<1>8. \A j : Pos(queue[j].lift.at, k)' = Pos(queue'[j].lift.at, k)
  BY DEF Pos
<1> QED
  BY <1>3, <1>5, <1>6, <1>7, <1>8 DEF AxisInv, LeavesAt, Axis

(* The axes of a frame. *)
LEMMA AxesOf ==
    ASSUME NEW s \in Slots, NEW p, NEW f, WellFormed(f), NEW k \in {2, 3},
           f.events[2] = If(p.x # kern[s].x, "x", p.x), f.events[3] = If(p.y # kern[s].y, "y", p.y)
    PROVE  /\ IF Has(f, k) THEN f.events[k].v = Pos(p, k) ELSE Pos(p, k) = Pos(kern[s], k)
           /\ Axis(k) \in {f.events[2].c, f.events[3].c} => Has(f, k)
<1>1. CASE k = 2
  <2>1. IF Has(f, 2) THEN f.events[2].v = p.x ELSE p.x = kern[s].x
    BY DEF Has, If, Event
  <2>2. "x" \in {f.events[2].c, f.events[3].c} => Has(f, 2)
    BY DEF Has, WellFormed
  <2> QED
    BY <1>1, <2>1, <2>2 DEF Pos, Axis
<1>2. CASE k = 3
  <2>1. IF Has(f, 3) THEN f.events[3].v = p.y ELSE p.y = kern[s].y
    BY DEF Has, If, Event
  <2>2. "y" \in {f.events[2].c, f.events[3].c} => Has(f, 3)
    BY DEF Has, WellFormed
  <2> QED
    BY <1>2, <2>1, <2>2 DEF Pos, Axis
<1> QED
  BY <1>1, <1>2

LEMMA AxesDelivered ==
    ASSUME AxesInv, PressInv', phase # "shut", UNCHANGED <<t, phase>>,
           NEW s \in Slots, NEW p, NEW f, WellFormed(f), queue' = Append(queue, f), kern'[s] = p,
           f.events[2] = If(p.x # kern[s].x, "x", p.x), f.events[3] = If(p.y # kern[s].y, "y", p.y),
           since'.slots = since.slots \cup {s} \cup down,
           since'.axes = since.axes \cup ({f.events[2].c, f.events[3].c} \cap {"x", "y"}),
           f.lift.of /\ f.lift.clean =>
              f.lift.at = p /\ since.slots \cup down = {s} /\ since.axes = {"x", "y"}
    PROVE  AxesInv'
<1>1. ASSUME NEW k \in {2, 3} PROVE AxisInv(k)'
  <2>1. AxisInv(k) /\ PressInv /\ Axis(k) \in {"x", "y"}
    BY DEF AxesInv, Axis
  <2>2. /\ IF Has(f, k) THEN f.events[k].v = Pos(p, k) ELSE Pos(p, k) = Pos(kern[s], k)
        /\ Axis(k) \in {f.events[2].c, f.events[3].c} => Has(f, k)
    BY AxesOf
  <2>3. since'.slots = since.slots \cup {s} \cup down
    OBVIOUS
  <2>4. Axis(k) \in since'.axes => Axis(k) \in since.axes \/ Has(f, k)
    BY <2>2
  <2>5. f.lift.of /\ f.lift.clean => /\ f.lift.at = p /\ since.slots \cup down \subseteq {s}
                                     /\ Axis(k) \in since.axes
    BY <2>1
  <2> QED
    BY <2>1, <2>2, <2>3, <2>4, <2>5, AxisDelivered
<1> QED
  BY <1>1 DEF AxesInv

(* Nothing is waiting and nothing has been reported. *)
LEMMA AxesReset ==
    ASSUME PressInv', queue' = <<>>, since'.axes = {} PROVE AxesInv'
<1>1. Len(queue') = 0
  OBVIOUS
<1> QED
  BY <1>1 DEF AxesInv, AxisInv

LEMMA AxesPress ==
    ASSUME AxesInv, NEW s \in Slots, NEW p \in Points[s], Press(s, p) \/ Move(s, p)
    PROVE  AxesInv'
<1>1. PressInv'
  BY PressStep DEF AxesInv
<1>2. CASE phase = "shut"
  <2>1. queue' = <<>> /\ since'.axes = {}
    BY <1>2 DEF Press, Move, Deliver, AxesInv, PressInv
  <2> QED
    BY <1>1, <2>1, AxesReset
<1>3. CASE phase # "shut"
  <2>1. PICK id, btn, f : /\ f = [events |-> Frame(id, s, p, btn), lift |-> NoLift]
                          /\ queue' = Append(queue, f)
                          /\ since'.slots = since.slots \cup {s} \cup down
                          /\ since'.axes = since.axes \cup ({f.events[2].c, f.events[3].c} \cap {"x", "y"})
    BY <1>3 DEF Press, Move, Deliver
  <2>2. /\ f.events[2] = If(p.x # kern[s].x, "x", p.x)
        /\ f.events[3] = If(p.y # kern[s].y, "y", p.y)
        /\ ~f.lift.of
    BY <2>1 DEF Frame, NoLift
  <2>3. WellFormed(f)
    <3>1. PICK S : queue \in Seq(S)
      BY DEF AxesInv, PressInv
    <3>2. Len(queue') = Len(queue) + 1 /\ queue'[Len(queue) + 1] = f /\ Len(queue) \in Nat
      BY <2>1, <3>1, Appended
    <3> QED
      BY <1>1, <3>2 DEF PressInv
  <2>4. kern'[s] = p /\ UNCHANGED <<t, phase>>
    BY DEF Press, Move, Deliver, AxesInv, PressInv
  <2> QED
    BY <1>1, <1>3, <2>1, <2>2, <2>3, <2>4, AxesDelivered
<1> QED
  BY <1>2, <1>3

LEMMA AxesLift == ASSUME AxesInv, NEW s \in Slots, Lift(s) PROVE AxesInv'
<1>1. PressInv'
  BY LiftStep DEF AxesInv
<1>2. CASE phase = "shut"
  <2>1. queue' = <<>> /\ since'.axes = {}
    BY <1>2 DEF Lift, Deliver, AxesInv, PressInv
  <2> QED
    BY <1>1, <2>1, AxesReset
<1>3. CASE phase # "shut"
  <2>1. PICK id, btn, lift, f :
          /\ f = [events |-> Frame(id, s, kern[s], btn), lift |-> lift]
          /\ queue' = Append(queue, f)
          /\ since'.slots = since.slots \cup {s} \cup down
          /\ since'.axes = since.axes \cup ({f.events[2].c, f.events[3].c} \cap {"x", "y"})
          /\ lift.at = kern[s]
          /\ lift.clean = (since.slots \cup down = {s} /\ since.axes = {"x", "y"})
    BY <1>3 DEF Lift, Deliver
  <2>2. PICK p : p = kern[s]
    OBVIOUS
  <2>3. /\ f.events[2] = If(p.x # kern[s].x, "x", p.x)
        /\ f.events[3] = If(p.y # kern[s].y, "y", p.y)
        /\ f.lift = lift
    BY <2>1, <2>2 DEF Frame
  <2>4. WellFormed(f)
    <3>1. PICK S : queue \in Seq(S)
      BY DEF AxesInv, PressInv
    <3>2. Len(queue') = Len(queue) + 1 /\ queue'[Len(queue) + 1] = f /\ Len(queue) \in Nat
      BY <2>1, <3>1, Appended
    <3> QED
      BY <1>1, <3>2 DEF PressInv
  <2>5. kern'[s] = p /\ UNCHANGED <<t, phase>>
    BY <2>2 DEF Lift, Deliver
  <2>6. f.lift.of /\ f.lift.clean =>
          f.lift.at = p /\ since.slots \cup down = {s} /\ since.axes = {"x", "y"}
    BY <2>1, <2>2, <2>3
  <2> QED
    BY <1>1, <1>3, <2>1, <2>3, <2>4, <2>5, <2>6, AxesDelivered
<1> QED
  BY <1>2, <1>3

LEMMA AxesRead ==
    ASSUME AxesInv, PressInv', queue # <<>>, t' = Fed, queue' = Tail(queue),
           phase' # "shut", UNCHANGED <<down, kern, since>>
    PROVE  AxesInv'
<1>1. PICK S : queue \in Seq(S)
  BY DEF AxesInv, PressInv
<1>2. PICK n \in Nat : n + 1 = Len(queue)
  BY <1>1, Taken
<1>3. /\ Len(queue') = n /\ Head(queue) = queue[1]
      /\ \A i \in 1 .. n : queue'[i] = queue[i + 1]
  BY <1>1, <1>2, Taken
<1>4. WellFormed(queue[1]) /\ t \in States
  BY <1>2 DEF AxesInv, PressInv
<1>5. ASSUME NEW k \in {2, 3} PROVE AxisInv(k)'
  <2>1. AxisInv(k)
    BY DEF AxesInv
  <2>2. PICK q, r, held, new :
          /\ q = queue /\ r = queue' /\ held = Pos(t, k)
          /\ new = IF Has(q[1], k) THEN q[1].events[k].v ELSE held
    OBVIOUS
  <2>3. Pos(t', k) = new
    BY <1>3, <1>4, <2>2, FrameAxes DEF Pos
  <2>4. ASSUME NEW j \in 0 .. n, NEW v, LeavesAt(q, k, held, j + 1, v)
        PROVE  LeavesAt(r, k, new, j, v)
    <3>1. \A i \in 1 .. j : r[i] = q[i + 1]
      BY <1>3, <2>2
    <3>2. j \in Nat
      OBVIOUS
    <3> QED
      BY <2>2, <2>4, <3>1, <3>2, LeavesRest
  <2>5. ASSUME NEW s \in Slots, since.slots \cup down \subseteq {s}, Axis(k) \in since.axes
        PROVE  LeavesAt(r, k, new, n, Pos(kern[s], k))
    <3>1. LeavesAt(queue, k, Pos(t, k), n + 1, Pos(kern[s], k))
      BY <1>2, <2>1, <2>5 DEF AxisInv
    <3>2. LeavesAt(q, k, held, n + 1, Pos(kern[s], k)) /\ n \in 0 .. n
      BY <2>2, <3>1
    <3> QED
      BY <2>4, <3>2
  <2>6. ASSUME NEW j \in 1 .. n, queue'[j].lift.of, queue'[j].lift.clean
        PROVE  LeavesAt(r, k, new, j, Pos(queue'[j].lift.at, k))
    <3>1. queue'[j] = queue[j + 1] /\ j + 1 \in 1 .. n + 1 /\ j \in 0 .. n
      BY <1>3
    <3>2. LeavesAt(queue, k, Pos(t, k), j + 1, Pos(queue[j + 1].lift.at, k))
      BY <1>2, <2>1, <2>6, <3>1 DEF AxisInv
    <3>3. LeavesAt(q, k, held, j + 1, Pos(queue'[j].lift.at, k))
      BY <2>2, <3>1, <3>2
    <3> QED
      BY <2>4, <3>1, <3>3
  <2>7. Pos(t, k)' = Pos(t', k) /\ \A s : Pos(kern[s], k)' = Pos(kern[s], k)
    BY DEF Pos
  <2>8. \A j : Pos(queue[j].lift.at, k)' = Pos(queue'[j].lift.at, k)
    BY DEF Pos
  <2> QED
    BY <1>3, <2>2, <2>3, <2>5, <2>6, <2>7, <2>8 DEF AxisInv, LeavesAt, Axis
<1> QED
  BY <1>5 DEF AxesInv

LEMMA Product ==
    ASSUME NEW m \in Nat, NEW a \in Int, NEW b \in Int, a <= b
    PROVE  m * a <= m * b
  OBVIOUS

LEMMA DivIs ==
    ASSUME NEW m \in Nat \ {0}, NEW x \in Int
    PROVE  /\ x \div m \in Int /\ m * (x \div m) <= x /\ x < m * (x \div m) + m
  OBVIOUS

LEMMA Cell ==
    ASSUME NEW m \in Nat \ {0}, NEW x \in Int, NEW q \in Int, m * q <= x, x < m * q + m
    PROVE  x \div m = q
<1>1. PICK a \in Int : a = x \div m /\ m * a <= x /\ x < m * a + m
  BY DivIs
<1>2. m * (a + 1) = m * a + m /\ m * (q + 1) = m * q + m
  OBVIOUS
<1>3. ~(a + 1 <= q)
  <2>1. SUFFICES ASSUME a + 1 <= q PROVE FALSE
    OBVIOUS
  <2>2. m * (a + 1) <= m * q
    BY <2>1, Product
  <2> QED
    BY <1>1, <1>2, <2>2
<1>4. ~(q + 1 <= a)
  <2>1. SUFFICES ASSUME q + 1 <= a PROVE FALSE
    OBVIOUS
  <2>2. m * (q + 1) <= m * a
    BY <2>1, Product
  <2> QED
    BY <1>1, <1>2, <2>2
<1> QED
  BY <1>1, <1>3, <1>4

-----------------------------------------------------------------------------
(* The layout.  Nothing drawn overlaps, and a tap on it hits it. *)

Points2 == [x : Int, y : Int]

(* The keyboard has cells, and the cancel box is clear of it. *)
BigEnough == W >= 10 /\ H >= 240

Agree(d, p) ==
    /\ Under(d, p) \subseteq {Hit(d, p)}
    /\ Under(d, p) = {} /\ d.mode \in {"menu", "info"} => Hit(d, p) = Nothing

LEMMA MenuAgrees ==
    ASSUME NEW d, d.mode = "menu", d.n \in Nat, d.page \in Nat, NEW p \in Points2
    PROVE  Agree(d, p)
<1> DEFINE on == {i \in 0 .. count(d.page, d.n) - 1 : inRect(p, Button(i))}
<1>1. MenuPage \in Nat \ {0} /\ W \in Nat
  BY LayoutAssumption
<1>2. count(d.page, d.n) \in Nat /\ count(d.page, d.n) <= MenuPage
  <2>1. PICK a \in Int : a = d.n - d.page * MenuPage
    BY <1>1
  <2> QED
    BY <1>1, <2>1 DEF count, AtLeast, AtMost
<1>3. \A i \in on : /\ i \in 0 .. MenuPage - 1
                    /\ 220 + i * 154 <= p.y /\ p.y < 220 + i * 154 + 130
  BY <1>1, <1>2 DEF inRect, Button, Box, buttonY
<1>4. \A i, j \in on : i = j
  <2> SUFFICES ASSUME NEW i \in on, NEW j \in on PROVE i = j
    OBVIOUS
  <2>1. /\ i \in Int /\ j \in Int /\ p.y \in Int
        /\ 220 + i * 154 <= p.y /\ p.y < 220 + i * 154 + 130
        /\ 220 + j * 154 <= p.y /\ p.y < 220 + j * 154 + 130
    BY <1>3 DEF Points2
  <2> QED
    BY <2>1
<1>5. on # {} => ~inRect(p, More)
  <2> SUFFICES ASSUME NEW i \in on PROVE ~inRect(p, More)
    OBVIOUS
  <2>1. p.y < 220 + MenuPage * 154 + 20
    BY <1>1, <1>3 DEF Points2
  <2> QED
    BY <1>1, <2>1 DEF inRect, More, Box, Points2
<1>6. CASE on # {}
  <2>1. PICK i \in on : on = {i}
    BY <1>4, <1>6
  <2>2. (CHOOSE k \in on : \A j \in on : k <= j) = i
    BY <1>3, <2>1
  <2>3. Hit(d, p) = <<"option", d.page * MenuPage + i>>
    BY <1>6, <2>2 DEF Hit, menuHit
  <2>4. Under(d, p) = {<<"option", d.page * MenuPage + i>>}
    <3>1. Drawn(d) = {[box |-> Button(k), is |-> <<"option", d.page * MenuPage + k>>] :
                        k \in 0 .. count(d.page, d.n) - 1}
                     \cup {m \in {[box |-> More, is |-> <<"more">>]} : Pages(d.n) > 1}
      BY DEF Drawn
    <3>2. \A e \in Drawn(d) : inRect(p, e.box) => e.is = <<"option", d.page * MenuPage + i>>
      <4> SUFFICES ASSUME NEW e \in Drawn(d), inRect(p, e.box)
                   PROVE  e.is = <<"option", d.page * MenuPage + i>>
        OBVIOUS
      <4>1. CASE e = [box |-> More, is |-> <<"more">>]
        BY <1>5, <1>6, <4>1
      <4>2. ASSUME NEW k \in 0 .. count(d.page, d.n) - 1,
                   e = [box |-> Button(k), is |-> <<"option", d.page * MenuPage + k>>]
            PROVE  e.is = <<"option", d.page * MenuPage + i>>
        <5>1. k \in on
          BY <4>2
        <5> QED
          BY <2>1, <4>2, <5>1
      <4> QED
        BY <3>1, <4>1, <4>2
    <3>3. [box |-> Button(i), is |-> <<"option", d.page * MenuPage + i>>] \in Drawn(d)
      BY <3>1
    <3> QED
      BY <3>2, <3>3 DEF Under
  <2> QED
    BY <2>3, <2>4 DEF Agree
<1>7. CASE on = {}
  <2>1. \A e \in Drawn(d) : inRect(p, e.box) => Pages(d.n) > 1 /\ inRect(p, More) /\ e.is = <<"more">>
    BY <1>7 DEF Drawn
  <2>2. CASE Pages(d.n) > 1 /\ inRect(p, More)
    <3>1. Hit(d, p) = <<"more">>
      BY <1>7, <2>2 DEF Hit, menuHit
    <3>2. [box |-> More, is |-> <<"more">>] \in Drawn(d)
      BY <2>2 DEF Drawn
    <3>3. Under(d, p) = {<<"more">>}
      BY <2>1, <2>2, <3>2 DEF Under
    <3> QED
      BY <3>1, <3>3 DEF Agree
  <2>3. CASE ~(Pages(d.n) > 1 /\ inRect(p, More))
    <3>1. Hit(d, p) = Nothing
      BY <1>7, <2>3 DEF Hit, menuHit
    <3>2. Under(d, p) = {}
      BY <2>1, <2>3 DEF Under
    <3> QED
      BY <3>1, <3>2 DEF Agree
  <2> QED
    BY <2>2, <2>3
<1> QED
  BY <1>6, <1>7

LEMMA InfoAgrees ==
    ASSUME NEW d, d.mode = "info", NEW p
    PROVE  Agree(d, p)
<1>1. Drawn(d) = {[box |-> OkButton, is |-> <<"ok">>]}
  BY DEF Drawn
<1>2. CASE inRect(p, OkButton)
  <2>1. Hit(d, p) = <<"ok">>
    BY <1>2 DEF Hit
  <2>2. \A e \in Drawn(d) : e.is = <<"ok">> /\ inRect(p, e.box)
    BY <1>1, <1>2
  <2>3. Under(d, p) = {<<"ok">>}
    BY <1>1, <2>2 DEF Under
  <2> QED
    BY <2>1, <2>3 DEF Agree
<1>3. CASE ~inRect(p, OkButton)
  <2>1. Hit(d, p) = Nothing
    BY <1>3 DEF Hit
  <2>2. \A e \in Drawn(d) : ~inRect(p, e.box)
    BY <1>1, <1>3
  <2>3. Under(d, p) = {}
    BY <2>2 DEF Under
  <2> QED
    BY <2>1, <2>3 DEF Agree
<1> QED
  BY <1>2, <1>3

(* A tap within the margins of a key is in its cells. *)
LEMMA KeyCell ==
    ASSUME BigEnough, NEW p \in Points2, NEW r \in 0 .. 4, NEW c \in 0 .. 9, NEW n \in 1 .. 5, NEW k,
           inRect(p, drawKey(c, r, n, k).box)
    PROVE  /\ p.y >= top /\ ~(p.y < top) /\ (p.y - top) \div cellH = r
           /\ p.x \div cellW \in c .. c + n - 1
<1>1. W \in Nat /\ H \in Nat
  BY LayoutAssumption
<1>2. PICK w \in Nat \ {0} : w = cellW
  BY <1>1 DEF cellW, BigEnough
<1>3. PICK h \in Nat \ {0} : h = cellH
  BY <1>1 DEF cellH, BigEnough
<1>4. top \in Int
  BY <1>1, <1>3 DEF top
<1>5. /\ c * w + 4 <= p.x /\ p.x < c * w + 4 + (n * w - 8)
      /\ top + r * h + 4 <= p.y /\ p.y < top + r * h + 4 + (h - 8)
  BY <1>2, <1>3 DEF inRect, drawKey, Box
<1>6. p.x \in Int /\ p.y \in Int
  BY DEF Points2
<1>7. h * r = r * h /\ h * r \in Nat /\ c * w = w * c /\ n * w = w * n /\ w * (c + n) = w * c + w * n
  BY <1>2, <1>3
<1>8. p.y >= top /\ h * r <= p.y - top /\ p.y - top < h * r + h
  BY <1>4, <1>5, <1>6, <1>7
<1>9. (p.y - top) \div h = r
  <2>1. PICK z \in Int, q \in Int : z = p.y - top /\ q = r
    BY <1>4, <1>6
  <2>2. h * q <= z /\ z < h * q + h
    BY <1>8, <2>1
  <2>3. z \div h = q
    BY <2>2, Cell
  <2> QED
    BY <2>1, <2>3
<1>10. PICK a \in Int : a = p.x \div w /\ w * a <= p.x /\ p.x < w * a + w
  BY <1>2, <1>6, DivIs
<1>11. w * c <= p.x /\ p.x < w * (c + n)
  BY <1>5, <1>6, <1>7
<1>12. c <= a
  <2>1. SUFFICES ASSUME a + 1 <= c PROVE FALSE
    OBVIOUS
  <2>2. w * (a + 1) <= w * c /\ w * (a + 1) = w * a + w
    BY <2>1, Product
  <2> QED
    BY <1>6, <1>10, <1>11, <2>2
<1>13. a < c + n
  <2>1. SUFFICES ASSUME c + n <= a PROVE FALSE
    OBVIOUS
  <2>2. w * (c + n) <= w * a
    BY <2>1, Product
  <2> QED
    BY <1>6, <1>10, <1>11, <2>2
<1> QED
  BY <1>2, <1>3, <1>4, <1>6, <1>8, <1>9, <1>10, <1>12, <1>13

LEMMA KeyAgrees ==
    ASSUME BigEnough, NEW layer, NEW shifted, NEW p \in Points2,
           NEW e \in drawKeyboard(layer, shifted), inRect(p, e.box)
    PROVE  e.is = kbHit(layer, shifted, p) /\ p.y >= top
<1>1. ASSUME NEW r \in 0 .. 3, NEW c \in 0 .. 9, e = drawKey(c, r, 1, kbRows(layer, shifted)[r][c])
      PROVE  e.is = kbHit(layer, shifted, p) /\ p.y >= top
  <2>1. p.y >= top /\ ~(p.y < top) /\ (p.y - top) \div cellH = r /\ p.x \div cellW \in c .. c + 1 - 1
    <3>1. r \in 0 .. 4
      OBVIOUS
    <3> QED
      BY <1>1, <3>1, KeyCell
  <2>2. AtMost(p.x \div cellW, 9) = c
    BY <2>1 DEF AtMost
  <2>4. kbHit(layer, shifted, p) = kbRows(layer, shifted)[r][c]
    BY <2>1, <2>2 DEF kbHit
  <2> QED
    BY <1>1, <2>1, <2>4 DEF drawKey
<1>2. ASSUME NEW c \in 0 .. 9, NEW n \in 1 .. 5, NEW k, e = drawKey(c, 4, n, k), c + n <= 10,
             \A x \in c .. c + n - 1 : k = CASE x < 2 -> <<"sym">>
                                             [] x \in 2 .. 6 -> Space
                                             [] x = 7 -> AtKey(layer)
                                             [] OTHER -> <<"ok">>
      PROVE  e.is = kbHit(layer, shifted, p) /\ p.y >= top
  <2>1. p.y >= top /\ ~(p.y < top) /\ (p.y - top) \div cellH = 4 /\ p.x \div cellW \in c .. c + n - 1
    BY <1>2, KeyCell
  <2>2. PICK x \in c .. c + n - 1 : x = p.x \div cellW
    BY <2>1
  <2>3. AtMost(p.x \div cellW, 9) = x
    BY <1>2, <2>2 DEF AtMost
  <2>5. kbHit(layer, shifted, p) = CASE x < 2 -> <<"sym">>
                                     [] x \in 2 .. 6 -> Space
                                     [] x = 7 -> AtKey(layer)
                                     [] OTHER -> <<"ok">>
    BY <2>1, <2>3 DEF kbHit
  <2> QED
    BY <1>2, <2>1, <2>5 DEF drawKey
<1>3. CASE e = drawKey(0, 4, 2, <<"sym">>)
  <2>1. PICK k : k = <<"sym">>
    OBVIOUS
  <2>2. \A x \in 0 .. 0 + 2 - 1 : k = CASE x < 2 -> <<"sym">>
                                       [] x \in 2 .. 6 -> Space
                                       [] x = 7 -> AtKey(layer)
                                       [] OTHER -> <<"ok">>
    BY <2>1
  <2>3. e = drawKey(0, 4, 2, k)
    BY <1>3, <2>1
  <2> QED
    BY <1>2, <2>2, <2>3
<1>4. CASE e = drawKey(2, 4, 5, Space)
  BY <1>2, <1>4
<1>5. CASE e = drawKey(7, 4, 1, AtKey(layer))
  BY <1>2, <1>5
<1>6. CASE e = drawKey(8, 4, 2, <<"ok">>)
  <2>1. PICK k : k = <<"ok">>
    OBVIOUS
  <2>2. \A x \in 8 .. 8 + 2 - 1 : k = CASE x < 2 -> <<"sym">>
                                       [] x \in 2 .. 6 -> Space
                                       [] x = 7 -> AtKey(layer)
                                       [] OTHER -> <<"ok">>
    BY <2>1
  <2>3. e = drawKey(8, 4, 2, k)
    BY <1>6, <2>1
  <2> QED
    BY <1>2, <2>2, <2>3
<1> QED
  BY <1>1, <1>3, <1>4, <1>5, <1>6 DEF drawKeyboard

LEMMA EntryAgrees ==
    ASSUME BigEnough, NEW d, d.mode \notin {"menu", "info"}, NEW p \in Points2
    PROVE  Agree(d, p)
<1>1. Drawn(d) = drawKeyboard(d.layer, d.shifted) \cup {[box |-> Cancel, is |-> <<"cancel">>]}
  BY DEF Drawn
<1>2. inRect(p, Cancel) => ~(p.y >= top)
  BY LayoutAssumption DEF inRect, Cancel, Box, top, cellH, BigEnough, Points2
<1>3. Hit(d, p) = IF inRect(p, Cancel) THEN <<"cancel">> ELSE kbHit(d.layer, d.shifted, p)
  BY DEF Hit
<1>4. \A e \in Drawn(d) : inRect(p, e.box) => e.is = Hit(d, p)
  <2> SUFFICES ASSUME NEW e \in Drawn(d), inRect(p, e.box) PROVE e.is = Hit(d, p)
    OBVIOUS
  <2>1. CASE e \in drawKeyboard(d.layer, d.shifted)
    BY <1>2, <1>3, <2>1, KeyAgrees
  <2>2. CASE e = [box |-> Cancel, is |-> <<"cancel">>]
    BY <1>3, <2>2
  <2> QED
    BY <1>1, <2>1, <2>2
<1> QED
  BY <1>4 DEF Agree, Under

LEMMA AxesInvInit == ASSUME Init PROVE AxesInv
<1>1. Len(queue) = 0 /\ since.axes = {}
  BY DEF Init
<1> QED
  BY <1>1, PressInvInit DEF AxesInv, AxisInv

LEMMA AxesInvStep == ASSUME AxesInv, [Next]_vars PROVE AxesInv'
<1>0. PressInv /\ PressInv'
  BY PressInvStep DEF AxesInv
<1>1. ASSUME NEW s \in Slots, Lift(s) PROVE AxesInv'
  BY <1>1, AxesLift
<1>2. ASSUME NEW s \in Slots, NEW p \in Points[s], Press(s, p) \/ Move(s, p) PROVE AxesInv'
  BY <1>2, AxesPress
<1>3. CASE NewScreen \/ ReadFails
  <2>1. queue' = <<>> /\ since'.axes = {}
    BY <1>3 DEF NewScreen, ReadFails, Close
  <2> QED
    BY <1>0, <2>1, AxesReset
<1>4. CASE Blit \/ UNCHANGED vars
  <2>1. UNCHANGED <<queue, t, kern, down, since>> /\ (phase' = "shut" => phase = "shut")
    BY <1>4 DEF Blit, vars, fingers
  <2>2. ASSUME NEW k \in {2, 3} PROVE AxisInv(k)'
    <3>1. AxisInv(k)
      BY DEF AxesInv
    <3> QED
      BY <2>1, <3>1 DEF AxisInv, LeavesAt, Has, Pos, Axis
  <2> QED
    BY <1>0, <2>1, <2>2 DEF AxesInv
<1>5. CASE ReadFrame
  <2>1. queue # <<>> /\ UNCHANGED <<down, kern>> /\ phase = "up"
    BY <1>5 DEF ReadFrame, fingers
  <2>2. \/ queue' = <<>> /\ since'.axes = {}
        \/ t' = Fed /\ queue' = Tail(queue) /\ since' = since /\ phase' # "shut"
    BY <1>5, <2>1 DEF ReadFrame, Answer, Close
  <2> QED
    BY <1>0, <2>1, <2>2, AxesReset, AxesRead
<1> QED
  BY <1>1, <1>2, <1>3, <1>4, <1>5 DEF Next

-----------------------------------------------------------------------------
(* The dialog keeps a number of options and a page. *)

Kept(B) == [mode : {"none", "menu", "info", "text", "secret"}, n : Nat, page : Nat,
              layer : Int, shifted : Int, buf : B]
UiInv == \E B : ui \in Kept(B)

LEMMA EditorKeeps ==
    ASSUME NEW B, NEW d \in Kept(B), NEW k PROVE \E C : EditorKey(d, k) \in Kept(C)
<1>0. PICK z \in Int : z = 0
  OBVIOUS
<1>1. CASE EditorKey(d, k) = [d EXCEPT !.shifted = 1 - d.shifted]
  <2>1. [d EXCEPT !.shifted = 1 - d.shifted] \in Kept(B)
    BY DEF Kept
  <2> QED
    BY <1>1, <2>1
<1>2. CASE EditorKey(d, k) = [d EXCEPT !.layer = 1 - d.layer, !.shifted = z]
  <2>1. PICK c \in Int : c = 1 - d.layer
    BY DEF Kept
  <2>2. [d EXCEPT !.layer = c, !.shifted = z] \in Kept(B)
    BY DEF Kept
  <2> QED
    BY <1>2, <2>1, <2>2
<1>3. ASSUME NEW new, EditorKey(d, k) = [d EXCEPT !.buf = new]
      PROVE  \E C : EditorKey(d, k) \in Kept(C)
  <2>1. PICK C : new \in C
    OBVIOUS
  <2>2. [d EXCEPT !.buf = new] \in Kept(C)
    BY <2>1 DEF Kept
  <2> QED
    BY <1>3, <2>2
<1>4. ASSUME NEW new, EditorKey(d, k) = [d EXCEPT !.buf = new, !.shifted = z]
      PROVE  \E C : EditorKey(d, k) \in Kept(C)
  <2>1. PICK C : new \in C
    OBVIOUS
  <2>2. [d EXCEPT !.buf = new, !.shifted = z] \in Kept(C)
    BY <2>1 DEF Kept
  <2> QED
    BY <1>4, <2>2
<1>5. \/ EditorKey(d, k) = [d EXCEPT !.shifted = 1 - d.shifted]
      \/ EditorKey(d, k) = [d EXCEPT !.layer = 1 - d.layer, !.shifted = z]
      \/ EditorKey(d, k) = [d EXCEPT !.buf = SubSeq(d.buf, 1, Len(d.buf) - 1)]
      \/ EditorKey(d, k) = [d EXCEPT !.buf = Append(d.buf, k), !.shifted = z]
      \/ EditorKey(d, k) = d
  BY <1>0 DEF EditorKey
<1> QED
  BY <1>1, <1>2, <1>3, <1>4, <1>5

LEMMA TurnKeeps == ASSUME NEW B, NEW d \in Kept(B) PROVE Turn(d) \in Kept(B)
<1>1. PICK m \in Nat \ {0} : m = MenuPage
  BY LayoutAssumption
<1>2. PICK n \in Nat : n = d.n
  BY DEF Kept
<1>3. (n + m - 1) \div m \in Int
  BY <1>1, <1>2
<1>4. Pages(d.n) \in Nat \ {0}
  BY <1>1, <1>2, <1>3 DEF Pages, AtLeast
<1>5. d.page + 1 \in Nat
  BY DEF Kept
<1>6. (d.page + 1) % Pages(d.n) \in Nat
  BY <1>4, <1>5
<1> QED
  BY <1>6 DEF Turn, Kept

LEMMA UiStep == ASSUME UiInv, [Next]_vars PROVE UiInv'
<1>0. PICK B : ui \in Kept(B)
  BY DEF UiInv
<1>1. ASSUME ui' = NoDialog PROVE UiInv'
  <2>1. NoDialog \in Kept({<<>>})
    BY DEF NoDialog, Kept
  <2> QED
    BY <1>1, <2>1 DEF UiInv
<1>2. ASSUME ui' = ui PROVE UiInv'
  BY <1>2 DEF UiInv, Kept
<1>3. CASE NewScreen
  <2>0. PICK d \in Dialogs : ui' = [d EXCEPT !.buf = SubSeq(d.buf, 1, AtMost(Len(d.buf), MaxText))]
    BY <1>3 DEF NewScreen
  <2>1. PICK new : ui' = [d EXCEPT !.buf = new]
    BY <2>0
  <2>2. d \in Kept({d.buf})
    BY TouchAssumption DEF Kept
  <2>3. [d EXCEPT !.buf = new] \in Kept({new})
    BY <2>2 DEF Kept
  <2> QED
    BY <2>1, <2>3 DEF UiInv, Kept
<1>4. CASE ReadFrame
  <2>1. \/ ui' = NoDialog \/ ui' = ui \/ ui' = Turn(ui)
        \/ ui' = EditorKey(ui, Hit(ui, Scale(Fed)))
    BY <1>4 DEF ReadFrame, Answer, Close
  <2>2. ASSUME ui' = Turn(ui) PROVE UiInv'
    BY <1>0, <2>2, TurnKeeps DEF UiInv, Kept
  <2>3. ASSUME NEW k, ui' = EditorKey(ui, k) PROVE UiInv'
    BY <1>0, <2>3, EditorKeeps DEF UiInv, Kept
  <2> QED
    BY <1>1, <1>2, <2>1, <2>2, <2>3
<1>5. CASE Blit \/ UNCHANGED vars
  BY <1>2, <1>5 DEF Blit, vars
<1>6. CASE ReadFails
  BY <1>1, <1>6 DEF ReadFails, Close
<1>7. ASSUME NEW s \in Slots, Lift(s) \/ \E p \in Points[s] : Press(s, p) \/ Move(s, p)
      PROVE  UiInv'
  BY <1>2, <1>7 DEF Lift, Press, Move, Deliver
<1> QED
  BY <1>3, <1>4, <1>5, <1>6, <1>7 DEF Next

LEMMA TapAgrees ==
    ASSUME BigEnough, UiInv, NEW p \in Points2 PROVE Agree(ui, p)
<1>1. ui.n \in Nat /\ ui.page \in Nat
  BY DEF UiInv, Kept
<1> QED
  BY <1>1, MenuAgrees, InfoAgrees, EntryAgrees

(* On a panel of at least 10 by 240 pixels, with menus of any length and any *)
(* number of options per page, a finger that has been alone on the glass     *)
(* since the dialog opened, and whose two axes the open device has reported, *)
(* answers what is painted under it and, in a menu or a message, nothing     *)
(* where nothing is painted (layout.go:48-50).                               *)
THEOREM TapsHitWhatIsDrawn == ASSUME BigEnough PROVE Spec => []TapHitsWhatIsDrawn
<1>1. ASSUME AxesInv, UiInv PROVE TapHitsWhatIsDrawn
  <2> SUFFICES ASSUME Tapped, Head(queue).lift.clean
               PROVE  LET under == Under(ui, Scale(Head(queue).lift.at))
                          got == Hit(ui, Scale(Fed))
                      IN  /\ Cardinality(under) <= 1
                          /\ under # {} => got \in under
                          /\ under = {} /\ ui.mode \in {"menu", "info"} => got = Nothing
    BY DEF TapHitsWhatIsDrawn
  <2>1. PICK S : queue \in Seq(S) /\ queue # <<>>
    BY <1>1 DEF AxesInv, PressInv, Tapped
  <2>2. PICK f : f = Head(queue) /\ f = queue[1] /\ 1 \in 1 .. Len(queue)
    BY <2>1, Taken
  <2>3. WellFormed(Head(queue)) /\ t \in States /\ t.wasDown = t.down
    BY <1>1, <2>2 DEF AxesInv, PressInv
  <2>4. Fed \in States /\ Lowers(Head(queue))
    BY <2>3, FrameFed DEF Tapped
  <2>5. f.lift.of /\ f.lift.clean
    BY <2>2, <2>3, <2>4 DEF WellFormed
  <2>6. ASSUME NEW k \in {2, 3} PROVE Pos(Fed, k) = Pos(f.lift.at, k)
    <3>1. LeavesAt(queue, k, Pos(t, k), 1, Pos(f.lift.at, k))
      BY <1>1, <2>2, <2>5 DEF AxesInv, AxisInv
    <3>2. (IF Has(f, k) THEN f.events[k].v ELSE Pos(t, k)) = Pos(f.lift.at, k)
      <4>1. 1 \in 1 .. 1 /\ (\A h \in 1 + 1 .. 1 : FALSE) /\ \A i \in 1 .. 1 : i = 1
        OBVIOUS
      <4> QED
        BY <2>2, <3>1, <4>1 DEF LeavesAt
    <3>3. Pos(Fed, k) = IF Has(f, k) THEN f.events[k].v ELSE Pos(t, k)
      BY <2>2, <2>3, FrameAxes DEF Pos
    <3> QED
      BY <3>2, <3>3
  <2>7. Fed.x = f.lift.at.x /\ Fed.y = f.lift.at.y
    BY <2>6 DEF Pos
  <2>8. PICK p : p = Scale(Fed) /\ p = Scale(f.lift.at)
    BY <2>7 DEF Scale
  <2>9. p \in Points2
    <3>1. PICK m \in Nat \ {0}, w \in Nat, h \in Nat : m = RawMax /\ w = W /\ h = H
      BY TouchAssumption, LayoutAssumption
    <3>2. PICK x \in Int, y \in Int : x = Fed.x /\ y = Fed.y
      BY <2>4 DEF States
    <3>3. (x * w) \div m \in Int /\ (y * h) \div m \in Int
      BY <3>1
    <3> QED
      BY <2>8, <3>1, <3>2, <3>3 DEF Scale, Points2
  <2>10. Agree(ui, p)
    BY <1>1, <2>9, TapAgrees
  <2>11. Under(ui, p) = {} \/ Under(ui, p) = {Hit(ui, p)}
    BY <2>10 DEF Agree
  <2>12. Cardinality(Under(ui, p)) <= 1
    <3>1. \A x : Cardinality({x}) = 1
      BY FS_Singleton
    <3>2. Cardinality({}) = 0
      BY FS_EmptySet
    <3>3. PICK u, h : u = Under(ui, p) /\ h = Hit(ui, p)
      OBVIOUS
    <3>4. u = {} \/ u = {h}
      BY <2>11, <3>3
    <3>5. Cardinality(u) = 0 \/ Cardinality(u) = 1
      BY <3>1, <3>2, <3>4, Zenon
    <3>6. Cardinality(u) <= 1
      BY <3>5
    <3> QED
      BY <3>3, <3>6
  <2> QED
    BY <2>2, <2>8, <2>10, <2>11, <2>12 DEF Agree
<1>2. ASSUME Init PROVE UiInv
  <2>1. NoDialog \in Kept({<<>>})
    BY DEF NoDialog, Kept
  <2> QED
    BY <1>2, <2>1 DEF UiInv, Init
<1> QED
  BY <1>1, <1>2, AxesInvInit, AxesInvStep, UiStep, PTL DEF Spec

-----------------------------------------------------------------------------
(* PID 1 of the installer, for any clients, any status files, any length of  *)
(* the watchdog and of the waits: a dialog that waits for a tap is what the  *)
(* panel shows, and the watchdog does not fire on a board whose rc.sh can    *)
(* pet it.                                                                   *)

(* paintMu is held by who draws. *)
DrawsWithLock ==
    /\ server \in {"draw", "tap"} => mu = "dialog"
    /\ init = "painting" => mu = "loop"

PanelInv == DrawsWithLock /\ DialogStaysUp

LEMMA PanelInvInit == Pid1Init => PanelInv
  BY DEF Pid1Init, PanelInv, DrawsWithLock, DialogStaysUp

LEMMA PanelInvStep == PanelInv /\ [Pid1Next]_pid1Vars => PanelInv'
<1> SUFFICES ASSUME PanelInv, [Pid1Next]_pid1Vars PROVE PanelInv'
  OBVIOUS
<1> USE DEF PanelInv, DrawsWithLock, DialogStaysUp, Dialog, dialogs, paint
<1>1. CASE Boot
  <2>1. init # "painting" /\ init' # "painting"
    BY <1>1 DEF Boot, MountAll, Gadget, WriteStatus, StartSecondStage, NoPanelDriver,
                GateSkip, GateWrite, GateWait, GateOpen, AcquireDisplay,
                GateAt, GateOn, GateFails, GateEnds
  <2>2. UNCHANGED <<mu, server, conn, shown>>
    BY <1>1 DEF Boot, MountAll, Gadget, WriteStatus, StartSecondStage, NoPanelDriver,
                GateSkip, GateWrite, GateWait, GateOpen, AcquireDisplay
  <2> QED
    BY <2>1, <2>2
<1>2. CASE LoopTry
  BY <1>2 DEF LoopTry
<1>3. CASE LoopBlit
  BY <1>3 DEF LoopBlit
<1>4. CASE LoopSleep
  BY <1>4 DEF LoopSleep
<1>5. CASE Listen \/ Accept \/ Decode \/ OpenTouch
  BY <1>5 DEF Listen, Accept, Decode, OpenTouch, GoOn, HangUp, serving
<1>6. CASE LockAndRun
  BY <1>6 DEF LockAndRun, GoOn, HangUp, serving
<1>7. CASE Draw
  BY <1>7 DEF Draw, GoOn, serving
<1>8. CASE AnswerDialog
  BY <1>8 DEF AnswerDialog, HangUp, serving
<1>9. CASE NodeAppears \/ Probe \/ StatusWritten
  BY <1>9 DEF NodeAppears, Probe, StatusWritten
<1>10. ASSUME NEW c \in Clients, Forward(c) \/ ClientDies(c) PROVE PanelInv'
  BY <1>10 DEF Forward, ClientDies, serving
<1>11. CASE UNCHANGED pid1Vars
  BY <1>11 DEF pid1Vars
<1> QED
  BY <1>1, <1>2, <1>3, <1>4, <1>5, <1>6, <1>7, <1>8, <1>9, <1>10, <1>11
     DEF Pid1Next, Loop, Server

(* The two goroutines of PID 1 never draw over each other: while a dialog    *)
(* waits for a tap the glass shows that dialog, whatever clients, painter    *)
(* and other DRM users do (installerinit.go:178-192, dialog.go).             *)
THEOREM DialogIsOnTheGlass == Pid1Spec => []DialogStaysUp
<1>1. PanelInv => DialogStaysUp
  BY DEF PanelInv
<1> QED
  BY PanelInvInit, PanelInvStep, <1>1, PTL DEF Pid1Spec

-----------------------------------------------------------------------------
(* The watchdog has some time to run. *)
(* Nothing waits before rc.sh has been started, and whatever waits after it  *)
(* is waited out with the watchdog being petted.                             *)
PettedInv ==
    able => /\ wdt = WdtTicks
            /\ init \notin {"mounts", "gadget", "status", "stage2"} => rc = "petting"

LEMMA PettedInvInit == Pid1Init => PettedInv
  BY DEF Pid1Init, PettedInv

LEMMA PettedInvStep == PettedInv /\ [Pid1Next]_pid1Vars => PettedInv'
<1> SUFFICES ASSUME PettedInv, [Pid1Next]_pid1Vars PROVE PettedInv'
  OBVIOUS
<1> USE DEF PettedInv, clock
<1>1. CASE MountAll \/ Gadget \/ WriteStatus \/ StartSecondStage
  BY <1>1 DEF MountAll, Gadget, WriteStatus, StartSecondStage
<1>2. CASE NoPanelDriver \/ GateSkip \/ GateWrite \/ GateOpen
  BY <1>2 DEF NoPanelDriver, GateSkip, GateWrite, GateOpen, GateAt, GateOn,
              GateFails, GateEnds
<1>3. CASE GateWait
  <2>1. init = "gate" /\ UNCHANGED <<able, rc>>
    BY <1>3 DEF GateWait, GateAt
  <2>2. Elapse \/ UNCHANGED wdt
    BY <1>3 DEF GateWait
  <2> QED
    BY <2>1, <2>2 DEF Elapse
<1>4. CASE AcquireDisplay
  BY <1>4 DEF AcquireDisplay
<1>5. CASE LoopTry \/ LoopBlit \/ LoopSleep
  BY <1>5 DEF LoopTry, LoopBlit, LoopSleep, Elapse
<1>6. CASE Server
  BY <1>6 DEF Server, Listen, Accept, Decode, OpenTouch,
              LockAndRun, Draw, AnswerDialog, serving
<1>7. CASE NodeAppears \/ Probe \/ StatusWritten
  BY <1>7 DEF NodeAppears, Probe, StatusWritten
<1>8. ASSUME NEW c \in Clients, Forward(c) \/ ClientDies(c) PROVE PettedInv'
  BY <1>8 DEF Forward, ClientDies, serving
<1>9. CASE UNCHANGED pid1Vars
  BY <1>9 DEF pid1Vars
<1> QED
  BY <1>1, <1>2, <1>3, <1>4, <1>5, <1>6, <1>7, <1>8, <1>9 DEF Pid1Next, Boot, Loop

(* However long the waits of the display gate are against the watchdog, it   *)
(* does not fire if rc.sh can pet it: the reason the second stage is started *)
(* first (installerinit.go:24-29).                                           *)
THEOREM PettedThroughTheGate == Pid1Spec => []PettedInTime
<1>1. PettedInv => PettedInTime
  BY InstallerInitAssumption DEF PettedInv, PettedInTime, Reset
<1> QED
  BY PettedInvInit, PettedInvStep, <1>1, PTL DEF Pid1Spec
=============================================================================
