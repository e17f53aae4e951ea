------------------------- MODULE InputSessionProofs -------------------------
(***************************************************************************)
(* For any devices, tests and buffer sizes: no reader goroutine reads from *)
(* a descriptor that close() has closed, and no event made after a lost    *)
(* one of its device reaches a test.                                       *)
(***************************************************************************)
EXTENDS InputSession, TLAPS

(* Descriptors are closed at the very end, and by then the readers are done: *)
(* they are started while the session opens, and end for good.               *)
ReadersJoined ==
    /\ reader \in [Devs -> {"off", "read", "done"}]
    /\ fds \in [Devs -> {"none", "open", "closed"}]
    /\ pc # "closed" => \A d \in Devs : fds[d] # "closed"
    /\ pc = "closed" => \A d \in Devs : reader[d] # "read"

LEMMA ReadersJoinedInit == Init => ReadersJoined
  BY DEF Init, ReadersJoined

LEMMA ReadersJoinedStep == ReadersJoined /\ [Next]_vars => ReadersJoined'
<1> SUFFICES ASSUME ReadersJoined, [Next]_vars PROVE ReadersJoined'
  OBVIOUS
<1> USE DEF ReadersJoined, readers, main
<1>1. ASSUME NEW o \in Orders, TouchFrame(o) PROVE ReadersJoined'
  BY <1>1 DEF TouchFrame, Put
<1>2. ASSUME NEW p \in PenStates, PenFrame(p) PROVE ReadersJoined'
  BY <1>2 DEF PenFrame, Put
<1>3. ASSUME NEW d \in Devs, OtherEvent(d) PROVE ReadersJoined'
  BY <1>3 DEF OtherEvent, Put
<1>4. ASSUME NEW d \in Devs, ReadEvents(d) PROVE ReadersJoined'
  <2>1. UNCHANGED <<fds, pc>>
    BY <1>4 DEF ReadEvents
  <2>2. Ends(d) \/ UNCHANGED reader
    BY <1>4 DEF ReadEvents, Send
  <2> QED
    BY <2>1, <2>2 DEF Ends
<1>5. ASSUME NEW d \in Devs, ReadFails(d) PROVE ReadersJoined'
  BY <1>5 DEF ReadFails, Ends
<1>6. CASE OpenNext
  <2>1. pc = "open" /\ pc' # "closed"
    BY <1>6 DEF OpenNext
  <2>2. \/ UNCHANGED <<fds, reader>>
        \/ \E d \in Devs : /\ fds' = [fds EXCEPT ![d] = "open"]
                           /\ reader' \in {reader, [reader EXCEPT ![d] = "read"]}
    <3>1. CASE left <= Len(Boards)
      <4>1. CASE UNCHANGED <<fds, reader>>
        BY <4>1
      <4>2. CASE /\ fds' = [fds EXCEPT ![Boards[left]] = "open"]
                 /\ reader' \in {reader, [reader EXCEPT ![Boards[left]] = "read"]}
        <5>1. CASE Boards[left] \in Devs
          BY <4>2, <5>1
        <5>2. CASE Boards[left] \notin Devs
          BY <4>2, <5>2
        <5> QED
          BY <5>1, <5>2
      <4> QED
        BY <1>6, <3>1, <4>1, <4>2 DEF OpenNext
    <3>2. CASE ~(left <= Len(Boards))
      BY <1>6, <3>2 DEF OpenNext
    <3> QED
      BY <3>1, <3>2
  <2> QED
    BY <2>1, <2>2
<1>7. CASE NextTest
  BY <1>7 DEF NextTest
<1>8. CASE Drain
  BY <1>8 DEF Drain, Heed, Leave, Go
<1>9. CASE UntilTop
  BY <1>9 DEF UntilTop, Return, Leave, Go
<1>10. CASE UntilSelect
  BY <1>10 DEF UntilSelect, Heed, Return, Leave, Go
<1>11. CASE Close
  BY <1>11 DEF Close
<1>12. CASE Interrupt \/ TimeUp
  BY <1>12 DEF Interrupt, TimeUp
<1>13. CASE UNCHANGED vars
  BY <1>13 DEF vars
<1> QED
  BY <1>1, <1>2, <1>3, <1>4, <1>5, <1>6, <1>7, <1>8, <1>9, <1>10, <1>11, <1>12, <1>13
     DEF Next, Main

(* However the session ends, by its tests, an error, lost events or an       *)
(* interrupt, the raw readers have been joined before their descriptors are  *)
(* closed (input.go:417-426).                                                *)
THEOREM ReadersAreJoined == Spec => []NoReadAfterClose
<1>1. ReadersJoined => NoReadAfterClose
  BY DEF ReadersJoined, NoReadAfterClose
<1> QED
  BY ReadersJoinedInit, ReadersJoinedStep, <1>1, PTL DEF Spec

-----------------------------------------------------------------------------
(* Lost events. *)

Codes  == {"slot", "id", "btn", "syn", "key", "dropped", "pen", "rubber", "touch", "stylus"}
Vals   == Slots \cup {None} \cup BOOLEAN
Names  == Devs \cup {"ts", "pen"}
Events == [dev : Names, c : Codes, v : Vals, gap : BOOLEAN]

LEMMA ValsHave ==
    /\ None \in Vals /\ \A s \in Slots : s \in Vals
    /\ \A b \in BOOLEAN : b \in Vals
  BY Zenon DEF Vals

LEMMA EventType ==
    ASSUME NEW d \in Names, NEW c \in Codes, NEW v \in Vals
    PROVE  Event(d, c, v) \in Events /\ ~Event(d, c, v).gap /\ Event(d, c, v).c = c
<1>1. PICK g \in BOOLEAN : g = FALSE
  OBVIOUS
<1>2. Event(d, c, v) = [dev |-> d, c |-> c, v |-> v, gap |-> g]
  BY <1>1 DEF Event
<1>3. [dev |-> d, c |-> c, v |-> v, gap |-> g] \in Events
  BY DEF Events
<1> QED
  BY <1>1, <1>2, <1>3

(* The events of a batch, those after a loss tagged. *)
LEMMA Tagged ==
    ASSUME NEW es \in Seq(Events), NEW m \in 0 .. Len(es), NEW g \in BOOLEAN
    PROVE  /\ [i \in 1 .. m |-> [es[i] EXCEPT !.gap = @ \/ g]] \in Seq(Events)
           /\ Len([i \in 1 .. m |-> [es[i] EXCEPT !.gap = @ \/ g]]) = m
           /\ \A i \in 1 .. m : ~g /\ ~es[i].gap
                => ~[es[i] EXCEPT !.gap = @ \/ g].gap
<1>1. ASSUME NEW e \in Events
      PROVE  /\ [e EXCEPT !.gap = @ \/ g] \in Events
             /\ ~g /\ ~e.gap => ~[e EXCEPT !.gap = @ \/ g].gap
  BY <1>1 DEF Events
<1>2. \A i \in 1 .. m : es[i] \in Events
  OBVIOUS
<1> QED
  BY <1>1, <1>2

LEMMA Stamped ==
    ASSUME NEW es \in Seq(Events), NEW g \in BOOLEAN
    PROVE  /\ [i \in DOMAIN es |-> [es[i] EXCEPT !.gap = g]] \in Seq(Events)
           /\ \A i \in DOMAIN es : ~g => ~[es[i] EXCEPT !.gap = g].gap
<1>1. ASSUME NEW e \in Events
      PROVE  [e EXCEPT !.gap = g] \in Events /\ (~g => ~[e EXCEPT !.gap = g].gap)
  BY <1>1 DEF Events
<1>2. DOMAIN es = 1 .. Len(es) /\ Len(es) \in Nat /\ \A i \in 1 .. Len(es) : es[i] \in Events
  OBVIOUS
<1> QED
  BY <1>1, <1>2

(* What the kernel makes of a frame is a sequence of events. *)
LEMMA IfType ==
    ASSUME NEW cond, NEW e \in Events
    PROVE  If(cond, e) \in Seq(Events)
  BY DEF If

LEMMA Joined ==
    ASSUME NEW a \in Seq(Events), NEW b \in Seq(Events)
    PROVE  a \o b \in Seq(Events) /\ Len(a \o b) = Len(a) + Len(b)
<1>1. a \o b \in Seq(Events)
  OBVIOUS
<1>2. Len(a \o b) = Len(a) + Len(b)
  OBVIOUS
<1> QED
  BY <1>1, <1>2

LEMMA TouchBatch ==
    ASSUME NEW o \in Orders, NEW now
    PROVE  Changes("ts", o)
             \o If((now = {}) # (touching = {}), Event("ts", "btn", now # {}))
             \o <<Event("ts", "syn", None)>> \in Seq(Events)
<1>1. "ts" \in Names /\ {"slot", "id", "btn", "syn"} \subseteq Codes
  BY DEF Names, Codes
<1>2. ASSUME NEW x \in Slots, NEW last
      PROVE  If(x # last, Event("ts", "slot", x))
               \o <<Event("ts", "id", IF x \in touching THEN None ELSE x)>> \in Seq(Events)
  <2>1. PICK v \in Vals : v = IF x \in touching THEN None ELSE x
    BY ValsHave
  <2>2. Event("ts", "slot", x) \in Events /\ Event("ts", "id", v) \in Events
    BY <1>1, ValsHave, EventType
  <2>3. If(x # last, Event("ts", "slot", x)) \in Seq(Events)
    BY <2>2, IfType
  <2> QED
    BY <2>1, <2>2, <2>3
<1>3. o[1] \in Slots /\ (Len(o) # 1 => o[2] \in Slots)
  BY DEF Orders
<1>4. Changes("ts", o) \in Seq(Events)
  <2>1. PICK a : a = If(o[1] # slot, Event("ts", "slot", o[1]))
                       \o <<Event("ts", "id", IF o[1] \in touching THEN None ELSE o[1])>>
    OBVIOUS
  <2>2. PICK b : b = If(o[2] # o[1], Event("ts", "slot", o[2]))
                       \o <<Event("ts", "id", IF o[2] \in touching THEN None ELSE o[2])>>
    OBVIOUS
  <2>3. Changes("ts", o) = a \o (IF Len(o) = 1 THEN <<>> ELSE b)
    BY <2>1, <2>2 DEF Changes
  <2>4. a \in Seq(Events)
    BY <1>2, <1>3, <2>1
  <2>5. Len(o) # 1 => b \in Seq(Events)
    BY <1>2, <1>3, <2>2
  <2>6. CASE Len(o) = 1
    <3>1. Changes("ts", o) = a \o <<>>
      BY <2>3, <2>6
    <3> QED
      BY <2>4, <3>1
  <2>7. CASE Len(o) # 1
    <3>1. Changes("ts", o) = a \o b
      BY <2>3, <2>7
    <3> QED
      BY <2>4, <2>5, <2>7, <3>1, Joined
  <2> QED
    BY <2>6, <2>7
<1>5. If((now = {}) # (touching = {}), Event("ts", "btn", now # {})) \in Seq(Events)
  <2>1. PICK v \in BOOLEAN : v = (now # {})
    OBVIOUS
  <2>2. Event("ts", "btn", v) \in Events
    BY <1>1, ValsHave, EventType
  <2> QED
    BY <2>1, <2>2, IfType
<1>6. <<Event("ts", "syn", None)>> \in Seq(Events)
  <2>1. Event("ts", "syn", None) \in Events
    BY <1>1, ValsHave, EventType
  <2> QED
    BY <2>1
<1> QED
  BY <1>4, <1>5, <1>6

LEMMA PenBatch ==
    ASSUME pen \in PenStates, NEW p \in PenStates
    PROVE  If(pen.tool # p.tool /\ pen.tool # None, Event("pen", pen.tool, FALSE))
           \o If(pen.tool # p.tool /\ p.tool # None, Event("pen", p.tool, TRUE))
           \o If(pen.touch # p.touch, Event("pen", "touch", p.touch))
           \o If(pen.stylus # p.stylus, Event("pen", "stylus", p.stylus))
           \o <<Event("pen", "syn", None)>> \in Seq(Events)
<1>1. "pen" \in Names /\ {"pen", "rubber", "touch", "stylus", "syn"} \subseteq Codes
  BY DEF Names, Codes
<1>2. /\ pen.tool \in {None, "pen", "rubber"} /\ p.tool \in {None, "pen", "rubber"}
      /\ p.touch \in BOOLEAN /\ p.stylus \in BOOLEAN
  BY DEF PenStates
<1>3. /\ FALSE \in Vals /\ TRUE \in Vals /\ p.touch \in Vals /\ p.stylus \in Vals
  BY <1>2, ValsHave
<1>4. ASSUME NEW t \in {None, "pen", "rubber"}, NEW b \in Vals, NEW cond
      PROVE  If(cond /\ t # None, Event("pen", t, b)) \in Seq(Events)
  <2>1. CASE t = None
    BY <2>1 DEF If
  <2>2. CASE t # None
    <3>1. Event("pen", t, b) \in Events
      BY <1>1, <2>2, EventType
    <3> QED
      BY <3>1, IfType
  <2> QED
    BY <2>1, <2>2
<1>5. /\ If(pen.tool # p.tool /\ pen.tool # None, Event("pen", pen.tool, FALSE)) \in Seq(Events)
      /\ If(pen.tool # p.tool /\ p.tool # None, Event("pen", p.tool, TRUE)) \in Seq(Events)
  BY <1>2, <1>3, <1>4
<1>6. /\ Event("pen", "touch", p.touch) \in Events
      /\ Event("pen", "stylus", p.stylus) \in Events
      /\ Event("pen", "syn", None) \in Events
  BY <1>1, <1>3, ValsHave, EventType
<1>7. /\ If(pen.touch # p.touch, Event("pen", "touch", p.touch)) \in Seq(Events)
      /\ If(pen.stylus # p.stylus, Event("pen", "stylus", p.stylus)) \in Seq(Events)
  BY <1>6, IfType
<1>8. ASSUME NEW a \in Seq(Events), NEW b \in Seq(Events), NEW c \in Seq(Events),
             NEW e \in Seq(Events), NEW f \in Events
      PROVE  a \o b \o c \o e \o <<f>> \in Seq(Events)
  <2>1. a \o b \in Seq(Events)
    OBVIOUS
  <2>2. a \o b \o c \in Seq(Events)
    BY <2>1
  <2>3. a \o b \o c \o e \in Seq(Events)
    BY <2>2
  <2> QED
    BY <2>3
<1> QED
  BY <1>5, <1>6, <1>7, <1>8

(* While the session is live, no event has been lost at the channel; and     *)
(* where the kernel has lost some of a device, the next read of it begins    *)
(* with SYN_DROPPED and ends the session.  So what is read has no gap.       *)
GapInv ==
    /\ kbuf \in [Devs -> Seq(Events)]
    /\ lost \in [Devs -> SUBSET {"kernel", "channel"}]
    /\ ch \in Seq(Events)
    /\ pen \in PenStates
    /\ GapNeverBridged
    /\ ctx = "live" => \A d \in Devs :
          /\ "channel" \notin lost[d]
          /\ "kernel" \in lost[d] => Len(kbuf[d]) > 0 /\ kbuf[d][1].c = "dropped"
          /\ "kernel" \notin lost[d] => \A i \in 1 .. Len(kbuf[d]) : ~kbuf[d][i].gap

LEMMA PutStep ==
    ASSUME GapInv, NEW d \in Names, NEW es \in Seq(Events), Put(d, es), pen' \in PenStates
    PROVE  GapInv'
<1>1. UNCHANGED <<ch, ctx>> /\ ctx = "live"
  BY DEF Put, sess
<1>2. PICK g \in BOOLEAN : g = ("kernel" \in lost[d])
  <2>1. ("kernel" \in lost[d]) \in BOOLEAN
    OBVIOUS
  <2> WITNESS ("kernel" \in lost[d]) \in BOOLEAN
  <2> QED
    OBVIOUS
<1>3. PICK ts \in Seq(Events) :
        /\ ts = [i \in DOMAIN es |-> [es[i] EXCEPT !.gap = g]]
        /\ ~g => \A i \in 1 .. Len(ts) : ~ts[i].gap
  <2>1. DOMAIN es = 1 .. Len(es) /\ Len(es) \in Nat
    OBVIOUS
  <2>2. PICK ts \in Seq(Events) : ts = [i \in DOMAIN es |-> [es[i] EXCEPT !.gap = g]]
    BY Stamped
  <2>3. Len(ts) = Len(es)
    BY <2>1, <2>2
  <2> QED
    BY <2>1, <2>2, <2>3, Stamped
<1>4. PICK dr \in Events : dr = Event(d, "dropped", None) /\ dr.c = "dropped" /\ ~dr.gap
  <2>1. "dropped" \in Codes
    BY DEF Codes
  <2> QED
    BY <2>1, ValsHave, EventType
<1>5. \/ kbuf' = [kbuf EXCEPT ![d] = @ \o ts] /\ UNCHANGED lost
      \/ kbuf' = [kbuf EXCEPT ![d] = <<dr>>] /\ lost' = [lost EXCEPT ![d] = @ \cup {"kernel"}]
  BY <1>2, <1>3, <1>4 DEF Put
<1>6. CASE d \notin Devs
  <2>1. kbuf' = kbuf /\ lost' = lost
    BY <1>5, <1>6 DEF GapInv
  <2> QED
    BY <1>1, <2>1 DEF GapInv, GapNeverBridged
<1>7. CASE d \in Devs
  <2>1. \A e \in Devs : e # d => kbuf'[e] = kbuf[e] /\ lost'[e] = lost[e]
    BY <1>5 DEF GapInv
  <2>2. CASE kbuf' = [kbuf EXCEPT ![d] = @ \o ts] /\ UNCHANGED lost
    <3>1. PICK k \in Seq(Events) : k = kbuf[d]
      BY <1>7 DEF GapInv
    <3>2. kbuf'[d] = k \o ts /\ k \o ts \in Seq(Events)
      BY <1>7, <2>2, <3>1 DEF GapInv
    <3>3. /\ Len(k \o ts) = Len(k) + Len(ts)
          /\ \A i \in 1 .. Len(k) : (k \o ts)[i] = k[i]
          /\ \A i \in 1 .. Len(k) + Len(ts) : i > Len(k) => (k \o ts)[i] = ts[i - Len(k)]
      OBVIOUS
    <3>4. g => Len(k \o ts) > 0 /\ (k \o ts)[1].c = "dropped"
      <4>1. g => Len(k) > 0 /\ k[1].c = "dropped"
        BY <1>1, <1>2, <1>7, <3>1 DEF GapInv
      <4>2. Len(k) \in Nat /\ Len(ts) \in Nat
        OBVIOUS
      <4>3. Len(k) > 0 => Len(k \o ts) > 0 /\ (k \o ts)[1] = k[1]
        BY <3>3, <4>2
      <4> QED
        BY <4>1, <4>3
    <3>5. ASSUME ~g, NEW i \in 1 .. Len(k \o ts) PROVE ~(k \o ts)[i].gap
      <4>1. \A j \in 1 .. Len(k) : ~k[j].gap
        BY <1>1, <1>2, <1>7, <3>1, <3>5 DEF GapInv
      <4>2. CASE i \in 1 .. Len(k)
        BY <3>3, <4>1, <4>2
      <4>3. CASE i > Len(k)
        <5>1. i - Len(k) \in 1 .. Len(ts)
          BY <3>3, <3>5, <4>3
        <5> QED
          BY <1>3, <3>3, <3>5, <4>3, <5>1
      <4> QED
        BY <3>5, <4>2, <4>3
    <3>6. kbuf' \in [Devs -> Seq(Events)]
      BY <1>7, <2>2, <3>1, <3>2 DEF GapInv
    <3> QED
      BY <1>1, <1>2, <2>1, <2>2, <3>2, <3>4, <3>5, <3>6 DEF GapInv, GapNeverBridged
  <2>3. CASE kbuf' = [kbuf EXCEPT ![d] = <<dr>>] /\ lost' = [lost EXCEPT ![d] = @ \cup {"kernel"}]
    <3>1. kbuf'[d] = <<dr>> /\ lost'[d] = lost[d] \cup {"kernel"}
      BY <1>7, <2>3 DEF GapInv
    <3>2. kbuf' \in [Devs -> Seq(Events)] /\ lost' \in [Devs -> SUBSET {"kernel", "channel"}]
      BY <1>4, <1>7, <2>3, <3>1 DEF GapInv
    <3>3. Len(<<dr>>) > 0 /\ <<dr>>[1].c = "dropped"
      BY <1>4
    <3>4. "kernel" \in lost'[d] /\ ("channel" \in lost'[d] => "channel" \in lost[d])
      BY <3>1
    <3>5. ASSUME NEW e \in Devs
          PROVE  /\ "channel" \notin lost'[e]
                 /\ "kernel" \in lost'[e] => Len(kbuf'[e]) > 0 /\ kbuf'[e][1].c = "dropped"
                 /\ "kernel" \notin lost'[e] => \A i \in 1 .. Len(kbuf'[e]) : ~kbuf'[e][i].gap
      <4>1. CASE e = d
        BY <1>1, <3>1, <3>3, <3>4, <4>1 DEF GapInv
      <4>2. CASE e # d
        BY <1>1, <2>1, <4>2 DEF GapInv
      <4> QED
        BY <4>1, <4>2
    <3> QED
      BY <1>1, <3>2, <3>5 DEF GapInv, GapNeverBridged
  <2> QED
    BY <1>5, <2>2, <2>3
<1> QED
  BY <1>6, <1>7

LEMMA GapInit == Init => GapInv
<1> SUFFICES ASSUME Init PROVE GapInv
  OBVIOUS
<1>1. /\ kbuf \in [Devs -> Seq(Events)] /\ \A d \in Devs : kbuf[d] = <<>>
      /\ lost \in [Devs -> SUBSET {"kernel", "channel"}] /\ \A d \in Devs : lost[d] = {}
  BY DEF Init
<1>2. ch = <<>> /\ ch \in Seq(Events) /\ GapNeverBridged
  BY DEF Init, GapNeverBridged
<1>3. pen \in PenStates
  BY StartsAssumption DEF Init
<1>4. \A i \in 1 .. Len(<<>>) : FALSE
  OBVIOUS
<1> QED
  BY <1>1, <1>2, <1>3, <1>4 DEF GapInv

(* A step that leaves the kernel's side alone, adds nothing to the channel   *)
(* and does not bring the session back to life.                              *)
LEMMA QuietStep ==
    ASSUME GapInv, UNCHANGED <<kbuf, lost, pen>>, ctx' \in {ctx, "done"},
           ch' = ch \/ (ch # <<>> /\ ch' = Tail(ch))
    PROVE  GapInv'
<1>1. ch' \in Seq(Events) /\ GapNeverBridged'
  <2>1. CASE ch' = ch
    BY <2>1 DEF GapInv, GapNeverBridged
  <2>2. CASE ch # <<>> /\ ch' = Tail(ch)
    <3>1. ch \in Seq(Events) /\ \A i \in 1 .. Len(ch) : ~ch[i].gap
      BY DEF GapInv, GapNeverBridged
    <3>2. ch' \in Seq(Events) /\ Len(ch') = Len(ch) - 1 /\ Len(ch) \in Nat
          /\ \A i \in 1 .. Len(ch') : ch'[i] = ch[i + 1]
      BY <2>2, <3>1
    <3>3. \A i \in 1 .. Len(ch') : i + 1 \in 1 .. Len(ch)
      BY <3>2
    <3> QED
      BY <3>1, <3>2, <3>3 DEF GapNeverBridged
  <2> QED
    BY <2>1, <2>2
<1> QED
  BY <1>1 DEF GapInv

(* What is read from a buffer is its beginning. *)
LEMMA Prefix ==
    ASSUME NEW k \in Seq(Events), NEW n \in 1 .. Len(k)
    PROVE  /\ SubSeq(k, 1, n) \in Seq(Events) /\ Len(SubSeq(k, 1, n)) = n
           /\ \A i \in 1 .. n : SubSeq(k, 1, n)[i] = k[i]
           /\ SubSeq(k, n + 1, Len(k)) \in Seq(Events)
           /\ Len(SubSeq(k, n + 1, Len(k))) = Len(k) - n
           /\ \A i \in 1 .. Len(k) - n : SubSeq(k, n + 1, Len(k))[i] = k[n + i]
  OBVIOUS

(* The channel takes a beginning of a batch. *)
LEMMA FitsPart ==
    ASSUME NEW es \in Seq(Events), ch \in Seq(Events)
    PROVE  \E m \in 0 .. Len(es) : DOMAIN Fits(es) = 1 .. m
<1>1. ChanCap \in Nat /\ Len(ch) \in Nat /\ Len(es) \in Nat
  BY InputAssumption
<1>2. CASE Len(es) < ChanCap - Len(ch)
  BY <1>1, <1>2 DEF Fits
<1>3. CASE ~(Len(es) < ChanCap - Len(ch)) /\ ChanCap - Len(ch) >= 0
  BY <1>1, <1>3 DEF Fits
<1>4. CASE ChanCap - Len(ch) < 0
  <2>1. Fits(es) = SubSeq(es, 1, ChanCap - Len(ch))
    BY <1>1, <1>4 DEF Fits
  <2>2. DOMAIN Fits(es) = {}
    BY <1>1, <1>4, <2>1
  <2>3. 1 .. 0 = {} /\ 0 \in 0 .. Len(es)
    BY <1>1
  <2> QED
    BY <2>2, <2>3
<1> QED
  BY <1>1, <1>2, <1>3, <1>4

LEMMA DeliverStep ==
    ASSUME GapInv, NEW d \in Devs, NEW es \in Seq(Events), Deliver(d, es),
           "channel" \notin lost[d], \A i \in 1 .. Len(es) : ~es[i].gap
    PROVE  ch' \in Seq(Events) /\ GapNeverBridged'
<1>1. ch \in Seq(Events) /\ \A i \in 1 .. Len(ch) : ~ch[i].gap
  BY DEF GapInv, GapNeverBridged
<1>2. PICK m \in 0 .. Len(es) : DOMAIN Fits(es) = 1 .. m
  BY <1>1, FitsPart
<1>3. PICK g \in BOOLEAN : g = ("channel" \in lost[d])
  <2>1. ("channel" \in lost[d]) \in BOOLEAN
    OBVIOUS
  <2> WITNESS ("channel" \in lost[d]) \in BOOLEAN
  <2> QED
    OBVIOUS
<1>4. PICK ts : ts = [i \in 1 .. m |-> [es[i] EXCEPT !.gap = @ \/ g]]
  OBVIOUS
<1>5. /\ ts \in Seq(Events) /\ Len(ts) = m
      /\ \A i \in 1 .. m : ~g /\ ~es[i].gap => ~[es[i] EXCEPT !.gap = @ \/ g].gap
  BY <1>4, Tagged
<1>6. \A i \in 1 .. m : ~ts[i].gap
  <2>1. ~g
    BY <1>3
  <2>2. \A i \in 1 .. m : i \in 1 .. Len(es)
    BY <1>2
  <2> QED
    BY <1>4, <1>5, <2>1, <2>2
<1>7. ch' = ch \o ts
  BY <1>2, <1>3, <1>4 DEF Deliver
<1>8. ch \o ts \in Seq(Events) /\ Len(ch \o ts) = Len(ch) + m /\ Len(ch) \in Nat
  <2>1. ch \o ts \in Seq(Events) /\ Len(ch \o ts) = Len(ch) + Len(ts)
    BY <1>1, <1>5, Joined
  <2>2. Len(ch) \in Nat
    BY <1>1
  <2> QED
    BY <1>5, <2>1, <2>2
<1>9. ASSUME NEW i \in 1 .. Len(ch) + m PROVE ~(ch \o ts)[i].gap
  <2>1. CASE i <= Len(ch)
    BY <1>1, <1>5, <1>8, <2>1
  <2>2. CASE i > Len(ch)
    <3>1. i - Len(ch) \in 1 .. m /\ (ch \o ts)[i] = ts[i - Len(ch)]
      BY <1>1, <1>5, <1>8, <2>2
    <3> QED
      BY <1>6, <3>1
  <2> QED
    BY <1>8, <2>1, <2>2
<1>10. DOMAIN (ch \o ts) = 1 .. Len(ch) + m
  BY <1>8
<1> QED
  BY <1>7, <1>8, <1>9, <1>10 DEF GapNeverBridged

LEMMA ReadStep ==
    ASSUME GapInv, NEW d \in Devs, ReadEvents(d)
    PROVE  GapInv'
<1>1. pen' = pen
  BY DEF ReadEvents, hands
<1>2. CASE ctx = "done" /\ UNCHANGED <<kbuf, ch, lost, sess>>
  BY <1>1, <1>2, QuietStep DEF sess
<1>3. ASSUME NEW n \in 1 .. Len(kbuf[d]), ctx = "live",
             kbuf' = [kbuf EXCEPT ![d] = SubSeq(@, n + 1, Len(@))],
             IF \E e \in Range(SubSeq(kbuf[d], 1, n)) : e.c = "dropped"
             THEN fail("lost") /\ Ends(d) /\ UNCHANGED <<ch, lost>>
             ELSE Send(d, SubSeq(kbuf[d], 1, n))
      PROVE  GapInv'
  <2>1. PICK k \in Seq(Events) : k = kbuf[d]
    BY DEF GapInv
  <2>2. PICK es : es = SubSeq(k, 1, n)
    OBVIOUS
  <2>3. PICK rest : rest = SubSeq(k, n + 1, Len(k))
    OBVIOUS
  <2>4. /\ es \in Seq(Events) /\ Len(es) = n /\ \A i \in 1 .. n : es[i] = k[i]
        /\ rest \in Seq(Events) /\ Len(rest) = Len(k) - n
        /\ \A i \in 1 .. Len(k) - n : rest[i] = k[n + i]
    BY <1>3, <2>1, <2>2, <2>3, Prefix
  <2>5. kbuf' \in [Devs -> Seq(Events)] /\ kbuf'[d] = rest /\ \A e \in Devs : e # d => kbuf'[e] = kbuf[e]
    BY <1>3, <2>1, <2>3, <2>4 DEF GapInv
  <2>6. "channel" \notin lost[d]
    BY <1>3 DEF GapInv
  <2>7. CASE \E e \in Range(es) : e.c = "dropped"
    <3>1. UNCHANGED <<ch, lost>> /\ ctx' = "done"
      BY <1>3, <2>1, <2>2, <2>7 DEF fail
    <3> QED
      BY <1>1, <2>5, <3>1 DEF GapInv, GapNeverBridged
  <2>8. CASE ~\E e \in Range(es) : e.c = "dropped"
    <3>1. Send(d, es)
      BY <1>3, <2>1, <2>2, <2>8
    <3>2. "kernel" \notin lost[d]
      <4>1. Range(es) = {es[i] : i \in DOMAIN es}
        BY DEF Range
      <4>2. 1 \in DOMAIN es /\ es[1] = k[1]
        BY <1>3, <2>1, <2>4
      <4>3. es[1] \in Range(es)
        BY <4>1, <4>2
      <4>4. k[1].c # "dropped"
        BY <2>8, <4>2, <4>3
      <4> QED
        BY <1>3, <2>1, <4>4 DEF GapInv
    <3>3. \A i \in 1 .. Len(k) : ~k[i].gap
      BY <1>3, <2>1, <3>2 DEF GapInv
    <3>4. Len(k) \in Nat /\ n \in 1 .. Len(k)
      BY <1>3, <2>1
    <3>5. \A i \in 1 .. Len(es) : ~es[i].gap
      BY <2>4, <3>3, <3>4
    <3>6. \A i \in 1 .. Len(rest) : ~rest[i].gap
      <4>1. \A i \in 1 .. Len(k) - n : n + i \in 1 .. Len(k)
        BY <3>4
      <4> QED
        BY <2>4, <3>3, <4>1
    <3>7. ch' \in Seq(Events) /\ GapNeverBridged'
      BY <2>4, <2>6, <3>1, <3>5, DeliverStep DEF Send
    <3>8. CASE Fits(es) = es
      <4>1. UNCHANGED <<ctx, lost>>
        BY <3>1, <3>8 DEF Send, sess
      <4>2. ASSUME NEW e \in Devs
            PROVE  /\ "channel" \notin lost'[e]
                   /\ "kernel" \in lost'[e] => Len(kbuf'[e]) > 0 /\ kbuf'[e][1].c = "dropped"
                   /\ "kernel" \notin lost'[e] => \A i \in 1 .. Len(kbuf'[e]) : ~kbuf'[e][i].gap
        <5>1. CASE e = d
          BY <2>5, <2>6, <3>2, <3>6, <4>1, <5>1
        <5>2. CASE e # d
          BY <1>3, <2>5, <4>1, <5>2 DEF GapInv
        <5> QED
          BY <5>1, <5>2
      <4>3. lost' \in [Devs -> SUBSET {"kernel", "channel"}]
        BY <4>1 DEF GapInv
      <4> QED
        BY <1>1, <2>5, <3>7, <4>2, <4>3 DEF GapInv
    <3>9. CASE Fits(es) # es
      <4>1. ctx' = "done" /\ lost' = [lost EXCEPT ![d] = @ \cup {"channel"}]
        BY <3>1, <3>9 DEF Send, fail
      <4>2. lost' \in [Devs -> SUBSET {"kernel", "channel"}]
        BY <4>1 DEF GapInv
      <4> QED
        BY <1>1, <2>5, <3>7, <4>1, <4>2 DEF GapInv
    <3> QED
      BY <3>8, <3>9
  <2> QED
    BY <2>7, <2>8
<1> QED
  BY <1>2, <1>3 DEF ReadEvents

LEMMA GapStep == GapInv /\ [Next]_vars => GapInv'
<1> SUFFICES ASSUME GapInv, [Next]_vars PROVE GapInv'
  OBVIOUS
<1>1. ASSUME NEW o \in Orders, TouchFrame(o) PROVE GapInv'
  <2>1. PICK now : now = (touching \ Range(o)) \cup (Range(o) \ touching)
    OBVIOUS
  <2>2. PICK es \in Seq(Events) :
          es = Changes("ts", o)
               \o If((now = {}) # (touching = {}), Event("ts", "btn", now # {}))
               \o <<Event("ts", "syn", None)>>
    BY TouchBatch
  <2>3. Put("ts", es) /\ pen' = pen
    BY <1>1, <2>1, <2>2 DEF TouchFrame
  <2>4. "ts" \in Names /\ pen' \in PenStates
    BY <2>3 DEF Names, GapInv
  <2> QED
    BY <2>3, <2>4, PutStep
<1>2. ASSUME NEW p \in PenStates, PenFrame(p) PROVE GapInv'
  <2>1. pen \in PenStates
    BY DEF GapInv
  <2>2. PICK es \in Seq(Events) :
          es = If(pen.tool # p.tool /\ pen.tool # None, Event("pen", pen.tool, FALSE))
               \o If(pen.tool # p.tool /\ p.tool # None, Event("pen", p.tool, TRUE))
               \o If(pen.touch # p.touch, Event("pen", "touch", p.touch))
               \o If(pen.stylus # p.stylus, Event("pen", "stylus", p.stylus))
               \o <<Event("pen", "syn", None)>>
    BY <2>1, PenBatch
  <2>3. Put("pen", es) /\ pen' = p
    BY <1>2, <2>2 DEF PenFrame
  <2>4. "pen" \in Names /\ pen' \in PenStates
    BY <2>3 DEF Names
  <2> QED
    BY <2>3, <2>4, PutStep
<1>3. ASSUME NEW d \in Devs, OtherEvent(d) PROVE GapInv'
  <2>1. d \in Names /\ "key" \in Codes
    BY DEF Names, Codes
  <2>2. PICK e \in Events : e = Event(d, "key", None)
    BY <2>1, ValsHave, EventType
  <2>3. PICK es \in Seq(Events) : es = <<e>>
    <3>1. <<e>> \in Seq(Events)
      OBVIOUS
    <3> QED
      BY <3>1
  <2>4. Put(d, es) /\ pen' \in PenStates
    BY <1>3, <2>2, <2>3 DEF OtherEvent, hands, GapInv
  <2> QED
    BY <2>1, <2>4, PutStep
<1>4. ASSUME NEW d \in Devs, ReadFails(d) PROVE GapInv'
  BY <1>4, QuietStep DEF ReadFails, fail, kernel, hands
<1>5. CASE OpenNext \/ NextTest \/ UntilTop \/ TimeUp
  BY <1>5, QuietStep DEF OpenNext, NextTest, UntilTop, TimeUp, outside, kernel, hands, sess
<1>6. CASE Drain
  BY <1>6, QuietStep DEF Drain, Heed, fail, outside, kernel, hands, sess
<1>7. CASE UntilSelect
  BY <1>7, QuietStep DEF UntilSelect, Heed, fail, outside, kernel, hands, sess
<1>8. CASE Interrupt \/ Close
  BY <1>8, QuietStep DEF Interrupt, Close, outside, kernel, hands
<1>9. CASE UNCHANGED vars
  BY <1>9, QuietStep DEF vars, kernel, hands, sess
<1> QED
  BY <1>1, <1>2, <1>3, <1>4, <1>5, <1>6, <1>7, <1>8, <1>9, ReadStep DEF Next, Main

(* No event made after a lost one of its device, at the kernel's buffer or   *)
(* at the channel, reaches a test: the loss ends the session before it       *)
(* (input.go:389-407), for any devices, any capacities and any frames.       *)
THEOREM LostEventsEndTheSession == Spec => []GapNeverBridged
<1>1. GapInv => GapNeverBridged
  BY DEF GapInv
<1> QED
  BY GapInit, GapStep, <1>1, PTL DEF Spec
=============================================================================
