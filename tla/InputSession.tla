---------------------------- MODULE InputSession ----------------------------
(***************************************************************************)
(* The interactive input tests of tools/hwtest (input.go): one reader      *)
(* goroutine per board device feeds a bounded channel, the test goroutine  *)
(* drains it, waits on it with a deadline and judges what it saw.  Lost    *)
(* events, a failed read or an interrupt end the whole session.            *)
(*                                                                         *)
(* The touchscreen's events are those of the multitouch protocol and the   *)
(* pen's are its keys, made by the kernel (external) from what fingers and *)
(* pen do; of the other devices an event only matters to the test that     *)
(* waits for it.                                                           *)
(***************************************************************************)
EXTENDS Naturals, Sequences, FiniteSets, SequencesExt

CONSTANTS
    Boards,    \* names of the board's devices in the order they are opened
    Tests,     \* the tests in order: name and device
    Slots,     \* contacts of the touchscreen
    ChanCap,   \* capacity of the channel (4096)
    KernCap,   \* capacity of the kernel's buffer of one device
    Want,      \* contacts asked for (5)
    Starts,    \* how things may be at the start, and a bound: the frames a device may make
    Endless,   \* a budget that does not run out
    None

ASSUME InputAssumption ==
    /\ {ChanCap, KernCap, Want} \subseteq Nat \ {0}
    /\ Slots \subseteq Nat /\ "ts" \in Range(Boards)

Devs == Range(Boards)

VARIABLES
    present,                       \* devices there are
    touching, slot, pen, frames,   \* fingers; the kernel's last slot; the pen; frames left
    most, did,                     \* most fingers in a frame so far; what the pen did in one
    kbuf, lost,                    \* the kernel's buffer; where events of the device have been lost
    reader, fds,                   \* per device: the goroutine, its descriptor
    ch, failure, errCh, ctx,       \* the session
    pc, test, left, timeUp,        \* the test goroutine
    tr, pt,                        \* touchTracker; penTipTracker and penTest's flags
    verdict                        \* of the last test, or how the session ended

hands   == <<touching, slot, pen, most, did>>
kernel  == <<present, hands, frames, kbuf>>
readers == <<reader, fds>>
sess    == <<failure, errCh, ctx>>
trackers == <<tr, pt>>
main    == <<pc, test, left, timeUp, trackers, verdict>>
vars == <<kernel, lost, readers, ch, sess, main>>

Event(d, c, v) == [dev |-> d, c |-> c, v |-> v, gap |-> FALSE]

(* touchTracker: nothing is known of slots and contacts until a complete     *)
(* frame with BTN_TOUCH 0.                                                   *)
Fresh == [active |-> {}, slot |-> None, synced |-> FALSE, touch |-> None, peak |-> 0]

(* penTipTracker and the flags of penTest: key states are unknown at first.  *)
FreshPen == [pen |-> None, touch |-> None, last |-> None, evidence |-> {}]

(* A pen: the tool in proximity, if any, and whether tip and barrel button   *)
(* are pressed.                                                              *)
PenStates ==
    {p \in [tool : {None, "pen", "rubber"}, touch : BOOLEAN, stylus : BOOLEAN] :
        p.tool = None => ~p.touch /\ ~p.stylus}

ASSUME StartsAssumption ==
    \A k \in Starts : k.touching \subseteq Slots /\ k.slot \in Slots /\ k.pen \in PenStates

TypeOK ==
    /\ touching \subseteq Slots /\ slot \in Slots /\ pen \in PenStates /\ ctx \in {"live", "done"}
    /\ reader \in [Devs -> {"off", "read", "done"}]
    /\ fds \in [Devs -> {"none", "open", "closed"}]
    /\ Len(ch) <= ChanCap /\ \A d \in Devs : Len(kbuf[d]) <= KernCap
    /\ failure \in {None, "lost", "read"}
    /\ pc \in {"open", "drain", "top", "select", "next", "close", "closed"}
    /\ tr.active \subseteq Slots

Init ==
    /\ \E k \in Starts :
          present = k.present /\ touching = k.touching /\ slot = k.slot /\ pen = k.pen /\ frames = k.frames
    /\ most = Cardinality(touching) /\ did = {}
    /\ kbuf = [d \in Devs |-> <<>>] /\ lost = [d \in Devs |-> {}]
    /\ reader = [d \in Devs |-> "off"]
    /\ fds = [d \in Devs |-> "none"]
    /\ ch = <<>> /\ failure = None /\ errCh = FALSE /\ ctx = "live"
    /\ pc = "open" /\ test = 1 /\ left = 1 /\ timeUp = FALSE
    /\ tr = Fresh /\ pt = FreshPen /\ verdict = None

-----------------------------------------------------------------------------
(* The kernel. *)

If(cond, e) == IF cond THEN <<e>> ELSE <<>>

(* The events of a frame in which the slots of order, one or two, change. *)
Changes(d, order) ==
    LET change(s, last) == If(s # last, Event(d, "slot", s))
                           \o <<Event(d, "id", IF s \in touching THEN None ELSE s)>>
    IN  change(order[1], slot)
        \o (IF Len(order) = 1 THEN <<>> ELSE change(order[2], order[1]))

(* A full buffer is emptied and holds SYN_DROPPED.  Nobody reads what comes  *)
(* after the cancellation.                                                   *)
Put(d, es) ==
    /\ fds[d] = "open" /\ ctx = "live" /\ frames[d] # 0
    /\ frames' = [frames EXCEPT ![d] = IF @ = Endless THEN @ ELSE @ - 1]
    /\ IF Len(kbuf[d]) + Len(es) <= KernCap
       THEN /\ kbuf' = [kbuf EXCEPT ![d] =
                    @ \o [i \in DOMAIN es |-> [es[i] EXCEPT !.gap = "kernel" \in lost[d]]]]
            /\ UNCHANGED lost
       ELSE /\ kbuf' = [kbuf EXCEPT ![d] = <<Event(d, "dropped", None)>>]
            /\ lost' = [lost EXCEPT ![d] = @ \cup {"kernel"}]
    /\ UNCHANGED <<present, readers, ch, sess, main>>

TouchFrame(order) ==
    LET now == (touching \ Range(order)) \cup (Range(order) \ touching)
    IN  /\ touching' = now /\ slot' = Last(order)
        /\ most' = IF Cardinality(now) > most THEN Cardinality(now) ELSE most
        /\ Put("ts", Changes("ts", order)
                     \o If((now = {}) # (touching = {}), Event("ts", "btn", now # {}))
                     \o <<Event("ts", "syn", None)>>)
    /\ UNCHANGED <<pen, did>>

(* A frame of the pen: the keys that changed.  What it amounts to is what a  *)
(* look at the keys at its end shows.                                        *)
PenFrame(p) ==
    /\ p # pen /\ pen' = p
    /\ did' = did \cup (IF p.tool = "pen" /\ p.touch THEN {"tip"} ELSE {})
                  \cup (IF p.stylus THEN {"barrel"} ELSE {})
                  \cup (IF p.tool = None THEN {} ELSE {p.tool})
    /\ Put("pen", If(pen.tool # p.tool /\ pen.tool # None, Event("pen", pen.tool, FALSE))
                  \o If(pen.tool # p.tool /\ p.tool # None, Event("pen", p.tool, TRUE))
                  \o If(pen.touch # p.touch, Event("pen", "touch", p.touch))
                  \o If(pen.stylus # p.stylus, Event("pen", "stylus", p.stylus))
                  \o <<Event("pen", "syn", None)>>)
    /\ UNCHANGED <<touching, slot, most>>

OtherEvent(d) ==
    /\ d \notin {"ts", "pen"} /\ Put(d, <<Event(d, "key", None)>>)
    /\ UNCHANGED hands

-----------------------------------------------------------------------------
(* The session. *)

(* The first error wins, and cancels. *)
fail(err) ==
    /\ failure' = IF failure = None THEN err ELSE failure
    /\ errCh' = (errCh \/ failure = None) /\ ctx' = "done"

sessionError == IF failure # None THEN failure ELSE IF ctx = "done" THEN "cancelled" ELSE None

(* The run is interrupted: the parent context is cancelled. *)
Interrupt ==
    /\ ctx = "live" /\ ctx' = "done"
    /\ UNCHANGED <<kernel, lost, readers, ch, failure, errCh, main>>

Ends(d) == reader' = [reader EXCEPT ![d] = "done"]

(* What of a batch fits the channel. *)
Fits(es) == SubSeq(es, 1, IF Len(es) < ChanCap - Len(ch) THEN Len(es) ELSE ChanCap - Len(ch))

Deliver(d, es) ==
    ch' = ch \o [i \in DOMAIN Fits(es) |-> [es[i] EXCEPT !.gap = @ \/ "channel" \in lost[d]]]

(* Variant: events the channel has no room for are left out. *)
SendSkips(d, es) ==
    /\ Deliver(d, es) /\ UNCHANGED <<reader, sess>>
    /\ lost' = IF Fits(es) = es THEN lost ELSE [lost EXCEPT ![d] = @ \cup {"channel"}]

(* The channel takes what fits; one event too many fails the session. *)
Send(d, es) ==
    /\ Deliver(d, es)
    /\ IF Fits(es) = es THEN UNCHANGED <<reader, sess, lost>>
       ELSE fail("lost") /\ Ends(d) /\ lost' = [lost EXCEPT ![d] = @ \cup {"channel"}]

(* One read and the sends of what it returned, any part of the kernel's      *)
(* buffer: to be overtaken between two sends is to have read less.  A batch  *)
(* with SYN_DROPPED in it is thrown away whole.  EAGAIN waits for the next   *)
(* tick.                                                                     *)
ReadEvents(d) ==
    /\ reader[d] = "read"
    /\ \/ ctx = "done" /\ Ends(d) /\ UNCHANGED <<kbuf, ch, lost, sess>>
       \/ \E n \in 1 .. Len(kbuf[d]) :
            LET es == SubSeq(kbuf[d], 1, n)
            IN  /\ ctx = "live" /\ kbuf' = [kbuf EXCEPT ![d] = SubSeq(@, n + 1, Len(@))]
                /\ IF \E e \in Range(es) : e.c = "dropped"
                   THEN fail("lost") /\ Ends(d) /\ UNCHANGED <<ch, lost>>
                   ELSE Send(d, es)
    /\ UNCHANGED <<present, hands, frames, fds, main>>

(* An error, the end of the stream or a torn event fails the session. *)
ReadFails(d) ==
    /\ reader[d] = "read" /\ ctx = "live" /\ fail("read") /\ Ends(d)
    /\ UNCHANGED <<kernel, lost, fds, ch, main>>

-----------------------------------------------------------------------------
(* The test goroutine. *)

outside == <<kernel, lost>>

(* openSession: the next device that is there is opened, grabbed and given   *)
(* its reader; an error, an interrupt seen before it, or no device at all    *)
(* closes what is open.                                                      *)
OpenNext ==
    /\ pc = "open"
    /\ IF left <= Len(Boards)
       THEN \/ /\ sessionError # None /\ pc' = "close" /\ verdict' = sessionError
               /\ UNCHANGED <<fds, reader, left>>
            \/ /\ sessionError = None /\ Boards[left] \notin present
               /\ left' = left + 1 /\ UNCHANGED <<fds, reader, pc, verdict>>
            \/ /\ sessionError = None /\ Boards[left] \in present
               /\ fds' = [fds EXCEPT ![Boards[left]] = "open"]
               /\ reader' = [reader EXCEPT ![Boards[left]] = "read"]
               /\ left' = left + 1 /\ UNCHANGED <<pc, verdict>>
            \/ /\ sessionError = None /\ Boards[left] \in present   \* open, fstat or grab fails
               /\ fds' \in {fds, [fds EXCEPT ![Boards[left]] = "open"]}
               /\ pc' = "close" /\ verdict' = "read" /\ UNCHANGED <<reader, left>>
       ELSE /\ pc' = IF \A d \in Devs : fds[d] = "none" THEN "close" ELSE "next"
            /\ left' = 0 /\ UNCHANGED <<fds, reader, verdict>>
    /\ UNCHANGED <<outside, ch, sess, test, timeUp, trackers>>

(* Between tests.  A device that is absent skips its test, a button's after  *)
(* the drain; without axis bounds the touch and the pen test fail.  After the touch and the pen test a failed session just        *)
(* returns, without a report.                                                *)
Quits == test > 1 /\ Tests[test - 1].name \in {"touch", "pen"} /\ sessionError # None

Absent(t) == Tests[t].dev \notin present

NextTest ==
    /\ pc = "next"
    /\ \/ test > Len(Tests) /\ pc' = "close" /\ UNCHANGED <<test, left>>
       \/ test <= Len(Tests) /\ Quits /\ pc' = "close" /\ UNCHANGED <<test, left>>
       \/ /\ test <= Len(Tests) /\ ~Quits
          /\ \/ Absent(test) /\ Tests[test].name # "key"
             \/ Tests[test].name \in {"touch", "pen"}  \* axis bounds unavailable
          /\ test' = test + 1 /\ UNCHANGED <<pc, left>>
       \/ /\ test <= Len(Tests) /\ ~Quits /\ (Absent(test) => Tests[test].name = "key")
          /\ pc' = "drain" /\ left' = Len(ch) /\ UNCHANGED test
    /\ timeUp' = FALSE /\ tr' = Fresh /\ pt' = FreshPen /\ verdict' = None
    /\ UNCHANGED <<outside, readers, ch, sess>>

Name == Tests[test].name

(* reportInputError, and the end of the session. *)
Leave(err) == pc' = "close" /\ verdict' = err /\ UNCHANGED test
Go(to) == pc' = to /\ UNCHANGED <<test, verdict>>

(* A SYN_DROPPED that comes out of the channel fails the session too. *)
Heed(e, then) == IF e.c = "dropped" THEN fail("lost") /\ Leave("lost") ELSE then /\ UNCHANGED sess

(* drain: as many events as there were when it began. *)
Drain ==
    /\ pc = "drain"
    /\ \/ sessionError # None /\ Leave(sessionError) /\ UNCHANGED <<left, ch, sess>>
       \/ /\ sessionError = None /\ left > 0 /\ ch # <<>>
          /\ left' = left - 1 /\ ch' = Tail(ch) /\ Heed(Head(ch), Go(pc))
       \/ /\ sessionError = None /\ left = 0 /\ UNCHANGED <<left, ch, sess>>
          /\ IF Absent(test) THEN pc' = "next" /\ test' = test + 1 /\ UNCHANGED verdict
                             ELSE Go("top")
    /\ UNCHANGED <<outside, readers, timeUp, trackers>>

(* touchTracker.observe: contacts are counted when a frame is complete; the  *)
(* ids of a slot that has not been named since the last neutral frame are    *)
(* left out.                                                                 *)
TrackerObserve(s, e) ==
    LET on == IF e.v = None THEN s.active \ {s.slot} ELSE s.active \cup {s.slot}
        n == Cardinality(s.active)
    IN  CASE e.c = "btn" -> [s EXCEPT !.touch = e.v]
          [] e.c = "syn" /\ s.touch = FALSE -> [s EXCEPT !.synced = TRUE, !.active = {}, !.slot = None]
          [] e.c = "syn" /\ s.touch = TRUE /\ s.synced -> [s EXCEPT !.peak = IF n > @ THEN n ELSE @]
          [] s.synced /\ e.c = "slot" -> [s EXCEPT !.slot = e.v]
          [] s.synced /\ e.c = "id" /\ s.slot # None -> [s EXCEPT !.active = on]
          [] OTHER -> s

(* Variant: tip contact is taken from the keys, without waiting for the end  *)
(* of the frame.                                                             *)
PenObserveKeys(s, e) ==
    LET t == CASE e.c = "pen" -> [s EXCEPT !.pen = e.v]
               [] e.c = "touch" -> [s EXCEPT !.touch = e.v]
               [] OTHER -> s
    IN  IF t.pen = TRUE /\ t.touch = TRUE THEN [t EXCEPT !.evidence = @ \cup {"tip"}] ELSE t

(* penTipTracker.observe, and penTest's flags.  Tip contact is committed at  *)
(* the end of a frame; "flip" is one tool after the other.                   *)
PenObserve(s, e) ==
    LET tool == [s EXCEPT !.last = e.c,
                          !.pen = IF e.c = "pen" THEN TRUE ELSE @,
                          !.evidence = @ \cup (IF e.c = "rubber" THEN {"eraser"} ELSE {})
                                         \cup (IF s.last \notin {None, e.c} THEN {"flip"} ELSE {})]
    IN  CASE e.c \in {"pen", "rubber"} /\ e.v -> tool
          [] e.c = "pen" /\ ~e.v -> [s EXCEPT !.pen = FALSE]
          [] e.c = "touch" -> [s EXCEPT !.touch = e.v]
          [] e.c = "stylus" /\ e.v -> [s EXCEPT !.evidence = @ \cup {"barrel"}]
          [] e.c = "syn" /\ s.pen = TRUE /\ s.touch = TRUE -> [s EXCEPT !.evidence = @ \cup {"tip"}]
          [] OTHER -> s

(* Does an event end the wait?  The touch and pen tests never say so. *)
Wanted(e) == e.dev = Tests[test].dev /\ Name \notin {"touch", "pen"}

(* reportCoverage: no samples, samples out of range, or how far they reach.  *)
(* Which it is is left open; a failure ends the test before its checks.      *)
reportCoverage == {"fail", "warn", "pass"}

(* The button that was pressed may be another one's, or have another code. *)
keyVerdicts(ok) == IF ok THEN {"pass", "warn", "fail"} ELSE {"fail"}

touchVerdicts ==
    IF ~tr.synced THEN {"skip"}
    ELSE {c \in reportCoverage : c = "fail"} \cup {IF tr.peak >= Want THEN "pass" ELSE "warn"}

(* Every check of the pen passes, with pressure enough or with a warning. *)
penVerdicts ==
    {c \in reportCoverage : c = "fail" \/ pt.evidence = {"tip", "barrel", "eraser", "flip"}}

hallVerdicts(ok) == {IF ok THEN "pass" ELSE "skip"}

Verdicts(ok) ==
    CASE Name = "key"   -> keyVerdicts(ok)
      [] Name = "touch" -> touchVerdicts
      [] Name = "pen"   -> penVerdicts
      [] Name = "hall"  -> hallVerdicts(ok)

(* until returns: an error ends the session, otherwise the test is judged.   *)
Return(ok, err) ==
    IF err # None THEN Leave(err)
    ELSE pc' = "next" /\ test' = test + 1 /\ verdict' \in Verdicts(ok)

(* Variant: the deadline is only looked at in the select. *)
UntilTopNoDeadline ==
    /\ pc = "top" /\ IF sessionError # None THEN Leave(sessionError) ELSE Go("select")
    /\ UNCHANGED <<outside, readers, ch, sess, left, timeUp, trackers>>

(* The head of until's loop. *)
UntilTop ==
    /\ pc = "top"
    /\ CASE sessionError # None -> Leave(sessionError)
         [] sessionError = None /\ timeUp -> Return(FALSE, None)
         [] OTHER -> Go("select")
    /\ UNCHANGED <<outside, readers, ch, sess, left, timeUp, trackers>>

(* The select: any ready case. *)
UntilSelect ==
    /\ pc = "select"
    /\ \/ /\ ch # <<>> /\ ch' = Tail(ch)
          /\ tr' = IF Name = "touch" /\ Head(ch).dev = "ts" THEN TrackerObserve(tr, Head(ch)) ELSE tr
          /\ pt' = IF Name = "pen" /\ Head(ch).dev = "pen" THEN PenObserve(pt, Head(ch)) ELSE pt
          /\ Heed(Head(ch), IF Wanted(Head(ch)) THEN Return(TRUE, sessionError) ELSE Go("top"))
       \/ errCh /\ errCh' = FALSE /\ Leave(failure) /\ UNCHANGED <<ch, trackers, failure, ctx>>
       \/ ctx = "done" /\ Leave(sessionError) /\ UNCHANGED <<ch, trackers, sess>>
       \/ timeUp /\ Return(FALSE, sessionError) /\ UNCHANGED <<ch, trackers, sess>>
    /\ UNCHANGED <<outside, readers, left, timeUp>>

TimeUp ==
    /\ pc \in {"top", "select"} /\ ~timeUp /\ timeUp' = TRUE
    /\ UNCHANGED <<outside, readers, ch, sess, pc, test, left, trackers, verdict>>

(* Variant: the descriptors are closed without waiting for the readers. *)
CloseNow ==
    /\ pc = "close" /\ ctx' = "done"
    /\ fds' = [d \in Devs |-> IF fds[d] = "open" THEN "closed" ELSE fds[d]] /\ pc' = "closed"
    /\ UNCHANGED <<outside, reader, ch, failure, errCh, test, left, timeUp, trackers, verdict>>

(* close: cancel, join the readers, then close the descriptors. *)
Close ==
    /\ pc = "close" /\ ctx' = "done"
    /\ IF \A d \in Devs : reader[d] \in {"off", "done"}
       THEN /\ fds' = [d \in Devs |-> IF fds[d] = "open" THEN "closed" ELSE fds[d]]
            /\ pc' = "closed"
       ELSE ctx # "done" /\ UNCHANGED <<fds, pc>>
    /\ UNCHANGED <<outside, reader, ch, failure, errCh, test, left, timeUp, trackers, verdict>>

-----------------------------------------------------------------------------
Orders == {<<s>> : s \in Slots} \cup {o \in Slots \X Slots : o[1] # o[2]}

Main == OpenNext \/ NextTest \/ Drain \/ UntilTop \/ UntilSelect \/ Close

Next ==
    \/ \E o \in Orders : TouchFrame(o)
    \/ \E p \in PenStates : PenFrame(p)
    \/ \E d \in Devs : OtherEvent(d) \/ ReadEvents(d) \/ ReadFails(d)
    \/ Interrupt \/ Main \/ TimeUp

Spec == Init /\ [][Next]_vars

(* Goroutines run and timers fire; fingers and interrupts owe nothing. *)
FairSpec ==
    /\ Spec /\ WF_vars(Main) /\ WF_vars(TimeUp)
    /\ \A d \in Devs : WF_vars(ReadEvents(d))

-----------------------------------------------------------------------------
(* Properties. *)

(* What the touch and the pen test report was done in some whole frame,      *)
(* wherever in a frame the queue was drained and whatever was down by then:  *)
(* the peak is "a conservative contact lower bound" (input.go:631-636), and  *)
(* the pen's "contact evidence is committed at SYN_REPORT, never across      *)
(* unrelated pen/eraser frames or after a release in the same frame"         *)
(* (input.go:756-758).                                                       *)
EvidenceIsReal ==
    /\ tr.peak <= most
    /\ "tip" \in pt.evidence => "tip" \in did
    /\ "barrel" \in pt.evidence => "barrel" \in did
    /\ "eraser" \in pt.evidence => "rubber" \in did
    /\ "flip" \in pt.evidence => {"pen", "rubber"} \subseteq did

(* No event made after a lost one of its device reaches a test: "lost events *)
(* invalidate this input session" (input.go:389-407).                        *)
GapNeverBridged == \A i \in DOMAIN ch : ~ch[i].gap

(* "Join raw readers before closing: no cross-goroutine close or fd reuse    *)
(* race" (input.go:417-426).                                                 *)
NoReadAfterClose == \A d \in Devs : fds[d] = "closed" => reader[d] # "read"

(* The grab is released: "One absolute deadline cannot be starved by a       *)
(* continuous event stream" (input.go:428), and neither drain nor close can  *)
(* wait for ever.                                                            *)
GrabReleased == <>[](pc = "closed" /\ \A d \in Devs : fds[d] # "open")
=============================================================================
