----------------------------- MODULE ImageWrite -----------------------------
(***************************************************************************)
(* imagewrite.Write (installer/gotools/internal/imagewrite): streaming a   *)
(* root filesystem onto userdata, with the block layer it writes through.  *)
(*                                                                         *)
(* Block 0 is the held-back first MiB (the superblock); blocks 1..Chunks   *)
(* are the chunks copyAt writes.  Session i (the host may retry) sends the *)
(* image whose blocks all have the value i; a chunk damaged on the way has *)
(* the value Damaged.  The previous filesystem is image 0.                 *)
(*                                                                         *)
(* A WriteAt changes the page cache only.  The kernel writes dirty pages   *)
(* back when and in the order it likes; fsync and sync wait for it.  What  *)
(* the comments of imagewrite.go report of this hardware is modelled: a    *)
(* per-descriptor fsync that returns before the pages are on the disk      *)
(* (fsyncLands = FALSE), and a flush that is lost (one fault).             *)
(***************************************************************************)
EXTENDS Integers

CONSTANTS
    Chunks,        \* how many chunks the image body has
    MaxSessions,   \* bound: install sessions the host starts
    MaxFaults,     \* bound: damaged or cut streams, I/O errors, lost flushes
    MaxCuts,       \* bound: power cuts
    Lands          \* the devices there are: does an fsync land on them?

ASSUME ImageWriteAssumption ==
    /\ Chunks \in Nat \ {0} /\ Lands \subseteq BOOLEAN
    /\ MaxSessions \in Nat /\ MaxFaults \in Nat /\ MaxCuts \in Nat

VARIABLES
    pc,        \* where Write is
    session,   \* which session it serves; also the image the host declared
    disk,      \* the partition
    cache,     \* what reads of the partition return
    dirty,     \* the blocks whose cached value is not written back
    first,     \* the superblock window held in memory
    arrived,   \* what the hasher saw, block by block
    done,      \* chunks copyAt has written
    faults, cuts,
    fsyncLands,\* the device: fsync returns once the pages are on the disk
    verified,  \* history: sessions whose digest matched
    unscrubbed \* history: the write of the session's last scrub failed

history == <<verified, unscrubbed>>
vars == <<pc, session, disk, cache, dirty, first, arrived, done, faults, cuts,
          fsyncLands, history>>

device == <<disk, cache, dirty>>

Blocks  == 0 .. Chunks
Zero    == -1
Damaged == -2
Images  == 0 .. MaxSessions
Values  == Images \cup {Zero, Damaged}

Steps == {"idle", "scrub", "scrubSync", "first", "copy", "digest", "super",
          "superSync", "globalSync", "drop", "readBack",
          "reject", "rejectSync", "failed", "ok", "off"}

TypeOK ==
    /\ pc \in Steps
    /\ session \in Images
    /\ disk \in [Blocks -> Values]
    /\ cache \in [Blocks -> Values]
    /\ dirty \subseteq Blocks
    /\ first \in Values
    /\ arrived \in [Blocks -> Values]
    /\ done \in 0 .. Chunks
    /\ faults \in 0 .. MaxFaults
    /\ cuts \in 0 .. MaxCuts
    /\ fsyncLands \in Lands
    /\ verified \subseteq Images /\ unscrubbed \in BOOLEAN

Nothing == [b \in Blocks |-> Zero]

Init ==
    /\ pc = "idle"
    /\ session = 0
    /\ disk = [b \in Blocks |-> 0]
    /\ cache = disk
    /\ dirty = {}
    /\ first = Zero
    /\ arrived = Nothing
    /\ done = 0
    /\ faults = 0
    /\ cuts = 0
    /\ fsyncLands \in Lands
    /\ verified = {} /\ unscrubbed = FALSE

-----------------------------------------------------------------------------
(* The block layer. *)

WriteAt(b, v) ==
    /\ cache' = [cache EXCEPT ![b] = v]
    /\ dirty' = dirty \cup {b}
    /\ UNCHANGED disk

(* The disk once the blocks of S are written back. *)
Flushed(S) == [b \in Blocks |-> IF b \in S THEN cache[b] ELSE disk[b]]

Writeback ==
    /\ pc # "off"
    /\ \E b \in dirty : /\ disk' = Flushed({b})
                        /\ dirty' = dirty \ {b}
    /\ UNCHANGED <<pc, session, cache, first, arrived, done, faults, cuts, fsyncLands, history>>

(* Target.Sync: all dirty pages reach the disk, or, on hardware whose fsync *)
(* does not land, only some of them do before it returns.                   *)
Fsync ==
    /\ \E S \in SUBSET dirty : /\ fsyncLands => S = dirty
                               /\ disk' = Flushed(S)
                               /\ dirty' = dirty \ S
    /\ UNCHANGED cache

Fault == faults < MaxFaults /\ faults' = faults + 1

Goto(s) == pc' = s /\ UNCHANGED <<session, cuts, fsyncLands, history>>

-----------------------------------------------------------------------------
(* Write. *)

(* installd serves the next session; Write starts. *)
Begin ==
    /\ pc \in {"idle", "failed", "ok"}
    /\ session < MaxSessions
    /\ session' = session + 1
    /\ pc' = "scrub"
    /\ first' = Zero /\ arrived' = Nothing /\ done' = 0
    /\ unscrubbed' = FALSE
    /\ UNCHANGED <<device, faults, cuts, fsyncLands, verified>>

(* scrub: the WriteAt and the Sync of the first MiB; an error of either     *)
(* ends the session.                                                        *)
Scrub ==
    /\ pc = "scrub"
    /\ Goto("scrubSync")
    /\ WriteAt(0, Zero)
    /\ UNCHANGED <<first, arrived, done, faults>>

ScrubSync ==
    /\ pc = "scrubSync"
    /\ Goto("first")
    /\ Fsync
    /\ UNCHANGED <<first, arrived, done, faults>>

(* io.ReadFull of the superblock window, through the hasher. *)
ReadFirst ==
    /\ pc = "first"
    /\ Goto("copy")
    /\ \/ first' = session /\ UNCHANGED faults
       \/ first' = Damaged /\ Fault
    /\ arrived' = [arrived EXCEPT ![0] = first']
    /\ UNCHANGED <<device, done>>

(* One turn of copyAt's loop. *)
CopyAt ==
    /\ pc = "copy"
    /\ done < Chunks
    /\ \E v \in {session, Damaged} :
          /\ IF v = Damaged THEN Fault ELSE UNCHANGED faults
          /\ WriteAt(done + 1, v)
          /\ arrived' = [arrived EXCEPT ![done + 1] = v]
    /\ done' = done + 1
    /\ Goto(IF done' = Chunks THEN "digest" ELSE "copy")
    /\ UNCHANGED first

(* The stream ends early, in the middle of a chunk or at its edge: copyAt   *)
(* writes what it got and returns no error, and the count is short.         *)
ShortStream ==
    /\ pc = "copy"
    /\ done < Chunks
    /\ Fault
    /\ Goto("reject")
    /\ \/ WriteAt(done + 1, Damaged)
       \/ UNCHANGED device
    /\ UNCHANGED <<first, arrived, done>>

(* got # wantSHA: the digest is of what arrived. *)
DigestMatches == \A b \in Blocks : arrived[b] = session

(* Variant: the superblock is written whatever the digest is. *)
DigestIgnored ==
    /\ pc = "digest"
    /\ pc' = "super"
    /\ verified' = IF DigestMatches THEN verified \cup {session} ELSE verified
    /\ UNCHANGED <<session, device, first, arrived, done, faults, cuts, fsyncLands, unscrubbed>>

Digest ==
    /\ pc = "digest"
    /\ IF DigestMatches THEN pc' = "super" /\ verified' = verified \cup {session}
                        ELSE pc' = "reject" /\ UNCHANGED verified
    /\ UNCHANGED <<session, device, first, arrived, done, faults, cuts, fsyncLands, unscrubbed>>

Superblock ==
    /\ pc = "super"
    /\ Goto("superSync")
    /\ WriteAt(0, first)
    /\ UNCHANGED <<first, arrived, done, faults>>

SuperSync ==
    /\ pc = "superSync"
    /\ Goto("globalSync")
    /\ Fsync
    /\ UNCHANGED <<first, arrived, done, faults>>

(* Variant: fsync of the descriptor is relied on. *)
NoGlobalSync ==
    /\ pc = "globalSync"
    /\ Goto("drop")
    /\ UNCHANGED <<device, first, arrived, done, faults>>

(* syscall.Sync() forces out every dirty page; a flush may be lost, and the *)
(* page is clean all the same.                                              *)
GlobalSync ==
    /\ pc = "globalSync"
    /\ Goto("drop")
    /\ dirty' = {}
    /\ \/ disk' = Flushed(dirty) /\ UNCHANGED faults
       \/ Fault /\ \E b \in dirty : disk' = Flushed(dirty \ {b})
    /\ UNCHANGED <<cache, first, arrived, done>>

(* drop_caches drops clean pages only; /proc is there in the installer. *)
DropCaches ==
    /\ pc = "drop"
    /\ Goto("readBack")
    /\ cache' = [b \in Blocks |-> IF b \in dirty THEN cache[b] ELSE disk[b]]
    /\ UNCHANGED <<disk, dirty, first, arrived, done, faults>>

(* readBackSHA reads through the page cache. *)
ReadBackMatches == cache = arrived

ReadBack ==
    /\ pc = "readBack"
    /\ Goto(IF ReadBackMatches THEN "ok" ELSE "reject")
    /\ UNCHANGED <<device, first, arrived, done, faults>>

(* The steps where Write returns an error, and where each leads: before the *)
(* body no second scrub follows.                                            *)
AfterError ==
    [s \in {"scrub", "scrubSync", "first", "reject", "rejectSync"} |-> "failed"]

Errs ==
    /\ pc \in {"scrub", "scrubSync", "first", "copy", "super", "superSync",
               "readBack", "reject", "rejectSync"}
    /\ Fault
    /\ pc' = IF pc \in DOMAIN AfterError THEN AfterError[pc] ELSE "reject"
    /\ unscrubbed' = (pc \in {"scrub", "reject"})
    /\ UNCHANGED <<session, device, first, arrived, done, cuts, fsyncLands, verified>>

(* Variant: an error path returns without scrubbing. *)
RejectUnscrubbed ==
    /\ pc = "reject"
    /\ Goto("failed")
    /\ UNCHANGED <<device, first, arrived, done, faults>>

(* `_ = scrub(dst)` on the error path. *)
Reject ==
    /\ pc = "reject"
    /\ Goto("rejectSync")
    /\ WriteAt(0, Zero)
    /\ UNCHANGED <<first, arrived, done, faults>>

RejectSync ==
    /\ pc = "rejectSync"
    /\ Goto("failed")
    /\ Fsync
    /\ UNCHANGED <<first, arrived, done, faults>>

(* The power goes: the page cache is lost.  The next boot reads the disk.   *)
PowerCut ==
    /\ pc # "off"
    /\ cuts < MaxCuts
    /\ cuts' = cuts + 1
    /\ pc' = "off"
    /\ cache' = disk
    /\ dirty' = {}
    /\ UNCHANGED <<session, disk, first, arrived, done, faults, fsyncLands, history>>

PowerOn ==
    /\ pc = "off"
    /\ pc' = "idle"
    /\ UNCHANGED <<session, device, first, arrived, done, faults, cuts, fsyncLands, history>>

Next ==
    \/ Writeback \/ Begin \/ Scrub \/ ScrubSync \/ ReadFirst \/ CopyAt
    \/ ShortStream \/ Digest \/ Superblock \/ SuperSync \/ GlobalSync
    \/ DropCaches \/ ReadBack \/ Errs \/ Reject \/ RejectSync
    \/ PowerCut \/ PowerOn

Spec == Init /\ [][Next]_vars

-----------------------------------------------------------------------------
(* Properties. *)

(* imagewrite.go:124-126: the read-back proves "what actually landed".      *)
(* Success is returned only when every block is on the disk, with an fsync  *)
(* that does not land, damage in transit and one lost flush.                *)
OkMeansOnDisk == pc = "ok" => \A b \in Blocks : disk[b] = session

(* imagewrite.go:16-18: the superblock is "written LAST, so an aborted or   *)
(* corrupt transfer never leaves a mountable filesystem labelled jagar-root *)
(* behind".  A superblock that is on the disk, or that anybody reads from   *)
(* it, is the old filesystem's or that of an image which had arrived whole, *)
(* on a disk whose fsync does not land as on any other.                     *)
VerifiedBeforeMountable == {disk[0], cache[0]} \subseteq {Zero, 0} \cup verified

(* imagewrite.go:21: "any failure scrubs the first MiB".  After any failed  *)
(* session whose last scrub could be written, however many faults there     *)
(* were and whether or not its sync lands, what is read of the superblock   *)
(* is zero, and so is what is on the disk once it has been written back.    *)
FailedReadsScrubbed ==
    pc = "failed" /\ ~unscrubbed => cache[0] = Zero /\ (0 \in dirty \/ disk[0] = Zero)
=============================================================================
