--------------------------- MODULE BootSyncProofs ---------------------------
(***************************************************************************)
(* For any kernels, any number of upgrades, by the timer or the owner, any *)
(* releases and faults: until an upgrade lands on a device that has not    *)
(* settled on the one before (rushed), the device can always come back and *)
(* what is armed is the installed kernel; and the scripts, the bootloader  *)
(* and the power together implement ABSwitch, in which that upgrade is the *)
(* step that ends the promise.                                             *)
(***************************************************************************)
EXTENDS BootSync, BcbProofs

-----------------------------------------------------------------------------
(* The invariant. *)

Images  == Kernels \cup SUBSET Procs
Hashes  == Kernels \cup {NoKernel}
ProcRec == [pc : PCs, sha : Hashes, slot : Slots, want : Hashes, img : Hashes,
            blk : Block]

Types ==
    /\ block \in Block
    /\ image \in [Slots -> Images]
    /\ phase \in {"up", "down"}
    /\ running \in Slots
    /\ installed \in Kernels /\ release \in Kernels
    /\ tested \in [Slots -> BOOLEAN]
    /\ proc \in [Procs -> ProcRec]

(* The script has nothing under way. *)
Rests(r) == r.pc \in {"off", "done"}

(* A script that runs has the device to itself: the trigger is fired only    *)
(* once the boot's oneshot is done, and neither outlives the power.          *)
Turns ==
    /\ \A p \in Procs : ~Rests(proc[p]) => phase = "up"
    /\ \A p, q \in Procs : p # q => Rests(proc[p]) \/ Rests(proc[q])

(* What a device that is up runs from has reached userspace. *)
UpOK == phase = "up" => image[running] \in Good /\ tested[running]

Deploying == {"sums", "fetch", "verify", "slot", "dd", "ddend", "readback",
              "arm", "armwrite"}
Deciding  == {"active", "kernel", "mark", "markwrite", "rmmark"} \cup Deploying

(* Between its start and the end of its arm or mark, a script works from the *)
(* selected slot, which is the running one; a deploy works from a proven one *)
(* and writes the other.                                                     *)
ProcOK(p, r) ==
    /\ r.pc \in Deciding \cup {"start"} => Selected = running
    /\ r.pc \in Deciding => r.sha = installed
    /\ (r.pc \in Deploying \/ (p = "trigger" /\ r.pc \in Deciding \cup {"start"}))
          => Proven(StateOf(block, running))
    /\ r.pc \in {"kernel", "mark", "markwrite"} => r.slot = running
    /\ r.pc \in {"slot", "dd", "ddend", "readback", "arm", "armwrite"} => r.img = r.sha
    /\ r.pc \in {"dd", "ddend", "readback", "arm", "armwrite"} => r.slot = Other(running)
    /\ r.pc \in {"arm", "armwrite"} => image[r.slot] = r.img
    /\ r.pc = "armwrite" => /\ Accepts(block, ArmCmd(r.slot))
                            /\ r.blk = Commanded(block, ArmCmd(r.slot))
    /\ r.pc = "markwrite" => /\ Accepts(block, MarkCmd(r.slot))
                             /\ r.blk = Commanded(block, MarkCmd(r.slot))

ArmedMatches == ~Proven(StateOf(block, Selected)) => image[Selected] = installed

(* What holds as long as no upgrade was rushed. *)
Inv ==
    /\ Types /\ Turns /\ UpOK
    /\ Validate(block) /\ FallsBack /\ ArmedMatches
    /\ \A p \in Procs : ProcOK(p, proc[p])

-----------------------------------------------------------------------------
(* Steps of a script that touch no partition. *)

LEMMA Fresh ==
    ASSUME Types, NEW x \in PCs
    PROVE  At(x) \in ProcRec /\ At(x).pc = x
<1>1. "a" \in Slots /\ NoKernel \in Hashes /\ block \in Block
  BY DEF Types, Slots, Hashes
<1> QED
  BY <1>1 DEF At, ProcRec

LEMMA Moved ==
    ASSUME NEW r \in ProcRec, NEW x \in PCs
    PROVE  /\ [r EXCEPT !.pc = x] \in ProcRec
           /\ [r EXCEPT !.pc = x].pc = x
           /\ [r EXCEPT !.pc = x].sha = r.sha
           /\ [r EXCEPT !.pc = x].slot = r.slot
           /\ [r EXCEPT !.pc = x].img = r.img
           /\ [r EXCEPT !.pc = x].want = r.want
  BY DEF ProcRec

(* Nothing is asked of a script that rests, or that only records its mark    *)
(* and reboots.                                                              *)
LEMMA NothingAsked ==
    ASSUME NEW p, NEW r, r.pc \in {"off", "done", "setmark", "reboot"}
    PROVE  ProcOK(p, r)
  BY DEF ProcOK, Deciding, Deploying

LEMMA LocalStep ==
    ASSUME Inv, NEW p \in Procs, ~Rests(proc[p]),
           NEW r \in ProcRec, ProcOK(p, r),
           proc' = [proc EXCEPT ![p] = r],
           UNCHANGED <<device, installed, release>>
    PROVE  Inv'
<1>1. proc' \in [Procs -> ProcRec] /\ proc'[p] = r
      /\ \A q \in Procs : q # p => proc'[q] = proc[q]
  BY DEF Inv, Types
<1>2. Types'
  BY <1>1 DEF Inv, Types, device
<1>3. Turns'
  BY <1>1 DEF Inv, Turns, Rests, device
<1>4. UpOK' /\ Validate(block)' /\ FallsBack' /\ ArmedMatches'
  <2>1. block' = block /\ image' = image /\ tested' = tested /\ installed' = installed
        /\ running' = running /\ phase' = phase
    BY DEF device
  <2> QED
    BY <2>1 DEF Inv, UpOK, FallsBack, ArmedMatches, SettleSlot, Selected
<1>5. \A q \in Procs : ProcOK(q, proc'[q])
  BY <1>1 DEF Inv
<1>6. ASSUME NEW q \in Procs PROVE ProcOK(q, proc[q])'
  BY <1>5 DEF ProcOK, Selected, Deciding, Deploying, device
<1> QED
  BY <1>2, <1>3, <1>4, <1>6 DEF Inv

(* The script ends. *)
LEMMA FinishStep ==
    ASSUME Inv, NEW p \in Procs, ~Rests(proc[p]), Finish(p),
           UNCHANGED <<device, installed, release>>
    PROVE  Inv'
<1>1. PICK r : r = At("done")
  OBVIOUS
<1>2. r \in ProcRec /\ r.pc = "done"
  BY <1>1, Fresh DEF Inv, PCs
<1>3. ProcOK(p, r)
  BY <1>2, NothingAsked
<1> QED
  BY <1>1, <1>2, <1>3, LocalStep DEF Finish

(* It goes on to x with its locals as they are. *)
LEMMA GotoStep ==
    ASSUME Inv, NEW p \in Procs, ~Rests(proc[p]), NEW x \in PCs, Goto(p, x),
           UNCHANGED <<device, installed, release>>,
           ASSUME NEW r \in ProcRec, r.pc = x, r.sha = proc[p].sha,
                  r.slot = proc[p].slot, r.img = proc[p].img
           PROVE  ProcOK(p, r)
    PROVE  Inv'
<1>1. PICK r : r = [proc[p] EXCEPT !.pc = x]
  OBVIOUS
<1>2. proc[p] \in ProcRec
  BY DEF Inv, Types
<1>3. /\ r \in ProcRec /\ r.pc = x /\ r.sha = proc[p].sha
      /\ r.slot = proc[p].slot /\ r.img = proc[p].img
  BY <1>1, <1>2, Moved
<1>4. ProcOK(p, r)
  BY <1>3
<1>5. proc' = [proc EXCEPT ![p] = r]
  BY <1>1 DEF Goto
<1> QED
  BY <1>3, <1>4, <1>5, LocalStep

-----------------------------------------------------------------------------
(* The steps of a script that touch no partition keep the invariant. *)

Local(p) ==
    \/ Start(p) \/ ReadActive(p) \/ ReadKernel(p) \/ MarkRead(p) \/ RemoveMark(p)
    \/ FetchSums(p) \/ FetchImage(p) \/ Verify(p) \/ PickSlot(p) \/ ReadBack(p)
    \/ ArmRead(p) \/ SetMark(p) \/ Fails(p) \/ MarkWriteFails(p) \/ SetMarkFails(p)

LEMMA LocalKeepsInv ==
    ASSUME Inv, NEW p \in Procs, Local(p)
    PROVE  Inv'
<1>1. proc[p] \in ProcRec /\ ProcOK(p, proc[p]) /\ Types
  BY DEF Inv, Types
<1>2. /\ Selected \in Slots /\ Other(Selected) \in Slots
      /\ running \in Slots /\ installed \in Hashes /\ release \in Hashes
  BY <1>1, TwoSlots DEF Types, Hashes, Selected
<1>3. CASE Start(p)
  <2>1. PICK r : r = [proc[p] EXCEPT !.pc = "active", !.sha = installed]
    OBVIOUS
  <2>2. r \in ProcRec /\ r.pc = "active" /\ r.sha = installed
    BY <1>1, <1>2, <2>1 DEF ProcRec, PCs
  <2>3. ~Rests(proc[p]) /\ ProcOK(p, r)
    BY <1>1, <1>3, <2>2 DEF Start, Rests, ProcOK, Deciding, Deploying
  <2>4. proc' = [proc EXCEPT ![p] = r] /\ UNCHANGED <<device, installed, release>>
    BY <1>3, <2>1 DEF Start, Env
  <2> QED
    BY <2>2, <2>3, <2>4, LocalStep
<1>4. CASE ReadActive(p)
  <2>1. PICK r : r = [proc[p] EXCEPT !.pc = "kernel", !.slot = Selected]
    OBVIOUS
  <2>2. r \in ProcRec /\ r.pc = "kernel" /\ r.sha = proc[p].sha /\ r.slot = Selected
    BY <1>1, <1>2, <2>1 DEF ProcRec, PCs
  <2>3. ~Rests(proc[p]) /\ ProcOK(p, r)
    BY <1>1, <1>4, <2>2 DEF ReadActive, Rests, ProcOK, Deciding, Deploying
  <2>4. proc' = [proc EXCEPT ![p] = r] /\ UNCHANGED <<device, installed, release>>
    BY <1>4, <2>1 DEF ReadActive, Env
  <2> QED
    BY <2>2, <2>3, <2>4, LocalStep
(* A slot on trial is in sync with the installed kernel, so it is never      *)
(* deployed over before it is marked.                                        *)
<1>5. CASE ReadKernel(p)
  <2>1. /\ proc[p].pc = "kernel" /\ proc[p].slot = running /\ proc[p].sha = installed
        /\ Selected = running /\ ~Rests(proc[p])
        /\ UNCHANGED <<device, installed, release>>
    BY <1>1, <1>5 DEF ReadKernel, ProcOK, Rests, Deciding, Env
  <2>2. PICK booted \in KernelSha(running) :
          \/ Finish(p)
          \/ booted = installed /\ p = "oneshot" /\ Goto(p, "mark")
          \/ booted # installed /\ Goto(p, "sums")
    BY <1>5, <2>1 DEF ReadKernel
  <2>3. CASE Finish(p)
    BY <2>1, <2>3, FinishStep
  <2>4. CASE p = "oneshot" /\ Goto(p, "mark")
    <3>1. ASSUME NEW r \in ProcRec, r.pc = "mark", r.sha = proc[p].sha,
                 r.slot = proc[p].slot, r.img = proc[p].img
          PROVE  ProcOK(p, r)
      BY <1>1, <2>1, <2>4, <3>1 DEF ProcOK, Deciding, Deploying
    <3>2. "mark" \in PCs
      BY DEF PCs
    <3> QED
      BY <2>1, <2>4, <3>1, <3>2, GotoStep
  <2>5. CASE booted # installed /\ Goto(p, "sums")
    <3>1. Proven(StateOf(block, running))
      <4>1. SUFFICES ASSUME ~Proven(StateOf(block, running)) PROVE FALSE
        OBVIOUS
      <4>2. image[running] = installed /\ installed \in Kernels
        BY <2>1, <4>1, <1>1 DEF Inv, ArmedMatches, Types
      <4>3. KernelSha(running) = {installed}
        BY <4>2 DEF KernelSha
      <4> QED
        BY <2>2, <2>5, <4>3
    <3>2. ASSUME NEW r \in ProcRec, r.pc = "sums", r.sha = proc[p].sha,
                 r.slot = proc[p].slot, r.img = proc[p].img
          PROVE  ProcOK(p, r)
      BY <2>1, <3>1, <3>2 DEF ProcOK, Deciding, Deploying
    <3>3. "sums" \in PCs
      BY DEF PCs
    <3> QED
      BY <2>1, <2>5, <3>2, <3>3, GotoStep
  <2> QED
    BY <2>2, <2>3, <2>4, <2>5
<1>6. CASE MarkRead(p)
  <2>1. /\ proc[p].pc = "mark" /\ ~Rests(proc[p])
        /\ UNCHANGED <<device, installed, release>>
    BY <1>6 DEF MarkRead, Rests, Env
  <2>2. CASE Goto(p, "rmmark")
    <3>1. ASSUME NEW r \in ProcRec, r.pc = "rmmark", r.sha = proc[p].sha,
                 r.slot = proc[p].slot, r.img = proc[p].img
          PROVE  ProcOK(p, r)
      BY <1>1, <2>1, <3>1 DEF ProcOK, Deciding, Deploying
    <3>2. "rmmark" \in PCs
      BY DEF PCs
    <3> QED
      BY <2>1, <2>2, <3>1, <3>2, GotoStep
  <2>3. CASE ~Goto(p, "rmmark")
    <3>1. PICK c : c = Commanded(block, MarkCmd(proc[p].slot))
      OBVIOUS
    <3>2. /\ Accepts(block, MarkCmd(proc[p].slot))
          /\ proc' = [proc EXCEPT ![p].pc = "markwrite", ![p].blk = c]
      BY <1>6, <2>3, <3>1 DEF MarkRead, MarkCmd
    <3>3. HasProven(block) /\ proc[p].slot \in Slots /\ block \in Block
      BY <1>1, <1>2, TwoSlots
         DEF Inv, FallsBack, SettleSlot, HasProven, Selected, ProcRec, Types
    <3>4. c \in Block
      BY <3>1, <3>2, <3>3, MarkedBlock
    <3>5. PICK r : r = [proc[p] EXCEPT !.pc = "markwrite", !.blk = c]
      OBVIOUS
    <3>6. /\ r \in ProcRec /\ r.pc = "markwrite" /\ r.sha = proc[p].sha
          /\ r.slot = proc[p].slot /\ r.blk = c
      BY <1>1, <3>4, <3>5 DEF ProcRec, PCs
    <3>7. ProcOK(p, r)
      BY <1>1, <2>1, <3>1, <3>2, <3>6 DEF ProcOK, Deciding, Deploying
    <3>8. proc' = [proc EXCEPT ![p] = r]
      BY <3>2, <3>5
    <3> QED
      BY <2>1, <3>6, <3>7, <3>8, LocalStep
  <2> QED
    BY <2>2, <2>3
<1>7. CASE RemoveMark(p)
  BY <1>7, FinishStep DEF RemoveMark, Rests, Env
<1>8. CASE FetchSums(p)
  <2>1. PICK r : r = [proc[p] EXCEPT !.pc = "fetch", !.want = release]
    OBVIOUS
  <2>2. r \in ProcRec /\ r.pc = "fetch" /\ r.sha = proc[p].sha
    BY <1>1, <1>2, <2>1 DEF ProcRec, PCs
  <2>3. ~Rests(proc[p]) /\ ProcOK(p, r)
    BY <1>1, <1>8, <2>2 DEF FetchSums, Rests, ProcOK, Deciding, Deploying
  <2>4. proc' = [proc EXCEPT ![p] = r] /\ UNCHANGED <<device, installed, release>>
    BY <1>8, <2>1 DEF FetchSums, Env
  <2> QED
    BY <2>2, <2>3, <2>4, LocalStep
<1>9. CASE FetchImage(p)
  <2>1. PICK r : r = [proc[p] EXCEPT !.pc = "verify", !.img = release]
    OBVIOUS
  <2>2. r \in ProcRec /\ r.pc = "verify" /\ r.sha = proc[p].sha
    BY <1>1, <1>2, <2>1 DEF ProcRec, PCs
  <2>3. ~Rests(proc[p]) /\ ProcOK(p, r)
    BY <1>1, <1>9, <2>2 DEF FetchImage, Rests, ProcOK, Deciding, Deploying
  <2>4. proc' = [proc EXCEPT ![p] = r] /\ UNCHANGED <<device, installed, release>>
    BY <1>9, <2>1 DEF FetchImage, Env
  <2> QED
    BY <2>2, <2>3, <2>4, LocalStep
<1>10. CASE Verify(p)
  <2>1. /\ proc[p].pc = "verify" /\ ~Rests(proc[p])
        /\ UNCHANGED <<device, installed, release>>
    BY <1>10 DEF Verify, Rests, Env
  <2>2. CASE ImageVerified(p)
    <3>1. ASSUME NEW r \in ProcRec, r.pc = "slot", r.sha = proc[p].sha,
                 r.slot = proc[p].slot, r.img = proc[p].img
          PROVE  ProcOK(p, r)
      BY <1>1, <2>1, <2>2, <3>1 DEF ProcOK, ImageVerified, Deciding, Deploying
    <3>2. "slot" \in PCs /\ Goto(p, "slot")
      BY <1>10, <2>2 DEF PCs, Verify
    <3> QED
      BY <2>1, <3>1, <3>2, GotoStep
  <2>3. CASE ~ImageVerified(p)
    BY <1>10, <2>1, <2>3, FinishStep DEF Verify
  <2> QED
    BY <2>2, <2>3
<1>11. CASE PickSlot(p)
  <2>1. PICK r : r = [proc[p] EXCEPT !.pc = "dd", !.slot = Other(Selected)]
    OBVIOUS
  <2>2. /\ r \in ProcRec /\ r.pc = "dd" /\ r.sha = proc[p].sha
        /\ r.slot = Other(Selected) /\ r.img = proc[p].img
    BY <1>1, <1>2, <2>1 DEF ProcRec, PCs
  <2>3. ~Rests(proc[p]) /\ ProcOK(p, r)
    BY <1>1, <1>11, <2>2 DEF PickSlot, Rests, ProcOK, Deciding, Deploying
  <2>4. proc' = [proc EXCEPT ![p] = r] /\ UNCHANGED <<device, installed, release>>
    BY <1>11, <2>1 DEF PickSlot, Env
  <2> QED
    BY <2>2, <2>3, <2>4, LocalStep
<1>12. CASE ReadBack(p)
  <2>1. /\ proc[p].pc = "readback" /\ ~Rests(proc[p])
        /\ UNCHANGED <<device, installed, release>>
    BY <1>12 DEF ReadBack, Rests, Env
  <2>2. CASE image[proc[p].slot] = proc[p].img
    <3>1. ASSUME NEW r \in ProcRec, r.pc = "arm", r.sha = proc[p].sha,
                 r.slot = proc[p].slot, r.img = proc[p].img
          PROVE  ProcOK(p, r)
      BY <1>1, <2>1, <2>2, <3>1 DEF ProcOK, Deciding, Deploying
    <3>2. "arm" \in PCs /\ Goto(p, "arm")
      BY <1>12, <2>2 DEF PCs, ReadBack
    <3> QED
      BY <2>1, <3>1, <3>2, GotoStep
  <2>3. CASE image[proc[p].slot] # proc[p].img
    BY <1>12, <2>1, <2>3, FinishStep DEF ReadBack
  <2> QED
    BY <2>2, <2>3
<1>13. CASE ArmRead(p)
  <2>1. /\ proc[p].pc = "arm" /\ ~Rests(proc[p])
        /\ UNCHANGED <<device, installed, release>>
    BY <1>13 DEF ArmRead, Rests, Env
  <2>2. CASE Finish(p)
    BY <2>1, <2>2, FinishStep
  <2>3. CASE ~Finish(p)
    <3>1. PICK c : c = Commanded(block, ArmCmd(proc[p].slot))
      OBVIOUS
    <3>2. /\ Accepts(block, ArmCmd(proc[p].slot))
          /\ proc' = [proc EXCEPT ![p].pc = "armwrite", ![p].blk = c]
      BY <1>13, <2>3, <3>1 DEF ArmRead, ArmCmd
    <3>3. proc[p].slot \in Slots /\ block \in Block
      BY <1>1 DEF ProcRec, Types
    <3>4. c \in Block
      BY <3>1, <3>2, <3>3, ArmedBlock
    <3>5. PICK r : r = [proc[p] EXCEPT !.pc = "armwrite", !.blk = c]
      OBVIOUS
    <3>6. /\ r \in ProcRec /\ r.pc = "armwrite" /\ r.sha = proc[p].sha
          /\ r.slot = proc[p].slot /\ r.img = proc[p].img /\ r.blk = c
      BY <1>1, <3>4, <3>5 DEF ProcRec, PCs
    <3>7. ProcOK(p, r)
      BY <1>1, <2>1, <3>1, <3>2, <3>6 DEF ProcOK, Deciding, Deploying
    <3>8. proc' = [proc EXCEPT ![p] = r]
      BY <3>2, <3>5
    <3> QED
      BY <2>1, <3>6, <3>7, <3>8, LocalStep
  <2> QED
    BY <2>2, <2>3
<1>14. CASE SetMark(p) \/ SetMarkFails(p)
  <2>1. /\ ~Rests(proc[p]) /\ UNCHANGED <<device, installed, release>>
        /\ Goto(p, "reboot") \/ Finish(p)
    BY <1>14 DEF SetMark, SetMarkFails, Rests, Env
  <2>2. "reboot" \in PCs
    BY DEF PCs
  <2>3. ASSUME NEW r \in ProcRec, r.pc = "reboot" PROVE ProcOK(p, r)
    BY <2>3, NothingAsked
  <2>4. CASE Goto(p, "reboot")
    BY <2>1, <2>2, <2>3, <2>4, GotoStep
  <2> QED
    BY <2>1, <2>4, FinishStep
<1>15. CASE Fails(p)
  BY <1>15, FinishStep DEF Fails, Rests, Env
<1>16. CASE MarkWriteFails(p)
  <2>1. /\ proc[p].pc = "markwrite" /\ ~Rests(proc[p]) /\ Goto(p, "rmmark")
        /\ UNCHANGED <<device, installed, release>>
    BY <1>16 DEF MarkWriteFails, Rests, Env
  <2>2. ASSUME NEW r \in ProcRec, r.pc = "rmmark", r.sha = proc[p].sha,
               r.slot = proc[p].slot, r.img = proc[p].img
        PROVE  ProcOK(p, r)
    BY <1>1, <2>1, <2>2 DEF ProcOK, Deciding, Deploying
  <2>3. "rmmark" \in PCs
    BY DEF PCs
  <2> QED
    BY <2>1, <2>2, <2>3, GotoStep
<1> QED
  BY <1>3, <1>4, <1>5, <1>6, <1>7, <1>8, <1>9, <1>10, <1>11, <1>12, <1>13,
     <1>14, <1>15, <1>16 DEF Local

-----------------------------------------------------------------------------
(* The steps that do touch one: the boot image, and the A/B block. *)

(* A script that runs is alone, so only its own part is to be shown again. *)
LEMMA AloneStep ==
    ASSUME Inv, NEW p \in Procs, ~Rests(proc[p]), NEW r \in ProcRec,
           proc' = [proc EXCEPT ![p] = r], UNCHANGED phase,
           ProcOK(p, r)'
    PROVE  /\ proc' \in [Procs -> ProcRec]
           /\ Turns'
           /\ \A q \in Procs : ProcOK(q, proc[q])'
<1>1. proc' \in [Procs -> ProcRec] /\ proc'[p] = r
      /\ \A q \in Procs : q # p => proc'[q] = proc[q]
  BY DEF Inv, Types
<1>2. \A q \in Procs : q # p => Rests(proc[q])
  BY DEF Inv, Turns
<1>3. Turns'
  BY <1>1, <1>2 DEF Inv, Turns, Rests
<1>4. ASSUME NEW q \in Procs, q # p PROVE ProcOK(q, proc[q])'
  <2>1. proc'[q].pc \in {"off", "done"}
    BY <1>1, <1>2, <1>4 DEF Rests
  <2> QED
    BY <2>1 DEF ProcOK, Deciding, Deploying
<1>5. ProcOK(p, proc[p])'
  BY <1>1
<1> QED
  BY <1>1, <1>3, <1>4, <1>5

(* A deploy writes the slot the device neither runs from nor settles on. *)
LEMMA DdKeepsInv ==
    ASSUME Inv, NEW p \in Procs, DdStart(p) \/ DdEnd(p)
    PROVE  /\ Inv'
           /\ Selected = running /\ Proven(StateOf(block, running))
           /\ image'[running] = image[running]
<1>1. proc[p] \in ProcRec /\ ProcOK(p, proc[p]) /\ Types
  BY DEF Inv, Types
<1>2. /\ proc[p].pc \in {"dd", "ddend"} /\ ~Rests(proc[p])
      /\ UNCHANGED <<block, phase, running, installed, release>>
  BY DEF DdStart, DdEnd, Rests, Env
<1>3. /\ Selected = running /\ Proven(StateOf(block, running))
      /\ proc[p].sha = installed /\ proc[p].img = proc[p].sha
      /\ proc[p].slot = Other(running)
  BY <1>1, <1>2 DEF ProcOK, Deciding, Deploying
<1>4. running \in Slots /\ Other(running) \in Slots /\ Other(running) # running
  BY <1>1, TwoSlots DEF Types
<1>5. /\ image' \in [Slots -> Images] /\ tested' \in [Slots -> BOOLEAN]
      /\ image'[running] = image[running] /\ tested'[running] = tested[running]
  <2>1. CASE DdStart(p)
    <3>1. Writers(Other(running)) \cup {p} \in Images
      BY DEF Images, Writers
    <3> QED
      BY <1>1, <1>3, <1>4, <2>1, <3>1 DEF DdStart, Types
  <2>2. CASE DdEnd(p)
    <3>1. installed \in Images /\ Procs \in Images
      BY <1>1 DEF Images, Types
    <3>2. PICK c \in Images : image' = [image EXCEPT ![Other(running)] = c]
      BY <1>3, <2>2, <3>1 DEF DdEnd
    <3> QED
      BY <1>1, <1>4, <2>2, <3>2 DEF DdEnd, Types
  <2> QED
    BY <2>1, <2>2
<1>6. PICK x \in {"ddend", "readback"} : Goto(p, x)
  BY DEF DdStart, DdEnd
<1>7. PICK r : r = [proc[p] EXCEPT !.pc = x]
  OBVIOUS
<1>8. /\ r \in ProcRec /\ r.pc = x /\ r.sha = proc[p].sha
      /\ r.slot = proc[p].slot /\ r.img = proc[p].img
  <2>1. x \in PCs
    BY DEF PCs
  <2> QED
    BY <1>1, <1>7, <2>1, Moved
<1>9. proc' = [proc EXCEPT ![p] = r]
  BY <1>6, <1>7 DEF Goto
<1>10. Selected' = Selected
  BY <1>2 DEF Selected
<1>11. ProcOK(p, r)'
  BY <1>2, <1>3, <1>8, <1>10 DEF ProcOK, Deciding, Deploying
<1>12. proc' \in [Procs -> ProcRec] /\ Turns' /\ \A q \in Procs : ProcOK(q, proc[q])'
  BY <1>2, <1>8, <1>9, <1>11, AloneStep
<1>13. Types'
  BY <1>1, <1>2, <1>5, <1>12 DEF Types
<1>14. SettleSlot = running /\ SettleSlot' = running
  BY <1>2, <1>3, <1>10 DEF SettleSlot
<1>15. UpOK' /\ FallsBack' /\ ArmedMatches' /\ Validate(block)'
  BY <1>2, <1>3, <1>5, <1>10, <1>14
     DEF Inv, UpOK, FallsBack, ArmedMatches
<1> QED
  BY <1>3, <1>5, <1>12, <1>13, <1>15 DEF Inv

(* The block changes, the images do not: what is left to show. *)
LEMMA BlockStep ==
    ASSUME Inv, NEW p \in Procs, ~Rests(proc[p]), NEW r \in ProcRec,
           proc' = [proc EXCEPT ![p] = r],
           UNCHANGED <<image, phase, running, tested, installed, release>>,
           block' \in Block, Validate(block'), ProcOK(p, r)',
           SettleSlot' = running, Proven(StateOf(block', running)),
           ArmedMatches'
    PROVE  Inv'
<1>1. proc' \in [Procs -> ProcRec] /\ Turns' /\ \A q \in Procs : ProcOK(q, proc[q])'
  BY AloneStep
<1>2. phase = "up"
  BY DEF Inv, Turns
<1>3. Types'
  BY <1>1 DEF Inv, Types
<1>4. UpOK' /\ FallsBack'
  BY <1>2 DEF Inv, UpOK, FallsBack
<1> QED
  BY <1>1, <1>3, <1>4 DEF Inv

LEMMA MarkWriteKeepsInv ==
    ASSUME Inv, NEW p \in Procs, MarkWrite(p)
    PROVE  /\ Inv' /\ phase = "up"
           /\ Selected = running /\ Selected' = running
           /\ Proven(StateOf(block', running))
<1>1. proc[p] \in ProcRec /\ ProcOK(p, proc[p]) /\ Types
  BY DEF Inv, Types
<1>2. /\ proc[p].pc = "markwrite" /\ ~Rests(proc[p]) /\ Goto(p, "rmmark")
      /\ block' = proc[p].blk
      /\ UNCHANGED <<image, phase, running, tested, installed, release>>
  BY DEF MarkWrite, Rests, Env
<1>3. /\ Selected = running /\ proc[p].slot = running /\ proc[p].sha = installed
      /\ Accepts(block, MarkCmd(running)) /\ block' = Commanded(block, MarkCmd(running))
      /\ p = "trigger" => Proven(StateOf(block, running))
  BY <1>1, <1>2 DEF ProcOK, Deciding
<1>4. HasProven(block) /\ running \in Slots /\ block \in Block
  BY <1>1, TwoSlots DEF Inv, FallsBack, SettleSlot, HasProven, Selected, Types
<1>5. /\ block' \in Block /\ Validate(block')
      /\ ActiveSlot(block') = running /\ Proven(StateOf(block', running))
  BY <1>3, <1>4, MarkedBlock
<1>6. Selected' = running /\ SettleSlot' = running /\ ArmedMatches'
  BY <1>5, <1>2 DEF Selected, SettleSlot, ArmedMatches
<1>7. PICK r : r = [proc[p] EXCEPT !.pc = "rmmark"]
  OBVIOUS
<1>8. r \in ProcRec /\ r.pc = "rmmark" /\ r.sha = proc[p].sha
  <2>1. "rmmark" \in PCs
    BY DEF PCs
  <2> QED
    BY <1>1, <1>7, <2>1, Moved
<1>9. proc' = [proc EXCEPT ![p] = r]
  BY <1>2, <1>7 DEF Goto
<1>10. ProcOK(p, r)'
  BY <1>2, <1>3, <1>5, <1>6, <1>8 DEF ProcOK, Deciding, Deploying
<1>11. phase = "up"
  BY <1>2 DEF Inv, Turns
<1> QED
  BY <1>2, <1>3, <1>5, <1>6, <1>8, <1>9, <1>10, <1>11, BlockStep

LEMMA ArmWriteKeepsInv ==
    ASSUME Inv, NEW p \in Procs, ArmWrite(p) \/ ArmWrittenButFails(p)
    PROVE  /\ Inv' /\ phase = "up"
           /\ Selected = running /\ Proven(StateOf(block, running))
           /\ Selected' = Other(running) /\ ~Proven(StateOf(block', Other(running)))
           /\ image[Other(running)] = installed
           /\ UNCHANGED <<image, phase, running>>
<1>1. proc[p] \in ProcRec /\ ProcOK(p, proc[p]) /\ Types
  BY DEF Inv, Types
<1>2. /\ proc[p].pc = "armwrite" /\ ~Rests(proc[p])
      /\ Goto(p, "setmark") \/ Finish(p)
      /\ block' = proc[p].blk
      /\ UNCHANGED <<image, phase, running, tested, installed, release>>
  BY DEF ArmWrite, ArmWrittenButFails, Rests, Env
<1>3. PICK s \in Slots : s = Other(running) /\ Other(s) = running
  BY <1>1, TwoSlots DEF Types
<1>4. /\ Selected = running /\ Proven(StateOf(block, running))
      /\ Accepts(block, ArmCmd(s)) /\ block' = Commanded(block, ArmCmd(s))
      /\ image[s] = installed
  BY <1>1, <1>2, <1>3 DEF ProcOK, Deciding, Deploying
<1>5. block \in Block
  BY <1>1 DEF Types
<1>6. /\ block' \in Block /\ Validate(block')
      /\ ActiveSlot(block') = s /\ ~Proven(StateOf(block', s))
      /\ Proven(StateOf(block', running))
  BY <1>3, <1>4, <1>5, ArmedBlock
<1>7. Selected' = s /\ SettleSlot' = running /\ ArmedMatches'
  BY <1>2, <1>3, <1>4, <1>6 DEF Selected, SettleSlot, ArmedMatches
<1>8. PICK r \in ProcRec : proc' = [proc EXCEPT ![p] = r] /\ r.pc \in {"setmark", "done"}
  <2>1. "setmark" \in PCs /\ "done" \in PCs
    BY DEF PCs
  <2>2. CASE Goto(p, "setmark")
    <3>1. PICK r : r = [proc[p] EXCEPT !.pc = "setmark"]
      OBVIOUS
    <3>2. r \in ProcRec /\ r.pc = "setmark"
      BY <1>1, <2>1, <3>1, Moved
    <3> QED
      BY <2>2, <3>1, <3>2 DEF Goto
  <2>3. CASE Finish(p)
    BY <1>1, <2>1, <2>3, Fresh DEF Finish
  <2> QED
    BY <1>2, <2>2, <2>3
<1>9. ProcOK(p, r)'
  BY <1>8 DEF ProcOK, Deciding, Deploying
<1>10. phase = "up"
  BY <1>2 DEF Inv, Turns
<1>11. Inv'
  BY <1>2, <1>6, <1>7, <1>8, <1>9, BlockStep
<1> QED
  BY <1>2, <1>3, <1>4, <1>6, <1>7, <1>10, <1>11

-----------------------------------------------------------------------------
(* The environment. *)

LEMMA GoDownKeepsInv ==
    ASSUME Inv, GoDown
    PROVE  Inv'
<1>1. "off" \in PCs
  BY DEF PCs
<1>2. At("off") \in ProcRec /\ At("off").pc = "off"
  BY <1>1, Fresh DEF Inv
<1>3. /\ proc' \in [Procs -> ProcRec] /\ \A p \in Procs : proc'[p].pc = "off"
      /\ phase' = "down"
      /\ UNCHANGED <<block, image, running, tested, installed, release>>
  BY <1>2 DEF GoDown, Env
<1>4. Types'
  BY <1>3 DEF Inv, Types
<1>5. Turns' /\ UpOK'
  BY <1>3 DEF Turns, UpOK, Rests
<1>6. Validate(block)' /\ FallsBack' /\ ArmedMatches'
  BY <1>3 DEF Inv, FallsBack, ArmedMatches, SettleSlot, Selected
<1>7. ASSUME NEW p \in Procs PROVE ProcOK(p, proc[p])'
  BY <1>3 DEF ProcOK, Deciding, Deploying
<1> QED
  BY <1>4, <1>5, <1>6, <1>7 DEF Inv

(* apk fires its trigger on a settled device only. *)
LEMMA ApkUpgradeKeepsInv ==
    ASSUME Inv, NEW by, ApkUpgrade(by), rushed = 0, rushed' = 0
    PROVE  Inv'
<1>0. Settled
  BY DEF ApkUpgrade
<1>1. /\ phase = "up" /\ proc["oneshot"].pc = "done"
      /\ Selected = running /\ Proven(StateOf(block, running))
      /\ installed' = release /\ UNCHANGED <<device, release>>
  BY <1>0 DEF ApkUpgrade, Settled
<1>2. PICK r : r = At("start")
  OBVIOUS
<1>3. r \in ProcRec /\ r.pc = "start"
  BY <1>2, Fresh DEF Inv, PCs
<1>4. /\ proc' \in [Procs -> ProcRec] /\ proc'["trigger"] = r
      /\ proc'["oneshot"].pc = "done"
  BY <1>1, <1>2, <1>3 DEF ApkUpgrade, Inv, Types, Procs
<1>5. Types'
  BY <1>1, <1>4 DEF Inv, Types, device
<1>6. Turns' /\ UpOK'
  BY <1>1, <1>4 DEF Inv, Turns, UpOK, Rests, Procs, device
<1>7. Selected' = running /\ SettleSlot' = SettleSlot
  BY <1>1 DEF Selected, SettleSlot, device
<1>8. Validate(block)' /\ FallsBack' /\ ArmedMatches'
  BY <1>1, <1>7 DEF Inv, FallsBack, ArmedMatches, device
<1>9. ASSUME NEW p \in Procs PROVE ProcOK(p, proc[p])'
  <2>1. CASE p = "trigger"
    BY <1>1, <1>3, <1>4, <1>7, <2>1 DEF ProcOK, Deciding, Deploying, device
  <2>2. CASE p = "oneshot"
    BY <1>4, <2>2 DEF ProcOK, Deciding, Deploying
  <2> QED
    BY <2>1, <2>2 DEF Procs
<1> QED
  BY <1>5, <1>6, <1>8, <1>9 DEF Inv

LEMMA ReleaseKeepsInv ==
    ASSUME Inv, ReleaseMoves
    PROVE  Inv'
<1>1. release' \in Kernels /\ UNCHANGED <<device, installed, proc>>
  BY DEF ReleaseMoves
<1>2. Types' /\ Turns' /\ UpOK'
  BY <1>1 DEF Inv, Types, Turns, UpOK, Rests, device
<1>3. Validate(block)' /\ FallsBack' /\ ArmedMatches'
  BY <1>1 DEF Inv, FallsBack, ArmedMatches, SettleSlot, Selected, device
<1>4. ASSUME NEW p \in Procs PROVE ProcOK(p, proc[p])'
  BY <1>1 DEF Inv, ProcOK, Selected, device
<1> QED
  BY <1>2, <1>3, <1>4 DEF Inv

(* The bootloader comes to the slot the device settles on, or to one on      *)
(* trial with the installed kernel.                                          *)
LEMMA BootKeepsInv ==
    ASSUME Inv, Boot
    PROVE  /\ Inv'
           /\ Selected' = running' /\ SettleSlot' = SettleSlot /\ image' = image
           /\ phase = "down" /\ phase' = IF image[running'] \in Good THEN "up" ELSE "down"
           /\ \/ running' = SettleSlot /\ Proven(StateOf(block', running'))
              \/ /\ running' = Selected /\ running' # SettleSlot
                 /\ ~Proven(StateOf(block, Selected))
                 /\ ~Proven(StateOf(block', running'))
<1>1. /\ block \in Block /\ Validate(block) /\ Settle(block) = SettleSlot
      /\ Proven(StateOf(block, Settle(block)))
  BY DEF Inv, Types, FallsBack, SettleSlot, Settle, Selected
<1>2. PICK s, ok : /\ s = LKSlot(block) /\ ok = (image[s] \in Good)
  OBVIOUS
<1>3. /\ running' = s /\ block' = LKAfter(block)
      /\ phase = "down" /\ phase' = IF ok THEN "up" ELSE "down"
      /\ tested' = [tested EXCEPT ![s] = @ \/ ok]
      /\ proc' = [trigger |-> At("off"),
                  oneshot |-> IF ok THEN At("start") ELSE At("off")]
      /\ UNCHANGED <<image, installed, release>>
  BY <1>2 DEF Boot, Env
<1>4. /\ block' \in Block /\ Validate(block') /\ ActiveSlot(block') = s
      /\ Settle(block') = SettleSlot /\ Proven(StateOf(block', SettleSlot))
      /\ \/ s = SettleSlot
         \/ /\ s = Selected /\ s # SettleSlot
            /\ ~Proven(StateOf(block, Selected))
            /\ ~Proven(StateOf(block', s))
  BY <1>1, <1>2, <1>3, BootsTo DEF Selected
<1>5. s \in Slots
  BY <1>4, TwoSlots
<1>6. Selected' = running' /\ SettleSlot' = SettleSlot
  BY <1>3, <1>4 DEF Selected, SettleSlot, Settle
<1>7. /\ tested' \in [Slots -> BOOLEAN] /\ (ok => tested'[s])
      /\ \A t \in Slots : tested[t] => tested'[t]
  BY <1>2, <1>3, <1>5 DEF Inv, Types
<1>8. SettleSlot \in Slots
  BY TwoSlots DEF SettleSlot, Selected
<1>9. /\ proc' \in [Procs -> ProcRec]
      /\ proc'["trigger"].pc = "off"
      /\ proc'["oneshot"].pc = IF ok THEN "start" ELSE "off"
  <2>1. "off" \in PCs /\ "start" \in PCs
    BY DEF PCs
  <2>2. /\ At("off") \in ProcRec /\ At("off").pc = "off"
        /\ At("start") \in ProcRec /\ At("start").pc = "start"
    BY <2>1, Fresh DEF Inv
  <2>3. PICK u \in ProcRec, v \in ProcRec :
          /\ proc' = [trigger |-> u, oneshot |-> v] /\ u.pc = "off"
          /\ v.pc = IF ok THEN "start" ELSE "off"
    BY <1>3, <2>2
  <2>4. proc'["trigger"] = u /\ proc'["oneshot"] = v
    BY <2>3
  <2>5. proc' \in [Procs -> ProcRec]
    BY <2>3 DEF Procs
  <2> QED
    BY <2>3, <2>4, <2>5
<1>10. Types'
  BY <1>3, <1>4, <1>5, <1>7, <1>9 DEF Inv, Types
<1>11. Turns'
  BY <1>3, <1>9 DEF Turns, Rests, Procs
<1>12. UpOK'
  BY <1>2, <1>3, <1>7 DEF UpOK
<1>13. FallsBack'
  BY <1>3, <1>4, <1>6, <1>7, <1>8 DEF Inv, FallsBack
<1>14. ArmedMatches'
  BY <1>3, <1>4, <1>6 DEF Inv, ArmedMatches
<1>15. ASSUME NEW p \in Procs PROVE ProcOK(p, proc[p])'
  <2>1. CASE p = "trigger"
    BY <1>9, <2>1 DEF ProcOK, Deciding, Deploying
  <2>2. CASE p = "oneshot"
    BY <1>6, <1>9, <2>2 DEF ProcOK, Deciding, Deploying
  <2> QED
    BY <2>1, <2>2 DEF Procs
<1>16. Inv'
  BY <1>4, <1>10, <1>11, <1>12, <1>13, <1>14, <1>15 DEF Inv
<1> QED
  BY <1>2, <1>3, <1>4, <1>6, <1>16

-----------------------------------------------------------------------------
(* The theorems. *)

LEMMA InitInv == Init => Inv
<1> SUFFICES ASSUME Init PROVE Inv
  OBVIOUS
<1>1. /\ block = Healthy /\ image \in [Slots -> Good] /\ installed = image["a"]
      /\ phase = "up" /\ running = "a" /\ tested = [s \in Slots |-> TRUE]
      /\ release = installed
      /\ proc = [trigger |-> At("off"), oneshot |-> At("start")]
  BY DEF Init
<1>2. "a" \in Slots /\ "b" \in Slots /\ Good \subseteq Kernels
  BY BootSyncAssumption DEF Slots
<1>3. PICK hi \in Priorities, lo \in Priorities, t \in Tries, f \in Flags :
        hi = 15 /\ lo = 14 /\ t = 0 /\ f = 1
  BY DEF Priorities, Tries, Flags
<1>4. /\ Pack(hi, t, f) \in Byte /\ Pack(lo, t, f) \in Byte
      /\ Decode(Pack(hi, t, f)) = [priority |-> hi, tries |-> t, successful |-> f]
      /\ Decode(Pack(lo, t, f)) = [priority |-> lo, tries |-> t, successful |-> f]
  BY PackedByte
<1>5. block \in Block /\ Validate(block)
  BY <1>1, <1>3, <1>4 DEF Healthy, Block, Validate
<1>6. block.meta["a"] = Pack(hi, t, f) /\ block.meta["b"] = Pack(lo, t, f)
  BY <1>1, <1>2, <1>3 DEF Healthy
<1>7. /\ StateOf(block, "a").priority = 15 /\ StateOf(block, "a").successful = 1
      /\ StateOf(block, "b").priority = 14
  BY <1>3, <1>4, <1>6 DEF StateOf
<1>8. Selected = "a" /\ Proven(StateOf(block, "a")) /\ SettleSlot = "a"
  BY <1>7 DEF Selected, ActiveSlot, SettleSlot, Proven
<1>9. /\ proc \in [Procs -> ProcRec]
      /\ proc["trigger"].pc = "off" /\ proc["oneshot"].pc = "start"
  <2>1. ASSUME NEW x \in PCs PROVE At(x) \in ProcRec /\ At(x).pc = x
    BY <1>2, <1>5 DEF At, ProcRec, Hashes
  <2>2. "off" \in PCs /\ "start" \in PCs
    BY DEF PCs
  <2>3. PICK u \in ProcRec, v \in ProcRec :
          proc = [trigger |-> u, oneshot |-> v] /\ u.pc = "off" /\ v.pc = "start"
    BY <1>1, <2>1, <2>2
  <2>4. proc["trigger"] = u /\ proc["oneshot"] = v
    BY <2>3
  <2>5. proc \in [Procs -> ProcRec]
    BY <2>3 DEF Procs
  <2> QED
    BY <2>3, <2>4, <2>5
<1>10. Types
  BY <1>1, <1>2, <1>5, <1>9 DEF Types, Images
<1>11. Turns /\ UpOK
  BY <1>1, <1>2, <1>9 DEF Turns, UpOK, Rests, Procs
<1>12. FallsBack /\ ArmedMatches
  BY <1>1, <1>2, <1>8 DEF FallsBack, ArmedMatches
<1>13. ASSUME NEW p \in Procs PROVE ProcOK(p, proc[p])
  <2>1. CASE p = "trigger"
    BY <1>9, <2>1 DEF ProcOK, Deciding, Deploying
  <2>2. CASE p = "oneshot"
    BY <1>1, <1>8, <1>9, <2>2 DEF ProcOK, Deciding, Deploying
  <2> QED
    BY <2>1, <2>2 DEF Procs
<1> QED
  BY <1>5, <1>10, <1>11, <1>12, <1>13 DEF Inv

(* The disjuncts of Next, by what they touch. *)
LEMMA NextCases ==
    ASSUME Next
    PROVE  \/ ReleaseMoves \/ GoDown \/ Boot
           \/ \E by \in Callers : ApkUpgrade(by)
           \/ \E p \in Procs : \/ Local(p) \/ DdStart(p) \/ DdEnd(p) \/ MarkWrite(p)
                               \/ ArmWrite(p) \/ ArmWrittenButFails(p)
  BY DEF Next, Step, Fault, Local, UserReboot, PowerCut, OneshotReboot

(* Only an upgrade counts as rushed, and the count never goes back. *)
LEMMA RushedGrows ==
    ASSUME rushed \in Nat, [Next]_vars
    PROVE  /\ rushed' \in Nat
           /\ rushed' = rushed \/ \E by \in Callers : ApkUpgrade(by) /\ rushed' = rushed + 1
<1>1. CASE UNCHANGED vars
  BY <1>1 DEF vars
<1>2. CASE ReleaseMoves
  BY <1>2 DEF ReleaseMoves
<1>3. CASE GoDown
  BY <1>3 DEF GoDown, Env
<1>4. CASE Boot
  BY <1>4 DEF Boot, Env
<1>5. ASSUME NEW by \in Callers, ApkUpgrade(by)
      PROVE  rushed' \in Nat /\ (rushed' = rushed \/ rushed' = rushed + 1)
  BY <1>5 DEF ApkUpgrade
<1>6. ASSUME NEW p \in Procs,
             \/ Local(p) \/ DdStart(p) \/ DdEnd(p) \/ MarkWrite(p)
             \/ ArmWrite(p) \/ ArmWrittenButFails(p)
      PROVE  rushed' = rushed
  BY <1>6 DEF Local, Start, ReadActive, ReadKernel, MarkRead, RemoveMark, FetchSums,
     FetchImage, Verify, PickSlot, ReadBack, ArmRead, SetMark, Fails, MarkWriteFails,
     SetMarkFails, DdStart, DdEnd, MarkWrite, ArmWrite, ArmWrittenButFails, Env
<1> QED
  BY <1>1, <1>2, <1>3, <1>4, <1>5, <1>6, NextCases

LEMMA NextInv ==
    ASSUME Inv, [Next]_vars, rushed = 0, rushed' = 0
    PROVE  Inv'
<1>1. CASE UNCHANGED vars
  <2>1. UNCHANGED <<device, installed, release, proc>>
    BY <1>1 DEF vars, device
  <2>2. Types' /\ Turns' /\ UpOK'
    BY <2>1 DEF Inv, Types, Turns, UpOK, Rests, device
  <2>3. Validate(block)' /\ FallsBack' /\ ArmedMatches'
    BY <2>1 DEF Inv, FallsBack, ArmedMatches, SettleSlot, Selected, device
  <2>4. ASSUME NEW p \in Procs PROVE ProcOK(p, proc[p])'
    BY <2>1 DEF Inv, ProcOK, Selected, device
  <2> QED
    BY <2>2, <2>3, <2>4 DEF Inv
<1>2. CASE Next
  BY <1>2, NextCases, ReleaseKeepsInv, ApkUpgradeKeepsInv, GoDownKeepsInv, BootKeepsInv,
     LocalKeepsInv, DdKeepsInv, MarkWriteKeepsInv, ArmWriteKeepsInv
<1> QED
  BY <1>1, <1>2

IInv == rushed \in Nat /\ (rushed = 0 => Inv)

LEMMA IInvInit == Init => IInv
  BY InitInv DEF IInv, Init

LEMMA IInvStep == IInv /\ [Next]_vars => IInv'
<1> SUFFICES ASSUME IInv, [Next]_vars PROVE IInv'
  OBVIOUS
<1>1. rushed' \in Nat /\ (rushed' = rushed \/ rushed' = rushed + 1)
  BY RushedGrows DEF IInv
<1>2. CASE rushed' = 0
  <2>1. rushed = 0
    BY <1>1, <1>2 DEF IInv
  <2> QED
    BY <1>1, <1>2, <2>1, NextInv DEF IInv
<1>3. CASE rushed' # 0
  BY <1>1, <1>3 DEF IInv
<1> QED
  BY <1>2, <1>3

(* The device can always come back (dc1-boot-sync:21-23): whatever kernels   *)
(* are released, however often the power is cut, a download or a write fails *)
(* or the device is rebooted, and until the first upgrade that does not wait *)
(* for the one before, the slot it settles on is proven and holds an image   *)
(* that has itself reached userspace.                                        *)
THEOREM DeviceComesBack == Spec => []SafeFallback
<1>1. IInv => SafeFallback
  BY DEF IInv, Inv, SafeFallback
<1> QED
  BY <1>1, IInvInit, IInvStep, PTL DEF Spec

(* A slot of which a step makes a proven one. *)
LEMMA ProvenByMark ==
    ASSUME Inv, [Next]_vars, NEW s \in Slots,
           ~Proven(StateOf(block, s)), Proven(StateOf(block', s))
    PROVE  phase = "up" /\ running = s /\ image[s] \in Good
<1>1. block \in Block /\ Validate(block) /\ Proven(StateOf(block, Settle(block)))
  BY DEF Inv, Types, FallsBack, SettleSlot, Settle, Selected
<1>2. CASE UNCHANGED block
  BY <1>2
<1>3. CASE Boot
  <2>1. block' = LKAfter(block)
    BY <1>3 DEF Boot
  <2> QED
    BY <1>1, <2>1, BootsTo
<1>4. ASSUME NEW p \in Procs, ArmWrite(p) \/ ArmWrittenButFails(p) PROVE FALSE
  <2>1. /\ ~Proven(StateOf(block', Other(running))) /\ Proven(StateOf(block, running))
        /\ running \in Slots
    BY <1>4, ArmWriteKeepsInv DEF Inv, Types
  <2> QED
    BY <2>1, TwoSlots
<1>5. ASSUME NEW p \in Procs, MarkWrite(p) PROVE phase = "up" /\ running = s
  <2>1. /\ phase = "up" /\ running \in Slots
        /\ Accepts(block, MarkCmd(running)) /\ block' = Commanded(block, MarkCmd(running))
    BY <1>5, MarkWriteKeepsInv DEF Inv, Types, MarkWrite, ProcOK, Deciding
  <2>2. HasProven(block)
    BY <1>1, TwoSlots DEF HasProven, Settle
  <2>3. StateOf(block', Other(running)) = StateOf(block, Other(running))
    BY <1>1, <2>1, <2>2, MarkedBlock
  <2> QED
    BY <2>1, <2>3, TwoSlots
<1>6. \/ UNCHANGED block \/ Boot
      \/ \E p \in Procs : MarkWrite(p) \/ ArmWrite(p) \/ ArmWrittenButFails(p)
  <2>1. CASE UNCHANGED vars
    BY <2>1 DEF vars
  <2>2. ASSUME NEW p \in Procs, Local(p) \/ DdStart(p) \/ DdEnd(p) PROVE UNCHANGED block
    BY <2>2 DEF Local, Start, ReadActive, ReadKernel, MarkRead, RemoveMark, FetchSums,
       FetchImage, Verify, PickSlot, ReadBack, ArmRead, SetMark, Fails, MarkWriteFails,
       SetMarkFails, DdStart, DdEnd, device
  <2>3. ASSUME NEW by \in Callers, ApkUpgrade(by) PROVE UNCHANGED block
    BY <2>3 DEF ApkUpgrade, device
  <2>4. CASE ReleaseMoves \/ GoDown
    BY <2>4 DEF ReleaseMoves, GoDown, device
  <2> QED
    BY <2>1, <2>2, <2>3, <2>4, NextCases
<1>7. phase = "up" /\ running = s
  BY <1>2, <1>3, <1>4, <1>5, <1>6
<1> QED
  BY <1>7 DEF Inv, UpOK

(* A step makes a slot proven only in a boot from it, of a kernel that       *)
(* reached userspace (dc1-boot-sync:31-32), until the first upgrade that     *)
(* does not wait for the one before.                                         *)
THEOREM MarksWhatRuns == Spec => ProvesOnlyRunning
<1> DEFINE Only == \A s \in Slots :
        rushed = 0 /\ ~Proven(StateOf(block, s)) /\ Proven(StateOf(block, s)')
            => phase = "up" /\ running = s /\ image[s] \in Good
<1>1. IInv /\ [Next]_vars => [Only]_vars
  <2> SUFFICES ASSUME IInv, [Next]_vars, rushed = 0, NEW s \in Slots,
                      ~Proven(StateOf(block, s)), Proven(StateOf(block, s)')
               PROVE  phase = "up" /\ running = s /\ image[s] \in Good
    OBVIOUS
  <2>1. Inv /\ Proven(StateOf(block', s))
    BY DEF IInv, StateOf
  <2> QED
    BY <2>1, ProvenByMark
<1> QED
  BY <1>1, IInvInit, IInvStep, PTL DEF Spec, ProvesOnlyRunning

(* A slot with a try left holds one complete image, of the installed kernel  *)
(* (dc1-boot-sync:38-43), until the first upgrade that does not wait for the *)
(* one before: a download, a moved release or a torn write is never armed.   *)
THEOREM ArmsTheInstalledKernel == Spec => []ArmedIsInstalled
<1>1. IInv => ArmedIsInstalled
  BY DEF IInv, Inv, ArmedMatches, ArmedIsInstalled
<1> QED
  BY <1>1, IInvInit, IInvStep, PTL DEF Spec

-----------------------------------------------------------------------------
(* The refinement of ABSwitch. *)

(* What the abstraction sees. *)
Stable == image[SettleSlot]
Trial  == IF Proven(StateOf(block, Selected)) THEN NoKernel ELSE image[Selected]
Live   == IF phase = "down" THEN "off"
          ELSE IF running = SettleSlot THEN "stable" ELSE "trial"

LEMMA InitRefines == Init => Abs!AbsInit
<1> SUFFICES ASSUME Init PROVE Abs!AbsInit
  OBVIOUS
<1>1. Inv /\ phase = "up" /\ running = "a" /\ ~(rushed > 0)
  BY InitInv DEF Init
<1>2. proc["oneshot"].pc = "start"
  BY DEF Init, At
<1>3. Selected = running
  BY <1>1, <1>2 DEF Inv, ProcOK, Procs
<1>4. Proven(StateOf(block, running))
  <2>1. PICK hi \in Priorities, t \in Tries, f \in Flags : hi = 15 /\ t = 0 /\ f = 1
    BY DEF Priorities, Tries, Flags
  <2>2. Decode(Pack(hi, t, f)) = [priority |-> hi, tries |-> t, successful |-> f]
    BY PackedByte
  <2>3. block.meta[running] = Pack(hi, t, f)
    BY <1>1, <2>1 DEF Init, Healthy, Slots
  <2> QED
    BY <2>1, <2>2, <2>3 DEF StateOf, Proven
<1>5. SettleSlot = running /\ image[running] \in Kernels
  BY <1>1, <1>3, <1>4, BootSyncAssumption DEF SettleSlot, Inv, UpOK
<1> QED
  BY <1>1, <1>3, <1>4, <1>5 DEF Abs!AbsInit

LEMMA StepRefines ==
    ASSUME Inv, [Next]_vars, rushed = 0, rushed' = 0
    PROVE  [Abs!AbsNext]_(Abs!absVars)
<1>0. ~(rushed > 0) /\ ~(rushed' > 0)
  OBVIOUS
<1>1. /\ Types /\ UpOK /\ ArmedMatches
      /\ Proven(StateOf(block, SettleSlot)) /\ image[SettleSlot] \in Good
      /\ phase \in {"up", "down"} /\ installed \in Kernels /\ installed # NoKernel
  BY BootSyncAssumption DEF Inv, FallsBack, Types
(* A step that leaves the block, the images it names and the power alone. *)
<1>2. ASSUME UNCHANGED <<Stable, Trial, Live>>
      PROVE  [Abs!AbsNext]_(Abs!absVars)
  BY <1>0, <1>2 DEF Abs!absVars, Stable, Trial, Live
<1>3. ASSUME UNCHANGED <<block, image, phase, running>>
      PROVE  [Abs!AbsNext]_(Abs!absVars)
  <2>1. UNCHANGED <<Stable, Trial, Live>>
    BY <1>3 DEF Stable, Trial, Live, SettleSlot, Selected
  <2> QED
    BY <1>2, <2>1
<1>4. CASE UNCHANGED vars
  BY <1>3, <1>4 DEF vars
<1>5. CASE ReleaseMoves \/ \E by \in Callers : ApkUpgrade(by)
  BY <1>3, <1>5 DEF ReleaseMoves, ApkUpgrade, device
<1>6. CASE GoDown
  <2>1. Stable' = Stable /\ Trial' = Trial /\ Live' = "off"
    BY <1>6 DEF GoDown, Stable, Trial, Live, SettleSlot, Selected
  <2>2. CASE Live = "off"
    BY <1>2, <2>1, <2>2
  <2>3. CASE Live # "off"
    <3>1. Abs!PowerOff
      BY <1>0, <2>1, <2>3 DEF Abs!PowerOff, Stable, Trial, Live
    <3> QED
      BY <3>1 DEF Abs!AbsNext
  <2> QED
    BY <2>2, <2>3
<1>7. CASE Boot
  <2>1. /\ Selected' = running' /\ SettleSlot' = SettleSlot /\ image' = image
        /\ phase = "down" /\ phase' = IF image[running'] \in Good THEN "up" ELSE "down"
        /\ \/ running' = SettleSlot /\ Proven(StateOf(block', running'))
           \/ /\ running' = Selected /\ running' # SettleSlot
              /\ ~Proven(StateOf(block, Selected))
              /\ ~Proven(StateOf(block', running'))
    BY <1>7, BootKeepsInv
  <2>2. Stable' = Stable /\ Live = "off"
    BY <2>1 DEF Stable, Live
  <2>3. CASE running' = SettleSlot /\ Proven(StateOf(block', running'))
    <3>1. Live' = "stable" /\ Trial' = NoKernel
      BY <1>1, <2>1, <2>3 DEF Live, Trial
    <3>2. Abs!BootStable
      BY <1>0, <2>2, <3>1 DEF Abs!BootStable, Stable, Trial, Live
    <3> QED
      BY <3>2 DEF Abs!AbsNext
  <2>4. CASE /\ running' = Selected /\ running' # SettleSlot
             /\ ~Proven(StateOf(block, Selected)) /\ ~Proven(StateOf(block', running'))
    <3>1. Trial' = Trial /\ Trial = installed
      BY <1>1, <2>1, <2>4 DEF Trial, ArmedMatches
    <3>2. Live' = "trial" \/ Live' = "off"
      BY <2>1, <2>4 DEF Live
    <3>3. CASE Live' = "trial"
      <4>1. Abs!BootTrial
        BY <1>0, <1>1, <2>2, <3>1, <3>3 DEF Abs!BootTrial, Stable, Trial, Live
      <4> QED
        BY <4>1 DEF Abs!AbsNext
    <3>4. CASE Live' = "off"
      BY <1>2, <2>2, <3>1, <3>4
    <3> QED
      BY <3>2, <3>3, <3>4
  <2> QED
    BY <2>1, <2>3, <2>4
<1>8. ASSUME NEW p \in Procs,
             \/ Local(p) \/ DdStart(p) \/ DdEnd(p) \/ MarkWrite(p)
             \/ ArmWrite(p) \/ ArmWrittenButFails(p)
      PROVE  [Abs!AbsNext]_(Abs!absVars)
  <2>1. CASE Local(p)
    <3>1. UNCHANGED device
      BY <2>1 DEF Local, Start, ReadActive, ReadKernel, MarkRead, RemoveMark, FetchSums,
           FetchImage, Verify, PickSlot, ReadBack, ArmRead, SetMark, Fails,
           MarkWriteFails, SetMarkFails
    <3> QED
      BY <1>3, <3>1 DEF device
  <2>2. CASE DdStart(p) \/ DdEnd(p)
    <3>1. /\ Selected = running /\ Proven(StateOf(block, running))
          /\ image'[running] = image[running]
      BY <2>2, DdKeepsInv
    <3>2. UNCHANGED <<block, phase, running>>
      BY <2>2 DEF DdStart, DdEnd
    <3>3. SettleSlot = running /\ Selected' = running /\ SettleSlot' = running
      BY <3>1, <3>2 DEF SettleSlot, Selected
    <3>4. UNCHANGED <<Stable, Trial, Live>>
      BY <3>1, <3>2, <3>3 DEF Stable, Trial, Live
    <3> QED
      BY <1>2, <3>4
  <2>3. CASE MarkWrite(p)
    <3>1. /\ phase = "up" /\ Selected = running /\ Selected' = running
          /\ Proven(StateOf(block', running))
      BY <2>3, MarkWriteKeepsInv
    <3>2. UNCHANGED <<image, phase, running>>
      BY <2>3 DEF MarkWrite
    <3>3. /\ SettleSlot' = running /\ Stable' = image[running]
          /\ Trial' = NoKernel /\ Live' = "stable"
      BY <3>1, <3>2 DEF SettleSlot, Stable, Trial, Live
    <3>4. CASE Proven(StateOf(block, running))
      <4>1. SettleSlot = running
        BY <3>1, <3>4 DEF SettleSlot
      <4>2. Stable = image[running] /\ Trial = NoKernel /\ Live = "stable"
        BY <3>1, <3>4, <4>1 DEF Stable, Trial, Live
      <4> QED
        BY <1>2, <3>3, <4>2
    <3>5. CASE ~Proven(StateOf(block, running))
      <4>1. SettleSlot # running
        BY <1>1, <3>5
      <4>2. Trial = image[running] /\ Live = "trial"
        BY <3>1, <3>5, <4>1 DEF Trial, Live
      <4>3. Abs!Commit
        BY <1>0, <3>3, <4>2 DEF Abs!Commit, Stable, Trial, Live
      <4> QED
        BY <4>3 DEF Abs!AbsNext
    <3> QED
      BY <3>4, <3>5
  <2>4. CASE ArmWrite(p) \/ ArmWrittenButFails(p)
    <3>1. /\ phase = "up"
          /\ Selected = running /\ Proven(StateOf(block, running))
          /\ Selected' = Other(running) /\ ~Proven(StateOf(block', Other(running)))
          /\ image[Other(running)] = installed
          /\ UNCHANGED <<image, phase, running>>
      BY <2>4, ArmWriteKeepsInv
    <3>2. Other(Other(running)) = running
      BY <1>1, TwoSlots DEF Types
    <3>3. SettleSlot = running /\ SettleSlot' = running
      BY <3>1, <3>2 DEF SettleSlot
    <3>4. /\ Stable' = Stable /\ Live = "stable" /\ Live' = "stable"
          /\ Trial = NoKernel /\ Trial' = installed
      BY <3>1, <3>3 DEF Stable, Trial, Live
    <3>5. Abs!Stage(installed)
      BY <1>0, <3>4 DEF Abs!Stage, Stable, Trial, Live
    <3> QED
      BY <1>1, <3>5 DEF Abs!AbsNext
  <2> QED
    BY <1>8, <2>1, <2>2, <2>3, <2>4
<1> QED
  BY <1>4, <1>5, <1>6, <1>7, <1>8, NextCases

(* The upgrade that does not wait is a step of ABSwitch, and what follows it *)
(* a stutter.                                                                *)
LEMMA RushRefines ==
    ASSUME IInv, [Next]_vars, rushed' # 0
    PROVE  [Abs!AbsNext]_(Abs!absVars)
<1>1. rushed \in Nat /\ rushed' \in Nat /\ rushed' > 0
  BY RushedGrows DEF IInv
<1>2. CASE rushed > 0
  BY <1>1, <1>2 DEF Abs!absVars
<1>3. CASE ~(rushed > 0)
  <2>1. PICK by \in Callers : ApkUpgrade(by)
    BY <1>1, <1>3, RushedGrows DEF IInv
  <2>2. phase = "up"
    BY <2>1 DEF ApkUpgrade
  <2>3. Abs!Rush
    BY <1>1, <1>3, <2>2 DEF Abs!Rush
  <2> QED
    BY <2>3 DEF Abs!AbsNext
<1> QED
  BY <1>2, <1>3

(* The scripts, dc1-slotctl, the bootloader and the power implement the      *)
(* two-kernel abstraction: the kernel the device settles on is replaced only *)
(* by a trial kernel that is running, and a trial is staged only while the   *)
(* stable kernel runs and no other trial is pending; an upgrade that does    *)
(* not wait for the one before is the step that ends this.                   *)
THEOREM RefinesABSwitch == Spec => ImplementsABSwitch
<1>1. Init => Abs!AbsInit
  BY InitRefines
<1>2. IInv /\ [Next]_vars => [Abs!AbsNext]_(Abs!absVars)
  <2> SUFFICES ASSUME IInv, [Next]_vars PROVE [Abs!AbsNext]_(Abs!absVars)
    OBVIOUS
  <2>1. CASE rushed' = 0
    <3>1. rushed = 0
      BY <2>1, RushedGrows DEF IInv
    <3> QED
      BY <2>1, <3>1, StepRefines DEF IInv
  <2>2. CASE rushed' # 0
    BY <2>2, RushRefines
  <2> QED
    BY <2>1, <2>2
<1> QED
  BY <1>1, <1>2, IInvInit, IInvStep, PTL DEF Spec, ImplementsABSwitch, Abs!AbsSpec
=============================================================================
