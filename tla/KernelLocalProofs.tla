------------------------- MODULE KernelLocalProofs -------------------------
(***************************************************************************)
(* For any kernel builds, any number of local installs and any number of   *)
(* power cuts and failing commands: the device always comes back, the      *)
(* record precedes every change in every state a power cut can bring back, *)
(* the oneshot finds package and slot in step, and a slot is proven only   *)
(* in a boot from it.                                                      *)
(***************************************************************************)
EXTENDS KernelLocal, BcbProofs

-----------------------------------------------------------------------------
(* The invariant. *)

Images  == Kernels \cup {Torn}
ToolRec == [at : ToolSteps, new : Kernels, block : Block, image : [Slots -> Images]]

Types ==
    /\ block \in Block /\ image \in [Slots -> Images]
    /\ running \in [slot : Slots, kernel : Kernels, up : BOOLEAN]
    /\ fs \in journal /\ journal \subseteq Files
    /\ tool \in ToolRec /\ conf \in ConfSteps
    /\ svc \in {"wait", "active", "done"}
    /\ masked \in BOOLEAN /\ fresh \in BOOLEAN /\ raced \in BOOLEAN

ProvenSlot(s) == Proven(StateOf(block, s))

(* The bootloader can read the block, and has a slot to fall back on, which  *)
(* holds a kernel that works.                                                *)
Settles ==
    /\ Validate(block) /\ ProvenSlot(SettleSlot)
    /\ ~raced => image[SettleSlot] \in Good

(* What runs is still in the slot it was booted from. *)
Home == running.up => image[running.slot] = running.kernel /\ running.kernel \in Good

(* The old kernel of an update is proven in its slot, and nowhere else. *)
UpdateOK(u) ==
    /\ image[Other(u.target)] = u.old /\ ProvenSlot(Other(u.target))
    /\ image[u.target] # u.old

(* Package and selected slot are in step, and nothing is on trial. *)
Clean(f) == f.pkg = image[Selected] /\ ProvenSlot(Selected)

(* Whatever a power cut brings back, there is a record of the update with    *)
(* the unit that will settle it, or nothing has been changed.                *)
Recorded(f) ==
    /\ f.pending \in Updates => f.unit /\ UpdateOK(f.pending)
    /\ f.pending \notin Updates => Clean(f) /\ (running.up => Selected = running.slot)

Mine == [target |-> Other(running.slot), old |-> running.kernel, new |-> tool.new]

Checking == {"unit", "busy", "mask", "recheck", "save"}
Changing == {"apk", "apkEnd", "deploy", "dd", "arm"}

(* install: confirm and the oneshot keep out of its way, and from the apk    *)
(* transaction on no power cut loses the record.                             *)
ToolInv ==
    /\ tool.at # "idle" => running.up /\ conf \in {"wait", "ok", "failed", "skipped"}
    /\ tool.at \notin {"idle", "verify"} => tool.new # running.kernel /\ Selected = running.slot
    /\ tool.at \in Checking => fs.pending = NoUpdate /\ image[Other(running.slot)] # running.kernel
    /\ tool.at \notin {"idle", "unit"} => fs.unit
    /\ tool.at \notin {"idle", "unit", "busy", "mask"} => masked
    /\ tool.at \in {"saveSync", "verify"} \cup Changing => fresh
    /\ tool.at = "saveSync" => fs.pending = Mine
    /\ tool.at \in Changing => \A f \in journal : f.pending = Mine

(* What holds in every boot. *)
BootInv ==
    /\ ~running.up => tool.at = "idle" /\ conf = "skipped" /\ svc = "done" /\ ~fresh /\ ~masked
    /\ running.up /\ ~fresh => Selected = running.slot
    /\ fresh => masked /\ conf \in {"wait", "read", "ok", "failed", "skipped"}

(* confirm *)
ConfInv ==
    /\ conf = "read" => fs.pending # NoUpdate
    /\ conf \in {"restore", "restoreEnd", "pause", "prove"} => fs.pending \in Updates
    /\ conf \in {"restore", "restoreEnd", "pause"} => running.kernel = fs.pending.old
    /\ conf = "pause" => fs.pkg = running.kernel
    /\ conf = "prove" => running.kernel = fs.pending.new
    /\ conf \in {"unlink", "sync"} => Clean(fs)
    /\ conf \in {"ok", "skipped"} /\ running.up /\ ~masked => Clean(fs)

(* The oneshot runs beside an install only as long as that has not masked it. *)
SvcInv ==
    svc = "active" /\ ~raced => /\ ~masked /\ conf \in {"ok", "skipped"}
                                /\ tool.at \in {"idle", "unit", "busy"}

Inv == /\ Types /\ Settles /\ Home /\ ToolInv /\ BootInv /\ ConfInv /\ SvcInv
       /\ \A f \in journal : Recorded(f)

-----------------------------------------------------------------------------
(* The files. *)

LEMMA FilesType ==
    ASSUME NEW f \in Files
    PROVE  /\ f.pending \in Updates \cup {NoUpdate, Torn} /\ f.pkg \in Kernels \cup {Torn}
           /\ f.unit \in BOOLEAN /\ f.paused \in BOOLEAN
  BY DEF Files

LEMMA NewPackage ==
    ASSUME NEW f \in Files, NEW p \in Kernels \cup {Torn}
    PROVE  /\ [f EXCEPT !.pkg = p] \in Files /\ [f EXCEPT !.pkg = p].pkg = p
           /\ [f EXCEPT !.pkg = p].pending = f.pending
           /\ [f EXCEPT !.pkg = p].unit = f.unit
  BY DEF Files

LEMMA NewPending ==
    ASSUME NEW f \in Files, NEW u \in Updates \cup {NoUpdate, Torn}
    PROVE  /\ [f EXCEPT !.pending = u] \in Files /\ [f EXCEPT !.pending = u].pending = u
           /\ [f EXCEPT !.pending = u].pkg = f.pkg
           /\ [f EXCEPT !.pending = u].unit = f.unit
  BY DEF Files

LEMMA NewUnit ==
    ASSUME NEW f \in Files
    PROVE  /\ [f EXCEPT !.unit = TRUE] \in Files /\ [f EXCEPT !.unit = TRUE].unit
           /\ [f EXCEPT !.unit = TRUE].pkg = f.pkg
           /\ [f EXCEPT !.unit = TRUE].pending = f.pending
  BY DEF Files

LEMMA NewPause ==
    ASSUME NEW f \in Files
    PROVE  /\ [f EXCEPT !.paused = TRUE] \in Files
           /\ [f EXCEPT !.paused = TRUE].unit = f.unit
           /\ [f EXCEPT !.paused = TRUE].pkg = f.pkg
           /\ [f EXCEPT !.paused = TRUE].pending = f.pending
  BY DEF Files

LEMMA ToolAt ==
    ASSUME NEW t \in ToolRec, NEW x \in ToolSteps
    PROVE  /\ [t EXCEPT !.at = x] \in ToolRec /\ [t EXCEPT !.at = x].at = x
           /\ [t EXCEPT !.at = x].new = t.new
           /\ [t EXCEPT !.at = x].image = t.image
  BY DEF ToolRec

LEMMA MineIsUpdate ==
    ASSUME Types
    PROVE  /\ Mine \in Updates /\ Mine.target = Other(running.slot)
           /\ Mine.old = running.kernel /\ Mine.new = tool.new
  BY TwoSlots DEF Types, Mine, Updates, ToolRec

LEMMA SelectedSlot == Selected \in Slots
  BY TwoSlots DEF Selected

-----------------------------------------------------------------------------
(* Steps that leave the slots and the files alone. *)

LEMMA LookStep ==
    ASSUME Inv, Begin \/ CheckBusy \/ Mask \/ Recheck \/ ConfirmStart \/ ConfirmRead
                \/ OneshotStart
    PROVE  Inv'
<1>0. UNCHANGED <<block, image, running, fs, journal>>
  BY DEF Begin, CheckBusy, Mask, Recheck, ConfirmStart, ConfirmRead, OneshotStart, slots
<1>1. UNCHANGED <<block, image, running, fs, journal>> /\ (~raced' => ~raced)
  <2>1. raced' = raced \/ raced' = (raced \/ tool.at = "mask")
    BY DEF Begin, CheckBusy, Mask, Recheck, ConfirmStart, ConfirmRead, OneshotStart
  <2>2. ~raced' => ~raced
    BY <2>1 DEF Inv, Types
  <2> QED
    BY <1>0, <2>2
<1>2. Settles' /\ Home' /\ \A f \in journal' : Recorded(f)'
  BY <1>1 DEF Inv, Settles, Home, Recorded, UpdateOK, Clean, ProvenSlot, SettleSlot, Selected
<1>3. CASE Begin
  <2>1. PICK k \in Kernels :
          k # running.kernel /\ tool' = [at |-> "unit", new |-> k, block |-> block, image |-> image]
    BY <1>3 DEF Begin, Candidates
  <2>2. tool' \in ToolRec /\ tool'.at = "unit" /\ tool'.new = k
    BY <2>1 DEF Inv, Types, ToolRec, ToolSteps
  <2>3. image[Other(running.slot)] # running.kernel
    BY <1>3, TwoSlots DEF Begin, RunningSlots, Inv, Types
  <2>4. /\ running.up /\ tool.at = "idle" /\ conf \in {"wait", "ok", "failed", "skipped"}
        /\ fs.pending = NoUpdate /\ Selected = running.slot
        /\ UNCHANGED <<conf, svc, masked, fresh, raced>>
    BY <1>3 DEF Begin, boot
  <2>5. Types'
    BY <1>1, <2>2, <2>4 DEF Inv, Types
  <2>6. ToolInv'
    BY <1>1, <2>1, <2>2, <2>3, <2>4 DEF ToolInv, Checking, Changing, Selected
  <2>7. BootInv' /\ ConfInv' /\ SvcInv'
    BY <1>1, <2>2, <2>4 DEF Inv, BootInv, ConfInv, SvcInv, Clean, ProvenSlot, Selected
  <2> QED
    BY <1>2, <1>1, <2>5, <2>6, <2>7 DEF Inv
<1>4. CASE CheckBusy
  <2>1. PICK x \in {"idle", "mask"} :
          /\ tool' = [tool EXCEPT !.at = x] /\ (svc = "active" => x = "idle")
    BY <1>4 DEF CheckBusy, Goto
  <2>2. tool' \in ToolRec /\ tool'.at = x /\ tool'.new = tool.new
    <3>1. x \in ToolSteps
      BY DEF ToolSteps
    <3> QED
      BY <2>1, <3>1, ToolAt DEF Inv, Types
  <2>3. tool.at = "busy" /\ UNCHANGED <<conf, svc, masked, fresh, raced>>
    BY <1>4 DEF CheckBusy, boot
  <2>4. Types'
    BY <1>1, <2>2, <2>3 DEF Inv, Types
  <2>5. ToolInv'
    BY <1>1, <2>2, <2>3 DEF Inv, ToolInv, Checking, Changing, Selected
  <2>6. BootInv' /\ ConfInv' /\ SvcInv'
    BY <1>1, <2>1, <2>2, <2>3 DEF Inv, ToolInv, BootInv, ConfInv, SvcInv, Clean, ProvenSlot, Selected
  <2> QED
    BY <1>2, <1>1, <2>4, <2>5, <2>6 DEF Inv
<1>5. CASE Mask
  <2>1. tool' \in ToolRec /\ tool'.at = "recheck" /\ tool'.new = tool.new
    BY <1>5, ToolAt DEF Mask, Goto, Inv, Types, ToolSteps
  <2>2. tool.at = "mask" /\ masked' = TRUE /\ UNCHANGED <<conf, svc, fresh, raced>>
    BY <1>5 DEF Mask
  <2>3. Types'
    BY <1>1, <2>1, <2>2 DEF Inv, Types
  <2>4. ToolInv'
    BY <1>1, <2>1, <2>2 DEF Inv, ToolInv, Checking, Changing, Selected
  <2>5. BootInv' /\ ConfInv' /\ SvcInv'
    BY <1>1, <2>1, <2>2 DEF Inv, ToolInv, BootInv, ConfInv, SvcInv, Clean, ProvenSlot, Selected
  <2> QED
    BY <1>2, <1>1, <2>3, <2>4, <2>5 DEF Inv
<1>6. CASE Recheck
  <2>1. PICK x \in {"save", "idle"} : tool' = [tool EXCEPT !.at = x]
    BY <1>6 DEF Recheck, Goto
  <2>2. tool' \in ToolRec /\ tool'.at = x /\ tool'.new = tool.new
    <3>1. x \in ToolSteps
      BY DEF ToolSteps
    <3> QED
      BY <2>1, <3>1, ToolAt DEF Inv, Types
  <2>3. tool.at = "recheck" /\ UNCHANGED <<conf, svc, masked, fresh, raced>>
    BY <1>6 DEF Recheck, boot
  <2>4. Types'
    BY <1>1, <2>2, <2>3 DEF Inv, Types
  <2>5. ToolInv'
    BY <1>1, <2>2, <2>3 DEF Inv, ToolInv, Checking, Changing, Selected
  <2>6. BootInv' /\ ConfInv' /\ SvcInv'
    BY <1>1, <2>2, <2>3 DEF Inv, ToolInv, BootInv, ConfInv, SvcInv, Clean, ProvenSlot, Selected
  <2> QED
    BY <1>2, <1>1, <2>4, <2>5, <2>6 DEF Inv
<1>7. CASE ConfirmStart
  <2>1. /\ running.up /\ conf = "wait" /\ UNCHANGED <<tool, svc, masked, fresh, raced>>
        /\ \/ conf' = "skipped" /\ fs.pending = NoUpdate
           \/ conf' = "failed"
           \/ conf' = "read" /\ tool.at = "idle" /\ fs.pending # NoUpdate
    BY <1>7 DEF ConfirmStart
  <2>2. conf' = "skipped" => Clean(fs)
    BY <2>1, RecordAssumption DEF Inv, Types, Recorded
  <2>3. Types'
    BY <1>1, <2>1 DEF Inv, Types, ConfSteps
  <2>4. ToolInv'
    BY <1>1, <2>1 DEF Inv, ToolInv, Checking, Changing, Selected, Mine
  <2>5. BootInv' /\ SvcInv'
    BY <1>1, <2>1 DEF Inv, BootInv, SvcInv, Selected
  <2>6. ConfInv'
    BY <1>1, <2>1, <2>2 DEF Inv, ConfInv, Clean, ProvenSlot, Selected
  <2> QED
    BY <1>2, <1>1, <2>3, <2>4, <2>5, <2>6 DEF Inv
<1>8. CASE ConfirmRead
  <2>1. conf = "read" /\ UNCHANGED <<tool, svc, masked, fresh, raced>>
    BY <1>8 DEF ConfirmRead
  <2>2. \/ conf' = "failed"
        \/ /\ ~fresh /\ fs.pending # Torn
           /\ \/ conf' = "restore" /\ running.kernel = fs.pending.old
              \/ conf' = "prove" /\ running.kernel = fs.pending.new
    BY <1>8 DEF ConfirmRead
  <2>3. Types'
    BY <1>1, <2>1, <2>2 DEF Inv, Types, ConfSteps
  <2>4. tool.at = "idle"
    BY <2>1 DEF Inv, ToolInv
  <2>5. ToolInv'
    BY <1>1, <2>1, <2>4 DEF Inv, ToolInv, Checking, Changing, Selected, Mine
  <2>6. BootInv' /\ SvcInv'
    BY <1>1, <2>1, <2>2 DEF Inv, BootInv, SvcInv, Selected
  <2>7. fs.pending \in Updates \cup {NoUpdate, Torn} /\ fs.pending # NoUpdate
    BY <2>1, FilesType DEF Inv, Types, ConfInv
  <2>8. ConfInv'
    BY <1>1, <2>1, <2>2, <2>7 DEF Inv, ConfInv, Clean, ProvenSlot, Selected
  <2> QED
    BY <1>2, <1>1, <2>3, <2>5, <2>6, <2>8 DEF Inv
<1>9. CASE OneshotStart
  <2>1. /\ running.up /\ ~masked /\ conf \in {"ok", "skipped"} /\ svc' = "active"
        /\ raced' = (raced \/ tool.at = "mask")
        /\ UNCHANGED <<tool, conf, masked, fresh>>
    BY <1>9 DEF OneshotStart
  <2>2. Types'
    BY <1>1, <2>1 DEF Inv, Types
  <2>3. ToolInv'
    BY <1>1, <2>1 DEF Inv, ToolInv, Checking, Changing, Selected, Mine
  <2>4. BootInv' /\ ConfInv'
    BY <1>1, <2>1 DEF Inv, BootInv, ConfInv, Clean, ProvenSlot, Selected
  <2>5. SvcInv'
    BY <1>1, <2>1 DEF Inv, ToolInv, SvcInv
  <2> QED
    BY <1>2, <1>1, <2>2, <2>3, <2>4, <2>5 DEF Inv
<1> QED
  BY <1>3, <1>4, <1>5, <1>6, <1>7, <1>8, <1>9

-----------------------------------------------------------------------------
(* Steps that leave the slots alone and change files. *)

(* What is recorded depends on the slots and on the boot. *)
LEMMA SlotsKept ==
    ASSUME Inv, UNCHANGED <<block, image, running, raced>>,
           journal' \subseteq Files, fs' \in journal', \A f \in journal' : Recorded(f)
    PROVE  /\ Settles' /\ Home' /\ (\A f \in journal' : Recorded(f)')
           /\ UNCHANGED Selected /\ (Clean(fs)' <=> Clean(fs'))
  BY DEF Inv, Settles, Home, Recorded, UpdateOK, Clean, ProvenSlot, SettleSlot, Selected

(* In an install before the apk transaction, nothing has been changed. *)
LEMMA CheckingClean ==
    ASSUME Inv, tool.at \in Checking
    PROVE  Clean(fs) /\ Selected = running.slot /\ fs.pending \notin Updates
  BY RecordAssumption DEF Inv, Types, ToolInv, Checking, Recorded

LEMMA EnableUnitStep == ASSUME Inv, EnableUnit PROVE Inv'
<1>1. PICK f \in Files : /\ f = [fs EXCEPT !.unit = TRUE] /\ f.unit
                         /\ f.pkg = fs.pkg /\ f.pending = fs.pending
  BY NewUnit DEF Inv, Types
<1>2. /\ tool.at = "unit" /\ fs' = f /\ journal' = journal \cup {f}
      /\ UNCHANGED <<block, image, running, conf, svc, masked, fresh, raced>>
  BY <1>1 DEF EnableUnit, Change, slots, boot
<1>3. tool' \in ToolRec /\ tool'.at = "busy" /\ tool'.new = tool.new
  BY ToolAt DEF EnableUnit, Goto, Inv, Types, ToolSteps
<1>4. Clean(fs) /\ Selected = running.slot /\ fs.pending \notin Updates
  BY <1>2, CheckingClean DEF Checking
<1>5. Clean(f)
  BY <1>1, <1>4 DEF Clean
<1>6. Recorded(f)
  BY <1>1, <1>4, <1>5 DEF Recorded
<1>7. Types'
  BY <1>1, <1>2, <1>3 DEF Inv, Types
<1>8. /\ Settles' /\ Home' /\ (\A g \in journal' : Recorded(g)')
      /\ Selected' = Selected /\ Clean(fs)'
  BY <1>1, <1>2, <1>5, <1>6, <1>7, SlotsKept DEF Inv, Types
<1>9. ToolInv'
  BY <1>1, <1>2, <1>3, <1>8 DEF Inv, ToolInv, Checking, Changing
<1>10. BootInv' /\ SvcInv'
  BY <1>2, <1>3, <1>8 DEF Inv, BootInv, SvcInv
<1>11. ConfInv'
  BY <1>1, <1>2, <1>8 DEF Inv, ToolInv, ConfInv
<1> QED
  BY <1>7, <1>8, <1>9, <1>10, <1>11 DEF Inv

LEMMA SaveStateStep == ASSUME Inv, SaveState PROVE Inv'
<1>0. /\ Mine \in Updates /\ Mine.target = Other(running.slot) /\ Mine.old = running.kernel
      /\ Mine \in Updates \cup {NoUpdate, Torn} /\ Torn \in Updates \cup {NoUpdate, Torn}
  BY MineIsUpdate DEF Inv
<1>1. PICK f \in Files : /\ f = [fs EXCEPT !.pending = Mine] /\ f.unit = fs.unit
                         /\ f.pkg = fs.pkg /\ f.pending = Mine
  <2>1. fs \in Files
    BY DEF Inv, Types
  <2>2. PICK u \in Updates \cup {NoUpdate, Torn} : u = Mine
    BY <1>0
  <2> QED
    BY <2>1, <2>2, NewPending
<1>2. PICK t \in Files : /\ t = [fs EXCEPT !.pending = Torn] /\ t.unit = fs.unit
                         /\ t.pkg = fs.pkg /\ t.pending = Torn
  <2>1. fs \in Files
    BY DEF Inv, Types
  <2>2. PICK u \in Updates \cup {NoUpdate, Torn} : u = Torn
    BY <1>0
  <2> QED
    BY <2>1, <2>2, NewPending
<1>3. /\ tool.at = "save" /\ fs' = f /\ journal' = journal \cup {t} \cup {f} /\ fresh' = TRUE
      /\ UNCHANGED <<block, image, running, conf, svc, masked, raced>>
  BY <1>1, <1>2 DEF SaveState, Change, Mine, slots, boot
<1>4. tool' \in ToolRec /\ tool'.at = "saveSync" /\ tool'.new = tool.new
  BY ToolAt DEF SaveState, Goto, Inv, Types, ToolSteps
<1>5. Clean(fs) /\ Selected = running.slot
  BY <1>3, CheckingClean DEF Checking
<1>6. Recorded(t)
  BY <1>2, <1>5, RecordAssumption DEF Recorded, Clean
<1>7. running.up /\ fs.unit /\ masked /\ image[Other(running.slot)] # running.kernel
  BY <1>3 DEF Inv, ToolInv, Checking
<1>8. UpdateOK(Mine)
  BY <1>0, <1>5, <1>7, TwoSlots DEF Inv, Types, Home, UpdateOK, Clean
<1>9. Recorded(f)
  BY <1>0, <1>1, <1>7, <1>8 DEF Recorded
<1>10. Types'
  BY <1>1, <1>2, <1>3, <1>4 DEF Inv, Types
<1>11. /\ Settles' /\ Home' /\ (\A g \in journal' : Recorded(g)') /\ Selected' = Selected
  BY <1>3, <1>6, <1>9, <1>10, SlotsKept DEF Inv, Types
<1>12. Mine' = Mine
  BY <1>3, <1>4 DEF Mine
<1>13. ToolInv'
  BY <1>1, <1>3, <1>4, <1>7, <1>11, <1>12 DEF Inv, ToolInv, Checking, Changing
<1>14. BootInv' /\ SvcInv'
  BY <1>3, <1>4, <1>7, <1>11 DEF Inv, ToolInv, BootInv, SvcInv
<1>15. ConfInv'
  BY <1>3, <1>7 DEF Inv, ToolInv, ConfInv
<1> QED
  BY <1>10, <1>11, <1>13, <1>14, <1>15 DEF Inv

LEMMA SaveSyncStep == ASSUME Inv, SaveSync PROVE Inv'
<1>1. /\ tool.at = "saveSync" /\ fs' = fs /\ journal' = {fs}
      /\ UNCHANGED <<block, image, running, conf, svc, masked, fresh, raced>>
  BY DEF SaveSync, Sync, slots, boot
<1>2. tool' \in ToolRec /\ tool'.at = "apk" /\ tool'.new = tool.new
  BY ToolAt DEF SaveSync, Goto, Inv, Types, ToolSteps
<1>3. Types'
  BY <1>1, <1>2 DEF Inv, Types
<1>4. /\ Settles' /\ Home' /\ (\A g \in journal' : Recorded(g)') /\ Selected' = Selected
  BY <1>1, <1>3, SlotsKept DEF Inv, Types
<1>5. Mine' = Mine
  BY <1>1, <1>2 DEF Mine
<1>6. ToolInv'
  BY <1>1, <1>2, <1>4, <1>5 DEF Inv, ToolInv, Checking, Changing
<1>7. BootInv' /\ SvcInv'
  BY <1>1, <1>2, <1>4 DEF Inv, ToolInv, BootInv, SvcInv
<1>8. ConfInv'
  BY <1>1 DEF Inv, ToolInv, ConfInv
<1> QED
  BY <1>3, <1>4, <1>6, <1>7, <1>8 DEF Inv

(* The package changes under an install, which has left its record. *)
LEMMA PackageStep ==
    ASSUME Inv, tool.at \in Changing, NEW p \in Kernels \cup {Torn},
           Change([fs EXCEPT !.pkg = p], {}), NEW x \in {"idle", "apkEnd", "deploy"}, Goto(x),
           UNCHANGED <<block, image, running, conf, svc, masked, fresh, raced>>
    PROVE  Inv'
<1>1. PICK f \in Files : /\ f = [fs EXCEPT !.pkg = p] /\ f.unit = fs.unit /\ f.pending = fs.pending
  BY NewPackage DEF Inv, Types
<1>2. fs' = f /\ journal' = journal \cup {f}
  BY <1>1 DEF Change
<1>3. x \in ToolSteps
  BY DEF ToolSteps
<1>4. tool' \in ToolRec /\ tool'.at = x /\ tool'.new = tool.new
  BY <1>3, ToolAt DEF Goto, Inv, Types
<1>5. \A g \in journal : g.pending = Mine
  BY DEF Inv, ToolInv
<1>6. fs \in journal /\ fs.pending = Mine /\ Mine \in Updates /\ Recorded(fs)
  BY <1>5, MineIsUpdate DEF Inv, Types
<1>7. Recorded(f)
  BY <1>1, <1>6 DEF Recorded
<1>8. Types'
  BY <1>1, <1>2, <1>4 DEF Inv, Types
<1>9. /\ Settles' /\ Home' /\ (\A g \in journal' : Recorded(g)') /\ Selected' = Selected
  BY <1>2, <1>7, <1>8, SlotsKept DEF Inv, Types
<1>10. Mine' = Mine
  BY <1>4 DEF Mine
<1>11. /\ running.up /\ conf \in {"wait", "ok", "failed", "skipped"} /\ masked /\ fresh /\ fs.unit
       /\ tool.new # running.kernel /\ Selected = running.slot
  BY DEF Inv, ToolInv, Changing
<1>12. ToolInv'
  BY <1>1, <1>2, <1>4, <1>5, <1>6, <1>9, <1>10, <1>11 DEF ToolInv, Checking, Changing
<1>13. BootInv' /\ SvcInv' /\ ConfInv'
  BY <1>4, <1>9, <1>11 DEF Inv, BootInv, SvcInv, ConfInv, ToolInv, Changing
<1> QED
  BY <1>8, <1>9, <1>12, <1>13 DEF Inv

LEMMA InstallApkStep == ASSUME Inv, InstallApk PROVE Inv'
<1>1. UNCHANGED <<block, image, running, conf, svc, masked, fresh, raced>>
  BY DEF InstallApk, slots, boot
<1>2. Torn \in Kernels \cup {Torn} /\ tool.new \in Kernels \cup {Torn}
  BY DEF Inv, Types, ToolRec
<1>3. CASE tool.at = "apk" /\ Goto("apkEnd") /\ Change([fs EXCEPT !.pkg = Torn], {})
  BY <1>1, <1>2, <1>3, PackageStep DEF Changing
<1>4. CASE tool.at = "apkEnd" /\ Goto("deploy") /\ Change([fs EXCEPT !.pkg = tool.new], {})
  BY <1>1, <1>2, <1>4, PackageStep DEF Changing
<1> QED
  BY <1>3, <1>4 DEF InstallApk

LEMMA VerifyStep == ASSUME Inv, Verify PROVE Inv'
<1>1. /\ tool.at = "verify" /\ fs' = fs /\ journal' \in {journal, {fs}}
      /\ UNCHANGED <<block, image, running, conf, svc, masked, fresh, raced>>
  BY DEF Verify, Sync, slots, boot
<1>2. tool' \in ToolRec /\ tool'.at = "idle"
  BY ToolAt DEF Verify, Goto, Inv, Types, ToolSteps
<1>3. Types'
  BY <1>1, <1>2 DEF Inv, Types
<1>4. /\ Settles' /\ Home' /\ (\A g \in journal' : Recorded(g)') /\ Selected' = Selected
  BY <1>1, <1>3, SlotsKept DEF Inv, Types
<1>5. ToolInv'
  BY <1>2 DEF ToolInv, Checking, Changing
<1>6. BootInv' /\ SvcInv'
  BY <1>1, <1>2, <1>4 DEF Inv, ToolInv, BootInv, SvcInv
<1>7. ConfInv'
  BY <1>1 DEF Inv, ToolInv, ConfInv
<1> QED
  BY <1>3, <1>4, <1>5, <1>6, <1>7 DEF Inv

LEMMA InstallStopsStep == ASSUME Inv, InstallStops PROVE Inv'
<1>1. /\ tool.at \in {"unit", "busy", "mask", "recheck", "save", "apk", "apkEnd"} /\ Goto("idle")
      /\ UNCHANGED <<block, image, running, conf, svc, masked, fresh, raced>>
  BY DEF InstallStops, slots, boot
<1>2. CASE tool.at = "apkEnd"
  <2>1. PICK p \in {running.kernel, Torn, tool.new} : Change([fs EXCEPT !.pkg = p], {})
    BY <1>2 DEF InstallStops
  <2>2. p \in Kernels \cup {Torn}
    BY DEF Inv, Types, ToolRec
  <2> QED
    BY <1>1, <1>2, <2>1, <2>2, PackageStep DEF Changing
<1>3. CASE tool.at # "apkEnd"
  <2>1. fs' = fs /\ journal' = journal
    BY <1>3 DEF InstallStops
  <2>2. tool' \in ToolRec /\ tool'.at = "idle"
    BY <1>1, ToolAt DEF Goto, Inv, Types, ToolSteps
  <2>3. Types'
    BY <1>1, <2>1, <2>2 DEF Inv, Types
  <2>4. /\ Settles' /\ Home' /\ (\A g \in journal' : Recorded(g)')
        /\ Selected' = Selected /\ (Clean(fs)' <=> Clean(fs))
    BY <1>1, <2>1, <2>3, SlotsKept DEF Inv, Types
  <2>5. ToolInv'
    BY <2>2 DEF ToolInv, Checking, Changing
  <2>6. BootInv' /\ SvcInv'
    BY <1>1, <2>2, <2>4 DEF Inv, ToolInv, BootInv, SvcInv
  <2>7. ConfInv'
    BY <1>1, <2>1, <2>4 DEF Inv, ConfInv
  <2> QED
    BY <2>3, <2>4, <2>5, <2>6, <2>7 DEF Inv
<1> QED
  BY <1>2, <1>3

(* confirm changes a file: install is out of the way. *)
LEMMA ConfirmFileStep ==
    ASSUME Inv, conf \in {"restore", "restoreEnd", "pause", "unlink"},
           NEW f \in Files, Recorded(f), fs' = f, journal' = journal \cup {f},
           NEW c \in ConfSteps, conf' = c, c # "read",
           c \in {"restore", "restoreEnd", "pause", "prove"}
               => /\ f.pending \in Updates /\ running.kernel = f.pending.old
                  /\ c # "prove" /\ (c = "pause" => f.pkg = running.kernel),
           c \in {"unlink", "sync", "ok", "skipped"} => Clean(f),
           UNCHANGED <<block, image, running, tool, svc, masked, fresh, raced>>
    PROVE  Inv'
<1>1. tool.at = "idle" /\ ~fresh /\ running.up
  BY DEF Inv, ToolInv, BootInv
<1>2. Types'
  BY DEF Inv, Types
<1>3. /\ Settles' /\ Home' /\ (\A g \in journal' : Recorded(g)')
      /\ Selected' = Selected /\ (Clean(fs)' <=> Clean(f))
  BY <1>2, SlotsKept DEF Inv, Types
<1>4. ToolInv'
  BY <1>1 DEF ToolInv, Checking, Changing
<1>5. BootInv' /\ SvcInv'
  BY <1>1, <1>3 DEF Inv, BootInv, SvcInv
<1>6. ConfInv'
  BY <1>3 DEF ConfInv
<1> QED
  BY <1>2, <1>3, <1>4, <1>5, <1>6 DEF Inv

(* A file that keeps the record of the update is recorded. *)
LEMMA KeepsRecord ==
    ASSUME Inv, fs.pending \in Updates, NEW f \in Files, f.pending = fs.pending, f.unit = fs.unit
    PROVE  Recorded(f)
  BY DEF Inv, Types, Recorded

(* In a boot of the old kernel, it runs from its own, proven slot. *)
LEMMA OldAtHome ==
    ASSUME Inv, running.up, ~fresh, fs.pending \in Updates, running.kernel = fs.pending.old
    PROVE  ProvenSlot(Selected) /\ image[Selected] = running.kernel
<1>1. UpdateOK(fs.pending) /\ fs.pending.target \in Slots
  BY DEF Inv, Types, Recorded, Updates
<1>2. Selected = running.slot /\ running.slot \in Slots /\ image[running.slot] = running.kernel
  BY DEF Inv, Types, BootInv, Home
<1>3. running.slot = Other(fs.pending.target)
  BY <1>1, <1>2, TwoSlots DEF UpdateOK
<1> QED
  BY <1>1, <1>2, <1>3 DEF UpdateOK

LEMMA RestoreStep == ASSUME Inv, Restore PROVE Inv'
<1>1. UNCHANGED <<block, image, running, tool, svc, masked, fresh, raced>>
  BY DEF Restore, slots
<1>2. fs \in Files /\ conf \in {"restore", "restoreEnd"} /\ fs.pending \in Updates
      /\ running.kernel = fs.pending.old /\ running.kernel \in Kernels
  BY DEF Restore, Inv, Types, ConfInv
<1>3. CASE conf = "restore" /\ conf' = "restoreEnd" /\ Change([fs EXCEPT !.pkg = Torn], {})
  <2>1. PICK f \in Files : /\ f = [fs EXCEPT !.pkg = Torn] /\ f.unit = fs.unit
                           /\ f.pending = fs.pending
    BY <1>2, NewPackage
  <2>2. fs' = f /\ journal' = journal \cup {f} /\ Recorded(f)
    BY <1>2, <1>3, <2>1, KeepsRecord DEF Change
  <2>3. "restoreEnd" \in ConfSteps
    BY DEF ConfSteps
  <2> QED
    BY <1>1, <1>2, <1>3, <2>1, <2>2, <2>3, ConfirmFileStep
<1>4. CASE conf = "restoreEnd" /\ conf' = "pause" /\ Change([fs EXCEPT !.pkg = fs.pending.old], {})
  <2>1. PICK f \in Files : /\ f = [fs EXCEPT !.pkg = running.kernel] /\ f.unit = fs.unit
                           /\ f.pending = fs.pending /\ f.pkg = running.kernel
    BY <1>2, NewPackage
  <2>2. fs' = f /\ journal' = journal \cup {f} /\ Recorded(f)
    BY <1>2, <1>4, <2>1, KeepsRecord DEF Change
  <2>3. "pause" \in ConfSteps
    BY DEF ConfSteps
  <2> QED
    BY <1>1, <1>2, <1>4, <2>1, <2>2, <2>3, ConfirmFileStep
<1> QED
  BY <1>3, <1>4 DEF Restore

LEMMA PauseStep == ASSUME Inv, PauseUpdates PROVE Inv'
<1>1. UNCHANGED <<block, image, running, tool, svc, masked, fresh, raced>>
  BY DEF PauseUpdates, slots
<1>2. /\ fs \in Files /\ conf = "pause" /\ conf' = "unlink" /\ fs.pending \in Updates
      /\ running.kernel = fs.pending.old /\ fs.pkg = running.kernel
  BY DEF PauseUpdates, Inv, Types, ConfInv
<1>3. running.up /\ ~fresh
  BY <1>2 DEF Inv, BootInv
<1>4. PICK f \in Files : /\ f = [fs EXCEPT !.paused = TRUE] /\ f.unit = fs.unit
                         /\ f.pending = fs.pending /\ f.pkg = fs.pkg
  BY <1>2, NewPause
<1>5. fs' = f /\ journal' = journal \cup {f} /\ Recorded(f)
  BY <1>2, <1>4, KeepsRecord DEF Change, PauseUpdates
<1>6. Clean(f)
  BY <1>2, <1>3, <1>4, OldAtHome DEF Clean
<1>7. "unlink" \in ConfSteps
  BY DEF ConfSteps
<1> QED
  BY <1>1, <1>2, <1>4, <1>5, <1>6, <1>7, ConfirmFileStep

LEMMA UnlinkStep == ASSUME Inv, Unlink PROVE Inv'
<1>1. UNCHANGED <<block, image, running, tool, svc, masked, fresh, raced>>
  BY DEF Unlink, slots
<1>2. fs \in Files /\ conf = "unlink" /\ conf' = "sync" /\ Clean(fs)
  BY DEF Unlink, Inv, Types, ConfInv
<1>3. Selected = running.slot
  BY <1>2 DEF Inv, BootInv
<1>4. PICK f \in Files : /\ f = [fs EXCEPT !.pending = NoUpdate]
                         /\ f.pending = NoUpdate /\ f.pkg = fs.pkg
  <2>1. PICK u \in Updates \cup {NoUpdate, Torn} : u = NoUpdate
    OBVIOUS
  <2> QED
    BY <1>2, <2>1, NewPending
<1>5. Clean(f)
  BY <1>2, <1>4 DEF Clean
<1>6. fs' = f /\ journal' = journal \cup {f} /\ Recorded(f)
  BY <1>3, <1>4, <1>5, RecordAssumption DEF Change, Unlink, Recorded
<1>7. "sync" \in ConfSteps
  BY DEF ConfSteps
<1> QED
  BY <1>1, <1>2, <1>4, <1>5, <1>6, <1>7, ConfirmFileStep

LEMMA ConfirmSyncStep == ASSUME Inv, ConfirmSync PROVE Inv'
<1>1. /\ UNCHANGED <<block, image, running, tool, svc, masked, fresh, raced>>
      /\ fs' = fs /\ journal' = {fs} /\ conf = "sync" /\ conf' = "ok"
  BY DEF ConfirmSync, Sync, slots
<1>2. tool.at = "idle" /\ ~fresh /\ running.up /\ Clean(fs)
  BY <1>1 DEF Inv, ToolInv, BootInv, ConfInv
<1>3. Types'
  BY <1>1 DEF Inv, Types, ConfSteps
<1>4. /\ Settles' /\ Home' /\ (\A g \in journal' : Recorded(g)')
      /\ Selected' = Selected /\ Clean(fs)'
  BY <1>1, <1>2, <1>3, SlotsKept DEF Inv, Types
<1>5. ToolInv'
  BY <1>1, <1>2 DEF ToolInv, Checking, Changing
<1>6. BootInv' /\ SvcInv' /\ ConfInv'
  BY <1>1, <1>2, <1>4 DEF Inv, BootInv, SvcInv, ConfInv
<1> QED
  BY <1>3, <1>4, <1>5, <1>6 DEF Inv

-----------------------------------------------------------------------------
(* The device goes down, to a state of the files that a power cut may bring  *)
(* back.                                                                     *)
LEMMA DownStep ==
    ASSUME Inv, GoDown, fs' \in journal, journal' = {fs'}
    PROVE  Inv'
<1>1. /\ UNCHANGED <<block, image, raced>> /\ conf' = "skipped" /\ svc' = "done"
      /\ masked' = FALSE /\ fresh' = FALSE
  BY DEF GoDown, slots
<1>2. running' \in [slot : Slots, kernel : Kernels, up : BOOLEAN] /\ ~running'.up
  BY DEF GoDown, Inv, Types
<1>3. tool' \in ToolRec /\ tool'.at = "idle"
  BY ToolAt DEF GoDown, Inv, Types, ToolSteps
<1>4. Types'
  BY <1>1, <1>2, <1>3 DEF Inv, Types, ConfSteps
<1>5. Settles' /\ Home'
  BY <1>1, <1>2 DEF Inv, Settles, Home, ProvenSlot, SettleSlot, Selected
<1>6. Recorded(fs')
  BY DEF Inv
<1>7. \A g \in journal' : Recorded(g)'
  BY <1>1, <1>2, <1>6 DEF Recorded, UpdateOK, Clean, ProvenSlot, Selected
<1>8. ToolInv'
  BY <1>3 DEF ToolInv, Checking, Changing
<1>9. BootInv' /\ SvcInv' /\ ConfInv'
  BY <1>1, <1>2, <1>3 DEF BootInv, SvcInv, ConfInv
<1> QED
  BY <1>4, <1>5, <1>7, <1>8, <1>9 DEF Inv

LEMMA ReachesDown == ASSUME Inv, UserReboot \/ PowerCut PROVE Inv'
<1>1. CASE UserReboot
  <2>1. GoDown /\ fs' = fs /\ journal' = {fs}
    BY <1>1 DEF UserReboot, Sync
  <2> QED
    BY <2>1, DownStep DEF Inv, Types
<1>2. CASE PowerCut
  BY <1>2, DownStep DEF PowerCut
<1> QED
  BY <1>1, <1>2

-----------------------------------------------------------------------------
(* dc1-boot-sync writes and arms the other slot. *)

(* In an install from the apk transaction on, the running kernel is proven   *)
(* in the selected slot, and every state of the files has the record.        *)
LEMMA ChangingHome ==
    ASSUME Inv, tool.at \in Changing
    PROVE  /\ Selected = running.slot /\ ProvenSlot(Selected) /\ SettleSlot = Selected
           /\ image[Selected] = running.kernel /\ running.kernel \in Good
           /\ image[Other(Selected)] # running.kernel /\ tool.new # running.kernel
           /\ running.up /\ conf \in {"wait", "ok", "failed", "skipped"}
           /\ masked /\ fresh /\ fs.unit
           /\ Mine \in Updates /\ Mine.target = Other(Selected) /\ Mine.old = running.kernel
           /\ \A f \in journal : f.pending = Mine /\ f.unit
<1>1. /\ running.up /\ conf \in {"wait", "ok", "failed", "skipped"}
      /\ masked /\ fresh /\ fs.unit
      /\ tool.new # running.kernel /\ Selected = running.slot
      /\ \A f \in journal : f.pending = Mine
  BY DEF Inv, ToolInv, Changing
<1>2. Mine \in Updates /\ Mine.target = Other(running.slot) /\ Mine.old = running.kernel
  BY MineIsUpdate DEF Inv
<1>3. \A f \in journal : f.pending = Mine /\ f.unit /\ UpdateOK(Mine)
  BY <1>1, <1>2 DEF Inv, Recorded
<1>4. UpdateOK(Mine) /\ running.slot \in Slots
  BY <1>3 DEF Inv, Types
<1>5. Other(Mine.target) = running.slot
  BY <1>2, <1>4, TwoSlots
<1>6. ProvenSlot(Selected) /\ image[Other(Selected)] # running.kernel
  BY <1>1, <1>2, <1>4, <1>5 DEF UpdateOK
<1>7. SettleSlot = Selected
  BY <1>6 DEF SettleSlot, ProvenSlot
<1> QED
  BY <1>1, <1>2, <1>3, <1>6, <1>7 DEF Inv, Home

(* The inactive slot is written. *)
LEMMA WriteStep ==
    ASSUME Inv, tool.at \in Changing, NEW k \in Images, k # running.kernel,
           image' = [image EXCEPT ![Other(Selected)] = k],
           NEW x \in {"dd", "arm"}, Goto(x), fs' = fs, journal' \in {journal, {fs}},
           UNCHANGED <<block, running, conf, svc, masked, fresh, raced>>
    PROVE  Inv'
<1>1. /\ Selected = running.slot /\ ProvenSlot(Selected) /\ SettleSlot = Selected
      /\ image[Selected] = running.kernel /\ running.kernel \in Good
      /\ tool.new # running.kernel
      /\ running.up /\ conf \in {"wait", "ok", "failed", "skipped"}
      /\ masked /\ fresh /\ fs.unit
      /\ Mine \in Updates /\ Mine.target = Other(Selected) /\ Mine.old = running.kernel
      /\ \A f \in journal : f.pending = Mine /\ f.unit
  BY ChangingHome
<1>2. Selected \in Slots /\ Other(Selected) \in Slots /\ Other(Selected) # Selected
      /\ Other(Other(Selected)) = Selected
  BY SelectedSlot, TwoSlots
<1>3. x \in ToolSteps
  BY DEF ToolSteps
<1>4. tool' \in ToolRec /\ tool'.at = x /\ tool'.new = tool.new
  BY <1>3, ToolAt DEF Goto, Inv, Types
<1>5. /\ image' \in [Slots -> Images] /\ image'[Other(Selected)] = k
      /\ image'[Selected] = running.kernel
  BY <1>1, <1>2 DEF Inv, Types
<1>6. Types'
  BY <1>4, <1>5 DEF Inv, Types
<1>7. Selected' = Selected /\ SettleSlot' = SettleSlot /\ Mine' = Mine
  BY <1>4 DEF Selected, SettleSlot, Mine
<1>8. Settles' /\ Home'
  BY <1>1, <1>5, <1>7 DEF Inv, Settles, Home, ProvenSlot
<1>9. UpdateOK(Mine)'
  BY <1>1, <1>2, <1>5, <1>7 DEF UpdateOK, ProvenSlot
<1>10. \A f \in journal' : f.pending = Mine /\ f.unit
  BY <1>1 DEF Inv, Types
<1>11. \A f \in journal' : Recorded(f)'
  BY <1>1, <1>7, <1>9, <1>10 DEF Recorded
<1>12. ToolInv'
  BY <1>1, <1>4, <1>7, <1>10 DEF ToolInv, Checking, Changing
<1>13. BootInv' /\ SvcInv' /\ ConfInv'
  BY <1>1, <1>4, <1>7 DEF Inv, BootInv, SvcInv, ConfInv, ToolInv, Changing
<1> QED
  BY <1>6, <1>8, <1>11, <1>12, <1>13 DEF Inv

(* The deployment ends, with the other slot armed or not. *)
LEMMA DeployEnds ==
    ASSUME Inv, tool.at \in Changing, Goto("verify"),
           UNCHANGED block \/ SlotCtl(ArmInactive),
           UNCHANGED <<image, running, fs, journal, conf, svc, masked, fresh, raced>>
    PROVE  Inv'
<1>1. /\ Selected = running.slot /\ ProvenSlot(Selected) /\ SettleSlot = Selected
      /\ image[Selected] = running.kernel /\ running.kernel \in Good
      /\ image[Other(Selected)] # running.kernel
      /\ running.up /\ conf \in {"wait", "ok", "failed", "skipped"}
      /\ masked /\ fresh /\ fs.unit
      /\ Mine \in Updates /\ Mine.target = Other(Selected) /\ Mine.old = running.kernel
      /\ \A f \in journal : f.pending = Mine /\ f.unit
  BY ChangingHome
<1>2. PICK o \in Slots : /\ o = Other(Selected) /\ o # Selected /\ Other(o) = Selected
  BY SelectedSlot, TwoSlots
<1>3. tool' \in ToolRec /\ tool'.at = "verify" /\ tool'.new = tool.new
  BY ToolAt DEF Goto, Inv, Types, ToolSteps
<1>4. Validate(block) /\ block \in Block
  BY DEF Inv, Types, Settles
<1>5. /\ block' \in Block /\ Validate(block') /\ Proven(StateOf(block', Selected))
      /\ \/ ActiveSlot(block') = Selected
         \/ ActiveSlot(block') = o /\ ~Proven(StateOf(block', o))
  <2>1. CASE block' = block
    BY <1>1, <1>4, <2>1 DEF ProvenSlot, Selected
  <2>2. CASE Accepts(block, ArmCmd(o)) /\ block' = Commanded(block, ArmCmd(o))
    BY <1>2, <1>4, <2>2, ArmedBlock
  <2>3. ArmInactive = ArmCmd(o)
    BY <1>2 DEF ArmInactive, ArmCmd
  <2> QED
    BY <2>1, <2>2, <2>3 DEF SlotCtl
<1>6. SettleSlot' = Selected
  BY <1>2, <1>5 DEF SettleSlot, Selected
<1>7. Types'
  BY <1>3, <1>5 DEF Inv, Types
<1>8. Settles' /\ Home'
  BY <1>1, <1>5, <1>6 DEF Inv, Settles, Home, ProvenSlot
<1>9. UpdateOK(Mine)'
  <2>1. Mine' = Mine
    BY <1>3 DEF Mine
  <2> QED
    BY <1>1, <1>2, <1>5, <2>1 DEF UpdateOK, ProvenSlot
<1>10. \A f \in journal' : Recorded(f)'
  <2>1. Mine' = Mine
    BY <1>3 DEF Mine
  <2> QED
    BY <1>1, <1>9, <2>1 DEF Recorded
<1>11. ToolInv'
  BY <1>1, <1>3 DEF ToolInv, Checking, Changing
<1>12. BootInv' /\ SvcInv' /\ ConfInv'
  BY <1>1, <1>3 DEF Inv, BootInv, SvcInv, ConfInv, ToolInv, Changing
<1> QED
  BY <1>7, <1>8, <1>10, <1>11, <1>12 DEF Inv

LEMMA DeployStep ==
    ASSUME Inv, DeployStart \/ DeployWritten \/ DeployArm \/ DeployFails
    PROVE  Inv'
<1>1. UNCHANGED <<running, conf, svc, masked, fresh, raced>>
  BY DEF DeployStart, DeployWritten, DeployArm, DeployFails, boot
<1>2. tool.at \in Changing
  BY DEF DeployStart, DeployWritten, DeployArm, DeployFails, Changing
<1>3. /\ Torn \in Images /\ tool.new \in Images /\ tool.new # running.kernel
      /\ Torn # running.kernel
  BY <1>2, ChangingHome, KernelLocalAssumption DEF Inv, Types, ToolRec, Images
<1>4. CASE DeployStart
  <2>1. UNCHANGED <<block, fs, journal>>
    BY <1>4 DEF DeployStart
  <2>2. CASE Goto("verify") /\ UNCHANGED image
    BY <1>1, <1>2, <2>1, <2>2, DeployEnds
  <2>3. CASE Goto("dd") /\ image' = [image EXCEPT ![Other(Selected)] = Torn]
    BY <1>1, <1>2, <1>3, <2>1, <2>3, WriteStep
  <2> QED
    BY <1>4, <2>2, <2>3 DEF DeployStart
<1>5. CASE DeployWritten
  <2>1. /\ UNCHANGED <<block, fs>> /\ journal' = {fs} /\ Goto("arm")
        /\ image' = [image EXCEPT ![Other(Selected)] = tool.new]
    BY <1>5 DEF DeployWritten, Sync
  <2> QED
    BY <1>1, <1>2, <1>3, <2>1, WriteStep
<1>6. CASE DeployArm \/ DeployFails
  <2>1. /\ Goto("verify") /\ UNCHANGED <<image, fs, journal>>
        /\ UNCHANGED block \/ SlotCtl(ArmInactive)
    BY <1>6 DEF DeployArm, DeployFails
  <2> QED
    BY <1>1, <1>2, <2>1, DeployEnds
<1> QED
  BY <1>4, <1>5, <1>6

-----------------------------------------------------------------------------
(* Marking the selected slot, and the bootloader. *)

(* A proof is added and none is lost. *)
LEMMA MarkKeeps ==
    ASSUME Inv, SlotCtl(MarkSelected), ~raced => image[Selected] \in Good,
           UNCHANGED <<image, running, raced>>
    PROVE  /\ block' \in Block /\ Selected' = Selected /\ Settles' /\ Home'
           /\ \A f : Recorded(f) => Recorded(f)'
           /\ \A f : Clean(f) => Clean(f)'
           /\ Accepts(block, MarkSelected) => ProvenSlot(Selected)'
           /\ \A s \in Slots : s # Selected => (ProvenSlot(s)' <=> ProvenSlot(s))
<1>1. block \in Block /\ Validate(block) /\ Selected \in Slots /\ SettleSlot \in Slots
  BY SelectedSlot, TwoSlots DEF Inv, Types, Settles, SettleSlot
<1>2. HasProven(block)
  BY <1>1 DEF Inv, Settles, ProvenSlot, HasProven
<1>3. MarkSelected = MarkCmd(Selected)
  BY DEF MarkSelected, MarkCmd
<1>4. CASE ~Accepts(block, MarkSelected)
  <2>1. block' = block
    BY <1>4 DEF SlotCtl
  <2> QED
    BY <1>1, <1>4, <2>1 DEF Inv, Settles, Home, Recorded, UpdateOK, Clean, ProvenSlot, SettleSlot, Selected
<1>5. CASE Accepts(block, MarkSelected)
  <2>1. block' = Commanded(block, MarkCmd(Selected))
    BY <1>3, <1>5 DEF SlotCtl
  <2>2. PICK s \in Slots : s = Selected
    BY <1>1
  <2>3. /\ block' \in Block /\ Validate(block') /\ ActiveSlot(block') = s
        /\ Proven(StateOf(block', s)) /\ StateOf(block', Other(s)) = StateOf(block, Other(s))
    BY <1>1, <1>2, <1>3, <1>5, <2>1, <2>2, MarkedBlock
  <2>4. Selected' = Selected /\ SettleSlot' = Selected /\ ProvenSlot(Selected)'
    BY <2>2, <2>3 DEF Selected, SettleSlot, ProvenSlot
  <2>5. \A r \in Slots : r # Selected => StateOf(block', r) = StateOf(block, r)
    BY <2>2, <2>3, TwoSlots
  <2>6. \A r \in Slots : ProvenSlot(r) => ProvenSlot(r)'
    BY <2>2, <2>3, <2>5 DEF ProvenSlot
  <2>7. Settles' /\ Home'
    BY <2>3, <2>4 DEF Inv, Settles, Home
  <2>8. \A f : Clean(f) => Clean(f)'
    BY <2>4 DEF Clean
  <2>9. \A u \in Updates : UpdateOK(u) => UpdateOK(u)'
    BY <2>6, TwoSlots DEF UpdateOK, Updates
  <2>10. \A f : Recorded(f) => Recorded(f)'
    BY <2>4, <2>8, <2>9 DEF Recorded
  <2> QED
    BY <2>3, <2>4, <2>5, <2>7, <2>8, <2>10 DEF ProvenSlot
<1> QED
  BY <1>4, <1>5

(* What runs in the selected slot works. *)
LEMMA SelectedRuns ==
    ASSUME Inv, running.up, ~fresh
    PROVE  Selected = running.slot /\ image[Selected] = running.kernel /\ image[Selected] \in Good
  BY DEF Inv, BootInv, Home

(* confirm proves the candidate, or leaves it at that. *)
LEMMA ConfirmMarkStep ==
    ASSUME Inv, conf \in {"read", "restore", "restoreEnd", "pause", "prove", "unlink"},
           \/ UNCHANGED block /\ conf' = "failed"
           \/ /\ conf = "prove" /\ CandidateRuns /\ SlotCtl(MarkSelected)
              /\ conf' = "failed" \/ (conf' = "unlink" /\ Accepts(block, MarkSelected)),
           UNCHANGED <<image, running, fs, journal, tool, svc, masked, fresh, raced>>
    PROVE  Inv'
<1>1. tool.at = "idle" /\ running.up
  BY DEF Inv, ToolInv, BootInv
<1>2. CASE UNCHANGED block /\ conf' = "failed"
  <2>1. Types'
    BY <1>2 DEF Inv, Types, ConfSteps
  <2>2. Settles' /\ Home' /\ (\A g \in journal' : Recorded(g)') /\ Selected' = Selected
    BY <1>2, <2>1, SlotsKept DEF Inv, Types
  <2>3. ToolInv'
    BY <1>1 DEF ToolInv, Checking, Changing
  <2>4. BootInv' /\ SvcInv' /\ ConfInv'
    BY <1>1, <1>2, <2>2 DEF Inv, BootInv, SvcInv, ConfInv
  <2> QED
    BY <2>1, <2>2, <2>3, <2>4 DEF Inv
<1>3. CASE /\ conf = "prove" /\ CandidateRuns /\ SlotCtl(MarkSelected)
           /\ conf' = "failed" \/ (conf' = "unlink" /\ Accepts(block, MarkSelected))
  <2>0. ~fresh
    BY <1>3 DEF Inv, BootInv
  <2>1. image[Selected] \in Good
    BY <1>1, <2>0, SelectedRuns
  <2>2. /\ block' \in Block /\ Selected' = Selected /\ Settles' /\ Home'
        /\ \A f : Recorded(f) => Recorded(f)'
        /\ Accepts(block, MarkSelected) => ProvenSlot(Selected)'
    BY <1>3, <2>1, MarkKeeps
  <2>3. Types'
    BY <2>2 DEF Inv, Types, ConfSteps
  <2>4. ToolInv'
    BY <1>1 DEF ToolInv, Checking, Changing
  <2>5. BootInv' /\ SvcInv'
    BY <1>1, <1>3, <2>0, <2>2 DEF Inv, BootInv, SvcInv
  <2>6. conf' = "unlink" => Clean(fs)'
    BY <1>3, <2>2 DEF Clean, CandidateRuns
  <2>7. ConfInv'
    BY <1>3, <2>6 DEF ConfInv
  <2> QED
    BY <2>2, <2>3, <2>4, <2>5, <2>7 DEF Inv
<1> QED
  BY <1>2, <1>3

LEMMA ProveStep == ASSUME Inv, Prove PROVE Inv'
<1>1. /\ conf = "prove" /\ UNCHANGED <<image, running, fs, journal, tool, svc, masked, fresh, raced>>
      /\ \/ /\ CandidateRuns /\ Accepts(block, MarkSelected) /\ conf' = "unlink"
            /\ SlotCtl(MarkSelected)
         \/ conf' = "failed" /\ UNCHANGED block
  BY DEF Prove
<1> QED
  BY <1>1, ConfirmMarkStep

LEMMA ConfirmFailsStep == ASSUME Inv, ConfirmFails PROVE Inv'
<1>1. /\ conf \in {"read", "restore", "restoreEnd", "pause", "prove", "unlink"} /\ conf' = "failed"
      /\ UNCHANGED <<image, running, tool, svc, masked, fresh, raced>>
      /\ UNCHANGED block \/ (conf = "prove" /\ CandidateRuns /\ SlotCtl(MarkSelected))
  BY DEF ConfirmFails
<1>2. CASE conf = "restoreEnd"
  <2>1. PICK p \in {Torn, fs.pending.old} : Change([fs EXCEPT !.pkg = p], {})
    BY <1>2 DEF ConfirmFails
  <2>2. fs \in Files /\ fs.pending \in Updates /\ fs.pending.old \in Kernels
    BY <1>2 DEF Inv, Types, ConfInv, Updates
  <2>3. PICK f \in Files : /\ f = [fs EXCEPT !.pkg = p] /\ f.unit = fs.unit
                           /\ f.pending = fs.pending
    BY <2>2, NewPackage
  <2>4. fs' = f /\ journal' = journal \cup {f} /\ Recorded(f)
    BY <2>1, <2>2, <2>3, KeepsRecord DEF Change
  <2>5. "failed" \in ConfSteps
    BY DEF ConfSteps
  <2> QED
    BY <1>1, <1>2, <2>3, <2>4, <2>5, ConfirmFileStep
<1>3. CASE conf # "restoreEnd"
  <2>1. UNCHANGED <<fs, journal>>
    BY <1>3 DEF ConfirmFails
  <2> QED
    BY <1>1, <2>1, ConfirmMarkStep
<1> QED
  BY <1>2, <1>3

(* The oneshot marks the slot it finds selected; while the service has not   *)
(* slipped in, that is the slot of this boot.                                *)
LEMMA OneshotStep == ASSUME Inv, Oneshot PROVE Inv'
<1>1. /\ svc = "active" /\ svc' = "done"
      /\ UNCHANGED <<image, running, fs, journal, tool, conf, masked, fresh, raced>>
      /\ UNCHANGED block \/ SlotCtl(MarkSelected)
  BY DEF Oneshot
<1>2. running.up /\ (~raced => ~fresh)
  BY <1>1 DEF Inv, BootInv, SvcInv
<1>3. ~raced => image[Selected] \in Good
  BY <1>2, SelectedRuns
<1>4. /\ block' \in Block /\ Selected' = Selected /\ Settles' /\ Home'
      /\ \A f : Recorded(f) => Recorded(f)'
      /\ \A f : Clean(f) => Clean(f)'
  <2>1. CASE UNCHANGED block
    BY <1>1, <2>1 DEF Inv, Types, Settles, Home, Recorded, UpdateOK, Clean, ProvenSlot, SettleSlot, Selected
  <2>2. CASE SlotCtl(MarkSelected)
    BY <1>1, <1>3, <2>2, MarkKeeps
  <2> QED
    BY <1>1, <2>1, <2>2
<1>5. Types'
  BY <1>1, <1>4 DEF Inv, Types
<1>6. Mine' = Mine
  BY <1>1 DEF Mine
<1>7. ToolInv'
  BY <1>1, <1>4, <1>6 DEF Inv, ToolInv, Checking, Changing
<1>8. BootInv' /\ SvcInv'
  BY <1>1, <1>4 DEF Inv, BootInv, SvcInv
<1>9. Clean(fs) => Clean(fs)'
  BY <1>1, <1>4
<1>10. ConfInv'
  BY <1>1, <1>9 DEF Inv, ConfInv
<1> QED
  BY <1>1, <1>4, <1>5, <1>7, <1>8, <1>10 DEF Inv

(* The bootloader hands off to a proven slot that is selected as it is, so   *)
(* what was clean stays clean; and proves no slot.                           *)
LEMMA BootStep == ASSUME Inv, Boot PROVE Inv'
<1>1. /\ ~running.up /\ block' = LKAfter(block)
      /\ UNCHANGED <<image, fs, journal, tool, masked, fresh, raced>>
  BY DEF Boot
<1>2. /\ tool.at = "idle" /\ conf = "skipped" /\ svc = "done" /\ ~fresh /\ ~masked
      /\ block \in Block /\ Validate(block) /\ SettleSlot = Settle(block)
      /\ Proven(StateOf(block, Settle(block)))
  BY <1>1 DEF Inv, Types, BootInv, Settles, ProvenSlot, SettleSlot, Settle, Selected
<1>3. PICK s \in Slots : s = LKSlot(block)
  BY TwoSlots DEF LKSlot
<1>4. /\ block' \in Block /\ Validate(block') /\ ActiveSlot(block') = s
      /\ Settle(block') = Settle(block)
      /\ \A r \in Slots : Proven(StateOf(block', r)) <=> Proven(StateOf(block, r))
      /\ s = Settle(block) \/ ~Proven(StateOf(block, ActiveSlot(block)))
  BY <1>1, <1>2, <1>3, BootsTo
<1>5. /\ Selected' = s /\ SettleSlot' = SettleSlot /\ SettleSlot \in Slots
      /\ \A r \in Slots : ProvenSlot(r)' <=> ProvenSlot(r)
      /\ ProvenSlot(Selected) => s = Selected
  BY <1>2, <1>4, SelectedSlot, TwoSlots DEF Selected, ProvenSlot, SettleSlot, Settle
<1>6. \/ /\ running' = [slot |-> s, kernel |-> image[s], up |-> TRUE] /\ image[s] \in Good
         /\ svc' = "wait" /\ conf' = IF fs.unit THEN "wait" ELSE "skipped"
      \/ UNCHANGED <<running, conf, svc>>
  BY <1>3 DEF Boot
<1>7. /\ running' \in [slot : Slots, kernel : Kernels, up : BOOLEAN]
      /\ running'.up => /\ running'.slot = s /\ running'.kernel = image[s]
                        /\ image[s] \in Good /\ svc' = "wait"
                        /\ conf' = IF fs.unit THEN "wait" ELSE "skipped"
      /\ ~running'.up => conf' = "skipped" /\ svc' = "done"
  <2>1. CASE /\ running' = [slot |-> s, kernel |-> image[s], up |-> TRUE] /\ image[s] \in Good
             /\ svc' = "wait" /\ conf' = IF fs.unit THEN "wait" ELSE "skipped"
    BY <2>1, KernelLocalAssumption
  <2>2. CASE UNCHANGED <<running, conf, svc>>
    BY <1>1, <1>2, <2>2 DEF Inv, Types
  <2> QED
    BY <1>6, <2>1, <2>2
<1>8. Types'
  BY <1>1, <1>4, <1>6, <1>7 DEF Inv, Types, ConfSteps
<1>9. Settles' /\ Home'
  BY <1>1, <1>4, <1>5, <1>7 DEF Inv, Settles, Home
<1>10. \A f : Clean(f) => Clean(f)' /\ Selected' = s
  BY <1>1, <1>5, SelectedSlot DEF Clean
<1>11. \A u \in Updates : UpdateOK(u) => UpdateOK(u)'
  BY <1>1, <1>5, TwoSlots DEF UpdateOK, Updates
<1>12. \A f : Recorded(f) => Recorded(f)'
  BY <1>5, <1>7, <1>10, <1>11 DEF Recorded
<1>13. ToolInv'
  BY <1>1, <1>2 DEF ToolInv, Checking, Changing
<1>14. BootInv' /\ SvcInv'
  BY <1>1, <1>2, <1>5, <1>7 DEF BootInv, SvcInv
<1>15. ~fs.unit => Clean(fs)
  BY DEF Inv, Types, Recorded
<1>16. ConfInv'
  <2>1. running'.up /\ conf' = "skipped" => Clean(fs)'
    BY <1>1, <1>7, <1>10, <1>15
  <2>2. conf' \in {"wait", "skipped"}
    BY <1>7, <1>8 DEF Types
  <2> QED
    BY <2>1, <2>2 DEF ConfInv
<1> QED
  BY <1>1, <1>8, <1>9, <1>12, <1>13, <1>14, <1>16 DEF Inv

-----------------------------------------------------------------------------
(* The theorems. *)

LEMMA InitInv == ASSUME Init PROVE Inv
<1>1. PICK hi \in Priorities, lo \in Priorities, t \in Tries, f \in Flags :
        hi = 15 /\ lo = 14 /\ t = 0 /\ f = 1
  BY DEF Priorities, Tries, Flags
<1>2. PICK x \in Byte, y \in Byte :
        /\ x = Pack(hi, t, f) /\ y = Pack(lo, t, f)
        /\ Decode(x) = [priority |-> hi, tries |-> t, successful |-> f]
        /\ Decode(y) = [priority |-> lo, tries |-> t, successful |-> f]
  BY PackedByte
<1>3. block = [header |-> TRUE, meta |-> [s \in Slots |-> IF s = "a" THEN x ELSE y],
               crc |-> [s \in Slots |-> IF s = "a" THEN x ELSE y]]
  <2>1. \A s : Pack(IF s = "a" THEN 15 ELSE 14, 0, 1) = IF s = "a" THEN x ELSE y
    BY <1>1, <1>2
  <2> QED
    BY <2>1 DEF Init, Sealed
<1>4. block \in Block /\ Validate(block)
  BY <1>3 DEF Block, Validate
<1>5. /\ StateOf(block, "a") = [priority |-> hi, tries |-> t, successful |-> f]
      /\ StateOf(block, "b") = [priority |-> lo, tries |-> t, successful |-> f]
  BY <1>2, <1>3 DEF StateOf, Slots
<1>6. Selected = "a" /\ ProvenSlot("a")
  BY <1>1, <1>5 DEF Selected, ActiveSlot, ProvenSlot, Proven
<1>7. SettleSlot = "a"
  BY <1>6 DEF SettleSlot, ProvenSlot
<1>8. PICK k \in Good : k = image["a"]
  BY DEF Init, Slots
<1>9. image \in [Slots -> Images] /\ k \in Kernels
  BY KernelLocalAssumption DEF Init, Images
<1>10. /\ running = [slot |-> "a", kernel |-> k, up |-> TRUE]
       /\ fs = [pending |-> NoUpdate, pkg |-> k, unit |-> FALSE, paused |-> FALSE]
       /\ journal = {fs} /\ conf = "skipped" /\ svc = "wait"
       /\ masked = FALSE /\ fresh = FALSE /\ raced = FALSE
  BY <1>8 DEF Init
<1>11. tool \in ToolRec /\ tool.at = "idle"
  BY <1>4, <1>8, <1>9 DEF Init, ToolRec, ToolSteps
<1>12. fs \in Files
  BY <1>9, <1>10 DEF Files
<1>13. Types
  BY <1>4, <1>9, <1>10, <1>11, <1>12 DEF Types, Slots, ConfSteps
<1>14. Settles /\ Home
  BY <1>4, <1>6, <1>7, <1>8, <1>10 DEF Settles, Home
<1>15. Clean(fs) /\ fs.pending \notin Updates /\ Selected = running.slot
  BY <1>6, <1>8, <1>10, RecordAssumption DEF Clean
<1>16. \A g \in journal : Recorded(g)
  BY <1>10, <1>15 DEF Recorded
<1>17. ToolInv
  BY <1>11 DEF ToolInv, Checking, Changing
<1>18. BootInv /\ ConfInv /\ SvcInv
  BY <1>10, <1>11, <1>15 DEF BootInv, ConfInv, SvcInv
<1> QED
  BY <1>13, <1>14, <1>16, <1>17, <1>18 DEF Inv

LEMMA NextInv == ASSUME Inv, [Next]_vars PROVE Inv'
<1>1. CASE UNCHANGED vars
  BY <1>1 DEF vars, Inv, Types, Settles, Home, ToolInv, BootInv, ConfInv, SvcInv, Recorded,
              UpdateOK, Clean, ProvenSlot, SettleSlot, Selected, Mine
<1>2. CASE Next
  BY <1>2, LookStep, EnableUnitStep, SaveStateStep, SaveSyncStep, InstallApkStep, DeployStep,
     VerifyStep, InstallStopsStep, RestoreStep, PauseStep, ProveStep, UnlinkStep,
     ConfirmSyncStep, ConfirmFailsStep, OneshotStep, ReachesDown, BootStep
     DEF Next, Install, Confirm
<1> QED
  BY <1>1, <1>2

(* The inductive invariant holds in every state: in particular, whatever a   *)
(* power cut of kernel-local-install.py brings back has the record of the    *)
(* update or has nothing to settle.                                          *)
THEOREM UpdateInvariant == Spec => []Inv
  BY InitInv, NextInv, PTL DEF Spec

(* Every variable keeps its type and every counter its bound. *)
THEOREM UpdateTypes == Spec => []TypeOK
<1> DEFINE Counts == installs \in 0 .. MaxInstalls /\ faults \in 0 .. MaxFaults
<1>1. Init => Counts
  BY KernelLocalAssumption DEF Init
<1>2. Counts /\ [Next]_vars => Counts'
  <2> SUFFICES ASSUME Counts, [Next]_vars PROVE Counts'
    OBVIOUS
  <2>1. \/ UNCHANGED <<installs, faults>>
        \/ installs < MaxInstalls /\ installs' = installs + 1 /\ faults' = faults
        \/ Fault
    BY DEF Next, Install, Confirm, Begin, EnableUnit, CheckBusy, Mask, Recheck, SaveState, SaveSync,
           InstallApk, DeployStart, DeployWritten, DeployArm, DeployFails, Verify, InstallStops,
           ConfirmStart, ConfirmRead, Restore, PauseUpdates, Prove, Unlink, ConfirmSync,
           ConfirmFails, OneshotStart, Oneshot, UserReboot, PowerCut, Boot, counts, vars
  <2> QED
    BY <2>1, KernelLocalAssumption DEF Fault
<1>3. Types /\ Counts => TypeOK
  BY DEF Types, TypeOK, ToolRec, Images
<1>4. Inv => Types
  BY DEF Inv
<1> QED
  BY <1>1, <1>2, <1>3, <1>4, UpdateInvariant, PTL DEF Spec

(* "arms exactly one try" (kernel-local-install.py:484-485): at every point  *)
(* of an install, of a confirmation and of their failures, the slot the      *)
(* device settles on is proven and holds a kernel that works, unless the     *)
(* service slipped in between the check and the mask.                        *)
THEOREM AlwaysRecovers == Spec => []AlwaysComesBack
<1>1. Inv => AlwaysComesBack
  BY DEF Inv, Settles, AlwaysComesBack, ProvenSlot
<1> QED
  BY <1>1, UpdateInvariant, PTL

(* "Install a boot-time verifier before the package or any slot is changed"  *)
(* (kernel-local-install.py:451): no power cut separates a changed package   *)
(* or an armed slot from the record and the unit that will settle it.        *)
THEOREM RecordBeforeChange == Spec => []VerifierFirst
<1>1. Inv => VerifierFirst
  <2> SUFFICES ASSUME Inv, running.up, NEW f \in journal,
                      f.pkg # running.kernel \/ Selected # running.slot
               PROVE  f.unit /\ f.pending \notin {NoUpdate, Torn}
    BY DEF VerifierFirst
  <2>1. f.pending \notin Updates => Clean(f) /\ Selected = running.slot
    BY DEF Inv, Recorded
  <2>2. f.pending \in Updates
    BY <2>1 DEF Inv, Home, Clean
  <2> QED
    BY <2>2, RecordAssumption DEF Inv, Recorded
<1> QED
  BY <1>1, UpdateInvariant, PTL

(* When dc1-boot-sync.service runs, the installed kernel is the one the      *)
(* selected slot boots: there is nothing for it to download over the         *)
(* developer's slots.                                                        *)
THEOREM PackageInStep == Spec => []InStep
<1>1. Inv => InStep
  <2> SUFFICES ASSUME Inv, svc = "active", ~raced PROVE fs.pkg = image[Selected]
    BY DEF InStep
  <2>1. running.up /\ ~masked /\ conf \in {"ok", "skipped"}
    BY DEF Inv, BootInv, SvcInv
  <2> QED
    BY <2>1 DEF Inv, ConfInv, Clean
<1> QED
  BY <1>1, UpdateInvariant, PTL

(* A slot of which a step makes a proven one. *)
LEMMA ProvenByMark ==
    ASSUME Inv, [Next]_vars, ~raced, NEW s \in Slots,
           ~Proven(StateOf(block, s)), Proven(StateOf(block', s))
    PROVE  running.up /\ running.slot = s
<1>1. block \in Block /\ Validate(block) /\ Proven(StateOf(block, Settle(block)))
  BY DEF Inv, Types, Settles, ProvenSlot, SettleSlot, Settle, Selected
<1>2. \/ UNCHANGED block
      \/ DeployArm \/ DeployFails
      \/ Prove \/ ConfirmFails \/ Oneshot \/ Boot
  BY DEF Next, Install, Confirm, Begin, EnableUnit, CheckBusy, Mask, Recheck, SaveState, SaveSync,
         InstallApk, DeployStart, DeployWritten, Verify, InstallStops,
         ConfirmStart, ConfirmRead, Restore, PauseUpdates, Unlink, ConfirmSync,
         OneshotStart, UserReboot, PowerCut, GoDown, slots, vars
<1>3. CASE UNCHANGED block
  BY <1>3
<1>4. CASE SlotCtl(ArmInactive) /\ ~UNCHANGED block
  <2>1. PICK o \in Slots : o = Other(Selected) /\ Other(o) = Selected
    BY SelectedSlot, TwoSlots
  <2>2. Accepts(block, ArmCmd(o)) /\ block' = Commanded(block, ArmCmd(o))
    BY <1>4, <2>1 DEF SlotCtl, ArmInactive, ArmCmd
  <2>3. ~Proven(StateOf(block', o)) /\ Proven(StateOf(block, Other(o)))
    BY <1>1, <2>2, ArmedBlock
  <2> QED
    BY <2>3, TwoSlots
<1>5. CASE SlotCtl(MarkSelected) /\ (conf = "prove" \/ svc = "active") /\ UNCHANGED <<image, running, raced>>
  <2>1. running.up /\ ~fresh
    BY <1>5 DEF Inv, BootInv, SvcInv
  <2>2. Selected = running.slot /\ image[Selected] \in Good
    BY <2>1, SelectedRuns
  <2>3. \A r \in Slots : r # Selected => (ProvenSlot(r)' <=> ProvenSlot(r))
    BY <1>5, <2>2, MarkKeeps
  <2>4. s = Selected
    BY <2>3 DEF ProvenSlot
  <2> QED
    BY <2>1, <2>2, <2>4
<1>6. CASE Boot
  <2>1. block' = LKAfter(block)
    BY <1>6 DEF Boot
  <2> QED
    BY <1>1, <2>1, BootsTo
<1>7. CASE DeployArm \/ DeployFails
  BY <1>3, <1>4, <1>7 DEF DeployArm, DeployFails
<1>8. CASE Prove \/ ConfirmFails \/ Oneshot
  BY <1>3, <1>5, <1>8 DEF Prove, ConfirmFails, Oneshot
<1> QED
  BY <1>2, <1>3, <1>6, <1>7, <1>8

(* "A failed confirmation must not be bypassed by the normal boot-sync       *)
(* service marking the merely selected slot successful"                      *)
(* (kernel-local-install.py:460-461): a slot becomes proven only in a boot   *)
(* from it, unless the service slipped in between the check and the mask.    *)
THEOREM ProvesWhatBooted == Spec => ProvesOnlyBootedUnraced
<1> DEFINE Step == \A s \in Slots : /\ ~raced /\ ~Proven(StateOf(block, s))
                                    /\ Proven(StateOf(block, s)')
                        => running.up /\ running.slot = s
<1>1. Inv /\ [Next]_vars => [Step]_vars
  <2> SUFFICES ASSUME Inv, [Next]_vars, NEW s \in Slots, ~raced, ~Proven(StateOf(block, s)),
                      Proven(StateOf(block, s)')
               PROVE  running.up /\ running.slot = s
    OBVIOUS
  <2>1. Proven(StateOf(block', s))
    BY DEF StateOf
  <2> QED
    BY <2>1, ProvenByMark
<1> QED
  BY <1>1, UpdateInvariant, PTL DEF Spec, ProvesOnlyBootedUnraced
=============================================================================
