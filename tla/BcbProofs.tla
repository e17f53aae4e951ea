----------------------------- MODULE BcbProofs -----------------------------
(***************************************************************************)
(* What arm, mark-successful and the bootloader make of any block, in      *)
(* terms of which slot is selected and which are proven: the lemmas the    *)
(* proofs about the kernel updates rest on.                                *)
(***************************************************************************)
EXTENDS Bcb, TLAPS

-----------------------------------------------------------------------------
(* The packed byte. *)

Flags == 0 .. 1

LEMMA PackedByte ==
    ASSUME NEW p \in Priorities, NEW t \in Tries, NEW f \in Flags
    PROVE  /\ Pack(p, t, f) \in Byte
           /\ Decode(Pack(p, t, f)) = [priority |-> p, tries |-> t, successful |-> f]
<1> DEFINE v == p + 16 * t + 128 * f
<1>1. v \in 0 .. 255 /\ v % 256 = v
  BY DEF Priorities, Tries, Flags
<1>2. v % 16 = p
  BY DEF Priorities, Tries, Flags
<1>3. v \div 16 = t + 8 * f /\ (t + 8 * f) % 8 = t
  BY DEF Priorities, Tries, Flags
<1>4. v \div 128 = f /\ f % 2 = f
  BY DEF Priorities, Tries, Flags
<1> QED
  BY <1>1, <1>2, <1>3, <1>4 DEF Pack, Decode, Byte, Flags

LEMMA StateType ==
    ASSUME NEW b \in Block, NEW s \in Slots
    PROVE  /\ StateOf(b, s).priority \in Priorities
           /\ StateOf(b, s).tries \in Tries
           /\ StateOf(b, s).successful \in Flags
<1>1. b.meta[s] \in Byte
  BY DEF Block
<1> QED
  BY <1>1 DEF StateOf, Decode, Byte, Priorities, Tries, Flags

LEMMA TwoSlots ==
    /\ \A s \in Slots : Other(s) \in Slots /\ Other(s) # s /\ Other(Other(s)) = s
    /\ \A s \in Slots : \A o \in Slots : o # s => o = Other(s)
    /\ \A b : ActiveSlot(b) \in Slots
  BY DEF Slots, Other, ActiveSlot

(* One slot of a block is rewritten. *)
LEMMA SlotIsSet ==
    ASSUME NEW b \in Block, NEW s \in Slots,
           NEW p \in Priorities, NEW t \in Tries, NEW f \in Flags
    PROVE  /\ SetSlot(b, s, p, t, f) \in Block
           /\ SetSlot(b, s, p, t, f).header = b.header
           /\ StateOf(SetSlot(b, s, p, t, f), s).priority = p
           /\ StateOf(SetSlot(b, s, p, t, f), s).tries = t
           /\ StateOf(SetSlot(b, s, p, t, f), s).successful = f
           /\ \A o \in Slots : o # s => StateOf(SetSlot(b, s, p, t, f), o) = StateOf(b, o)
<1>1. Pack(p, t, f) \in Byte
  BY PackedByte
<1>2. PICK c : c = SetSlot(b, s, p, t, f)
  OBVIOUS
<1>3. /\ c \in Block /\ c.header = b.header /\ c.meta[s] = Pack(p, t, f)
      /\ \A o \in Slots : o # s => c.meta[o] = b.meta[o]
  BY <1>1, <1>2 DEF SetSlot, Block
<1>4. /\ StateOf(c, s) = [priority |-> p, tries |-> t, successful |-> f]
      /\ \A o \in Slots : o # s => StateOf(c, o) = StateOf(b, o)
  BY <1>3, PackedByte DEF StateOf
<1> QED
  BY <1>2, <1>3, <1>4

(* Then the other. *)
LEMMA BothAreSet ==
    ASSUME NEW b \in Block, NEW s \in Slots, NEW o \in Slots, o # s,
           NEW p \in Priorities, NEW t \in Tries, NEW f \in Flags,
           NEW q \in Priorities, NEW u \in Tries, NEW g \in Flags,
           NEW c, c = SetSlot(SetSlot(b, s, p, t, f), o, q, u, g)
    PROVE  /\ c \in Block /\ c.header = b.header
           /\ StateOf(c, s).priority = p /\ StateOf(c, s).successful = f
           /\ StateOf(c, o).priority = q /\ StateOf(c, o).successful = g
<1>1. PICK d : d = SetSlot(b, s, p, t, f)
  OBVIOUS
<1>2. /\ d \in Block /\ d.header = b.header
      /\ StateOf(d, s).priority = p /\ StateOf(d, s).successful = f
  BY <1>1, SlotIsSet
<1>3. c = SetSlot(d, o, q, u, g)
  BY <1>1
<1>4. d \in Block
  BY <1>2
<1>5. /\ c \in Block /\ c.header = d.header
      /\ StateOf(c, o).priority = q /\ StateOf(c, o).successful = g
      /\ \A r \in Slots : r # o => StateOf(c, r) = StateOf(d, r)
  BY <1>3, <1>4, SlotIsSet
<1> QED
  BY <1>2, <1>5

LEMMA Resealed ==
    ASSUME NEW b \in Block, b.header
    PROVE  /\ Reseal(b) \in Block /\ Validate(Reseal(b))
           /\ \A s \in Slots : StateOf(Reseal(b), s) = StateOf(b, s)
           /\ ActiveSlot(Reseal(b)) = ActiveSlot(b)
  BY DEF Reseal, Block, StateOf, Validate, ActiveSlot

-----------------------------------------------------------------------------
(* dc1-slotctl, as the scripts call it. *)

ArmCmd(s)  == [op |-> "arm", slot |-> s, tries |-> 1]
MarkCmd(s) == [op |-> "mark-successful", slot |-> s]

(* arm selects the slot, on trial, over a selected slot that is proven and   *)
(* stays so.                                                                 *)
LEMMA ArmedBlock ==
    ASSUME NEW b \in Block, NEW s \in Slots, Accepts(b, ArmCmd(s)),
           NEW c, c = Commanded(b, ArmCmd(s))
    PROVE  /\ c \in Block /\ Validate(c)
           /\ ActiveSlot(c) = s /\ ~Proven(StateOf(c, s))
           /\ Proven(StateOf(c, Other(s)))
           /\ s # ActiveSlot(b) /\ Proven(StateOf(b, Other(s)))
<1>1. b.header /\ ArmAllowed(b, s)
  BY DEF Accepts, Allowed, ArmCmd, Validate
<1>2. PICK o \in Slots : o = Other(s) /\ o # s
  BY TwoSlots
<1>3. PICK u \in Tries, g \in Flags :
        StateOf(b, o).tries = u /\ StateOf(b, o).successful = g
  BY StateType
<1>4. g = 1
  BY <1>1, <1>2, <1>3 DEF ArmAllowed, Proven, Flags
<1>5. PICK hi \in Priorities, lo \in Priorities, t \in Tries, f \in Flags :
        hi = 15 /\ lo = 14 /\ t = 1 /\ f = 0
  BY DEF Priorities, Tries, Flags
<1>6. PICK e : e = SetSlot(SetSlot(b, s, hi, t, f), o, lo, u, g)
  OBVIOUS
<1>7. c = Reseal(e)
  BY <1>2, <1>3, <1>5, <1>6 DEF Commanded, Computed, Arm, ArmCmd
<1>8. o # s
  BY <1>2
<1>9. /\ e \in Block /\ e.header = b.header
      /\ StateOf(e, s).priority = hi /\ StateOf(e, s).successful = f
      /\ StateOf(e, o).priority = lo /\ StateOf(e, o).successful = g
  BY <1>6, <1>8, BothAreSet, SMTT(30)
<1>10. /\ StateOf(e, s).priority = 15 /\ StateOf(e, s).successful = 0
       /\ StateOf(e, o).priority = 14 /\ StateOf(e, o).successful = 1
  BY <1>4, <1>5, <1>9
<1>11. ActiveSlot(e) = s
  BY <1>2, <1>10 DEF ActiveSlot, Slots
<1>12. ~Proven(StateOf(e, s)) /\ Proven(StateOf(e, o))
  BY <1>10 DEF Proven
<1> QED
  BY <1>1, <1>2, <1>7, <1>9, <1>11, <1>12, Resealed DEF ArmAllowed

(* mark-successful proves the selected slot and leaves the rest. *)
LEMMA MarkedBlock ==
    ASSUME NEW b \in Block, NEW s \in Slots, HasProven(b), Accepts(b, MarkCmd(s)),
           NEW c, c = Commanded(b, MarkCmd(s))
    PROVE  /\ c \in Block /\ Validate(c)
           /\ ActiveSlot(c) = s /\ ActiveSlot(b) = s
           /\ Proven(StateOf(c, s))
           /\ StateOf(c, Other(s)) = StateOf(b, Other(s))
<1>1. b.header /\ ActiveSlot(b) = s
  BY DEF Accepts, Allowed, MarkAllowed, MarkCmd, Validate
<1>2. PICK p \in Priorities : StateOf(b, s).priority = p
  BY StateType
<1>3. PICK t \in Tries, f \in Flags : t = 0 /\ f = 1
  BY DEF Tries, Flags
<1>4. PICK d : d = SetSlot(b, s, p, t, f)
  OBVIOUS
<1>5. c = Reseal(d)
  BY <1>2, <1>3, <1>4 DEF Commanded, Computed, MarkSuccessful, MarkCmd
<1>6. /\ d \in Block /\ d.header = b.header
      /\ StateOf(d, s).priority = p
      /\ StateOf(d, s).tries = t
      /\ StateOf(d, s).successful = f
      /\ \A o \in Slots : o # s => StateOf(d, o) = StateOf(b, o)
  BY <1>2, <1>3, <1>4, SlotIsSet
<1>7. \A r \in Slots : StateOf(d, r).priority = StateOf(b, r).priority
  BY <1>2, <1>6
<1>8. ActiveSlot(d) = s
  BY <1>1, <1>7 DEF ActiveSlot, Slots
<1>9. p > 0
  <2>1. PICK r \in Slots : StateOf(b, r).priority > 0
    BY DEF HasProven, Proven
  <2>2. \A r2 \in Slots : StateOf(b, r2).priority \in Nat
    BY StateType DEF Priorities
  <2> QED
    BY <1>1, <1>2, <2>1, <2>2 DEF ActiveSlot, Slots
<1>10. Proven(StateOf(d, s))
  BY <1>3, <1>6, <1>9 DEF Proven
<1>11. Other(s) \in Slots /\ Other(s) # s
  BY TwoSlots
<1>12. /\ c \in Block /\ Validate(c) /\ ActiveSlot(c) = ActiveSlot(d)
       /\ \A r \in Slots : StateOf(c, r) = StateOf(d, r)
  BY <1>1, <1>5, <1>6, Resealed
<1> QED
  BY <1>1, <1>6, <1>8, <1>10, <1>11, <1>12

-----------------------------------------------------------------------------
(* The bootloader. *)

(* The slot the device settles on with this block, if trials fail. *)
Settle(b) == IF Proven(StateOf(b, ActiveSlot(b))) THEN ActiveSlot(b) ELSE Other(ActiveSlot(b))

(* It hands off to the selected slot, a proven one as it is and one on trial *)
(* with a try less; or it retires the trial and hands off to the slot the    *)
(* device settles on.  That one never changes, and no slot becomes proven or *)
(* unproven by it.                                                           *)
LEMMA BootsTo ==
    ASSUME NEW b \in Block, Validate(b), Proven(StateOf(b, Settle(b)))
    PROVE  /\ LKAfter(b) \in Block /\ Validate(LKAfter(b))
           /\ ActiveSlot(LKAfter(b)) = LKSlot(b)
           /\ Settle(LKAfter(b)) = Settle(b)
           /\ Proven(StateOf(LKAfter(b), Settle(b)))
           /\ \A r \in Slots : Proven(StateOf(LKAfter(b), r)) <=> Proven(StateOf(b, r))
           /\ \/ LKSlot(b) = Settle(b)
              \/ /\ LKSlot(b) = ActiveSlot(b) /\ LKSlot(b) # Settle(b)
                 /\ ~Proven(StateOf(b, ActiveSlot(b)))
                 /\ ~Proven(StateOf(LKAfter(b), ActiveSlot(b)))
<1>0. PICK s \in Slots : s = ActiveSlot(b)
  BY TwoSlots
<1>1. Other(s) \in Slots /\ Other(s) # s /\ b.header
  BY TwoSlots DEF Validate
<1>2. CASE Proven(StateOf(b, s))
  <2>1. LKSelected(b) = b
    BY <1>0, <1>2 DEF LKSelected, Proven, Bootable
  <2>2. LKAfter(b) = b /\ LKSlot(b) = s
    BY <1>0, <1>2, <2>1 DEF LKAfter, LKCharge, LKSlot, Proven
  <2> QED
    BY <1>0, <1>2, <2>2 DEF Settle
<1>3. CASE ~Proven(StateOf(b, s)) /\ Bootable(StateOf(b, s))
  <2>1. PICK p \in Priorities, t \in Tries, f \in Flags :
          /\ StateOf(b, s).priority = p /\ StateOf(b, s).tries = t
          /\ StateOf(b, s).successful = f
    BY <1>0, <1>1, StateType
  <2>2. p > 0 /\ t > 0 /\ f = 0
    BY <1>0, <1>3, <2>1 DEF Proven, Bootable, Tries, Flags
  <2>3. PICK t1 \in Tries : t1 = t - 1
    BY <1>0, <2>2 DEF Tries, Flags
  <2>4. LKSelected(b) = b /\ LKSlot(b) = s
    BY <1>0, <1>3 DEF LKSelected, LKSlot
  <2>5. PICK d : d = SetSlot(b, s, p, t1, f)
    OBVIOUS
  <2>6. LKAfter(b) = Reseal(d)
    BY <1>0, <2>1, <2>2, <2>3, <2>4, <2>5 DEF LKAfter, LKCharge
  <2>7. /\ d \in Block /\ d.header = b.header
        /\ StateOf(d, s).priority = p
        /\ StateOf(d, s).tries = t1
        /\ StateOf(d, s).successful = f
        /\ \A o \in Slots : o # s => StateOf(d, o) = StateOf(b, o)
    BY <2>5, SlotIsSet
  <2>8. \A r \in Slots : StateOf(d, r).priority = StateOf(b, r).priority
    BY <1>0, <2>1, <2>7
  <2>9. ActiveSlot(d) = s
    BY <1>0, <2>8 DEF ActiveSlot, Slots
  <2>10. ~Proven(StateOf(d, s)) /\ StateOf(d, Other(s)) = StateOf(b, Other(s))
    BY <1>0, <1>1, <2>2, <2>7 DEF Proven
  <2>11. /\ Reseal(d) \in Block /\ Validate(Reseal(d)) /\ ActiveSlot(Reseal(d)) = s
         /\ ~Proven(StateOf(Reseal(d), s))
         /\ StateOf(Reseal(d), Other(s)) = StateOf(b, Other(s))
    BY <1>0, <1>1, <2>7, <2>9, <2>10, Resealed
  <2>12. \A r \in Slots : Proven(StateOf(Reseal(d), r)) <=> Proven(StateOf(b, r))
    BY <1>0, <1>3, <2>11, TwoSlots
  <2> QED
    BY <1>0, <1>1, <1>3, <2>4, <2>6, <2>11, <2>12 DEF Settle
<1>4. CASE ~Bootable(StateOf(b, s))
  <2>1. ~Proven(StateOf(b, s)) /\ Settle(b) = Other(s)
    BY <1>0, <1>4 DEF Settle, Proven, Bootable
  <2>2. PICK t \in Tries, f \in Flags :
          StateOf(b, s).tries = t /\ StateOf(b, s).successful = f
    BY <1>0, <1>1, StateType
  <2>3. PICK p \in Priorities : p = 0
    BY DEF Priorities
  <2>4. PICK d : d = SetSlot(b, s, p, t, f)
    OBVIOUS
  <2>5. LKSelected(b) = Reseal(d)
    BY <1>0, <1>4, <2>2, <2>3, <2>4 DEF LKSelected, LKRetire, SetSlot
  <2>6. /\ d \in Block /\ d.header = b.header
        /\ StateOf(d, s).priority = p
        /\ StateOf(d, s).tries = t
        /\ StateOf(d, s).successful = f
        /\ StateOf(d, Other(s)) = StateOf(b, Other(s))
    <3>1. \A o \in Slots : o # s => StateOf(d, o) = StateOf(b, o)
      BY <2>4, SlotIsSet
    <3>2. /\ d \in Block /\ d.header = b.header
          /\ StateOf(d, s).priority = p
          /\ StateOf(d, s).tries = t
          /\ StateOf(d, s).successful = f
      BY <2>4, SlotIsSet
    <3> QED
      BY <1>1, <3>1, <3>2
  <2>7. StateOf(d, Other(s)).priority > 0 /\ StateOf(d, Other(s)).successful = 1
    BY <1>0, <2>1, <2>6 DEF Proven
  <2>8. ActiveSlot(d) = Other(s)
    <3>1. StateOf(d, s).priority = 0
      BY <1>0, <2>3, <2>6
    <3> QED
      BY <1>0, <1>1, <2>7, <3>1, StateType, <2>6 DEF ActiveSlot, Slots, Other, Priorities
  <2>9. /\ Reseal(d) \in Block /\ Validate(Reseal(d)) /\ ActiveSlot(Reseal(d)) = Other(s)
        /\ StateOf(Reseal(d), Other(s)) = StateOf(b, Other(s))
    BY <1>0, <1>1, <2>6, <2>8, Resealed
  <2>10. LKSlot(b) = Other(s) /\ LKAfter(b) = Reseal(d)
    BY <1>0, <2>5, <2>6, <2>7, <2>9 DEF LKSlot, LKAfter, LKCharge
  <2>11. ~Proven(StateOf(Reseal(d), s))
    <3>1. StateOf(Reseal(d), s) = StateOf(d, s)
      BY <1>1, <2>6, Resealed
    <3>2. ~(StateOf(d, s).priority > 0)
      BY <2>3, <2>6
    <3> QED
      BY <3>1, <3>2 DEF Proven
  <2>12. \A r \in Slots : Proven(StateOf(Reseal(d), r)) <=> Proven(StateOf(b, r))
    BY <1>0, <2>1, <2>9, <2>11, TwoSlots
  <2> QED
    BY <1>0, <2>1, <2>9, <2>10, <2>12 DEF Settle
<1> QED
  BY <1>0, <1>2, <1>3, <1>4
=============================================================================
