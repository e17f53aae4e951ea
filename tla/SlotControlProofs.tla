------------------------- MODULE SlotControlProofs -------------------------
(***************************************************************************)
(* For any number of concurrent callers of dc1-slotctl and any factory     *)
(* block with a proven slot: the device never loses its last bootable      *)
(* slot.  The bytes first (Pack and Decode are inverse on fields that fit),*)
(* then each command and each thing the bootloader does keeps a proven     *)
(* slot, then the invariant.                                               *)
(***************************************************************************)
EXTENDS SlotControl, TLAPS

(* Pack yields a byte, whatever it is given. *)
LEMMA PackIsByte ==
    ASSUME NEW p \in Int, NEW t \in Int, NEW f \in Int
    PROVE  Pack(p, t, f) \in Byte
  BY DEF Pack, Byte

(* decode() inverts the packing, for fields that fit. *)
LEMMA DecodePack ==
    ASSUME NEW p \in Priorities, NEW t \in Tries, NEW f \in 0 .. 1
    PROVE  Decode(Pack(p, t, f)) = [priority |-> p, tries |-> t, successful |-> f]
<1> DEFINE v == p + 16 * t + 128 * f
<1>1. v \in 0 .. 255 /\ v % 256 = v
  BY DEF Priorities, Tries
<1>2. v % 16 = p
  BY DEF Priorities, Tries
<1>3. v \div 16 = t + 8 * f /\ (t + 8 * f) % 8 = t
  BY DEF Priorities, Tries
<1>4. v \div 128 = f /\ f % 2 = f
  BY DEF Priorities, Tries
<1> QED
  BY <1>1, <1>2, <1>3, <1>4 DEF Pack, Decode

LEMMA DecodeType ==
    ASSUME NEW v \in Byte
    PROVE  Decode(v) \in SlotState
  BY DEF Byte, Decode, SlotState, Priorities, Tries

-----------------------------------------------------------------------------
(* Blocks and their slots.                                                 *)

LEMMA OtherSlot ==
    ASSUME NEW s \in Slots
    PROVE  /\ Other(s) \in Slots /\ Other(s) # s
           /\ Other(Other(s)) = s
           /\ Slots = {s, Other(s)}
  BY DEF Slots, Other

LEMMA StateType ==
    ASSUME NEW b \in Block, NEW s \in Slots
    PROVE  StateOf(b, s) \in SlotState
<1>1. b.meta[s] \in Byte
  BY DEF Block
<1> QED
  BY <1>1, DecodeType DEF StateOf

(* reseal() makes the checksum fit; it does not touch the slots.           *)
LEMMA ResealBlock ==
    ASSUME NEW b \in Block
    PROVE  /\ Reseal(b) \in Block
           /\ Reseal(b).header = b.header
           /\ Reseal(b).crc = Reseal(b).meta
           /\ \A s \in Slots : StateOf(Reseal(b), s) = StateOf(b, s)
  BY DEF Reseal, Block, StateOf

LEMMA ResealProven ==
    ASSUME NEW b \in Block, b.header, HasProven(b)
    PROVE  Reseal(b) \in Block /\ Validate(Reseal(b)) /\ HasProven(Reseal(b))
  BY ResealBlock DEF HasProven, Validate

(* A slot that is proven is bootable, so a block with a proven slot boots. *)
LEMMA ProvenBoots ==
    ASSUME NEW b, HasProven(b)
    PROVE  Survivable(b)
  BY DEF HasProven, Survivable, Proven, Bootable

-----------------------------------------------------------------------------
(* The three commands keep a proven slot.                                  *)

LEMMA ActiveIsSlot ==
    ASSUME NEW b
    PROVE  ActiveSlot(b) \in Slots
  BY DEF ActiveSlot, Slots

(* What prefer and arm have in common: both bytes are rewritten, with       *)
(* priority 15 for one slot and 14 for the other.                           *)
LEMMA BothSlots ==
    ASSUME NEW b \in Block, NEW s \in Slots, NEW o \in Slots, o # s,
           NEW t \in Tries, NEW f \in 0 .. 1, NEW u \in Tries, NEW g \in 0 .. 1,
           NEW c, c = SetSlot(SetSlot(b, s, 15, t, f), o, 14, u, g)
    PROVE  /\ c \in Block /\ c.header = b.header
           /\ f = 1 => Proven(StateOf(c, s))
           /\ g = 1 => Proven(StateOf(c, o))
<1>1. Pack(15, t, f) \in Byte /\ Pack(14, u, g) \in Byte
  BY PackIsByte DEF Tries
<1>2. /\ c \in Block /\ c.header = b.header
      /\ c.meta[s] = Pack(15, t, f) /\ c.meta[o] = Pack(14, u, g)
  BY <1>1 DEF SetSlot, Block
<1>3. /\ Decode(Pack(15, t, f)) = [priority |-> 15, tries |-> t, successful |-> f]
      /\ Decode(Pack(14, u, g)) = [priority |-> 14, tries |-> u, successful |-> g]
  BY DecodePack DEF Priorities
<1> QED
  BY <1>2, <1>3 DEF StateOf, Proven

LEMMA PreferKeeps ==
    ASSUME NEW b \in Block, NEW s \in Slots, HasProven(b)
    PROVE  /\ Prefer(b, s) \in Block /\ Prefer(b, s).header = b.header
           /\ HasProven(Prefer(b, s))
<1>1. PICK o \in Slots : o = Other(s)
  BY OtherSlot
<1>2. o # s
  BY <1>1, OtherSlot
<1>3. Slots = {s, o}
  BY <1>1, OtherSlot
<1>4. StateOf(b, s) \in SlotState /\ StateOf(b, o) \in SlotState
  BY StateType
<1>5. PICK t \in Tries, f \in 0 .. 1, u \in Tries, g \in 0 .. 1 :
        /\ StateOf(b, s).tries = t /\ StateOf(b, s).successful = f
        /\ StateOf(b, o).tries = u /\ StateOf(b, o).successful = g
  BY <1>4 DEF SlotState
<1>6. PICK c : c = SetSlot(SetSlot(b, s, 15, t, f), o, 14, u, g)
  OBVIOUS
<1>7. Prefer(b, s) = c
  BY <1>1, <1>5, <1>6 DEF Prefer
<1>8. /\ c \in Block /\ c.header = b.header
      /\ f = 1 => Proven(StateOf(c, s))
      /\ g = 1 => Proven(StateOf(c, o))
  BY <1>2, <1>6, BothSlots
<1>9. f = 1 \/ g = 1
  BY <1>3, <1>5 DEF HasProven, Proven
<1> QED
  BY <1>7, <1>8, <1>9 DEF HasProven

LEMMA ArmKeeps ==
    ASSUME NEW b \in Block, NEW s \in Slots, NEW tries \in Tries,
           ArmAllowed(b, s)
    PROVE  /\ Arm(b, s, tries) \in Block /\ Arm(b, s, tries).header = b.header
           /\ HasProven(Arm(b, s, tries))
<1>1. PICK o \in Slots : o = Other(s) /\ o # s
  BY OtherSlot
<1>2. StateOf(b, o) \in SlotState
  BY StateType
<1>3. PICK u \in Tries, g \in 0 .. 1 :
        StateOf(b, o).tries = u /\ StateOf(b, o).successful = g
  BY <1>2 DEF SlotState
<1>4. PICK f \in 0 .. 1 : f = 0
  OBVIOUS
<1>5. PICK c : c = SetSlot(SetSlot(b, s, 15, tries, f), o, 14, u, g)
  OBVIOUS
<1>6. Arm(b, s, tries) = c
  BY <1>1, <1>3, <1>4, <1>5 DEF Arm
<1>7. c \in Block /\ c.header = b.header /\ (g = 1 => Proven(StateOf(c, o)))
  BY <1>1, <1>5, BothSlots
<1>8. g = 1
  BY <1>1, <1>3 DEF ArmAllowed, Proven
<1> QED
  BY <1>6, <1>7, <1>8 DEF HasProven

LEMMA MarkKeeps ==
    ASSUME NEW b \in Block, NEW s \in Slots, HasProven(b)
    PROVE  /\ MarkSuccessful(b, s) \in Block
           /\ MarkSuccessful(b, s).header = b.header
           /\ HasProven(MarkSuccessful(b, s))
<1>1. StateOf(b, s) \in SlotState
  BY StateType
<1>2. PICK p \in Priorities : StateOf(b, s).priority = p
  BY <1>1 DEF SlotState
<1>3. PICK c : c = SetSlot(b, s, p, 0, 1)
  OBVIOUS
<1>4. MarkSuccessful(b, s) = c
  BY <1>2, <1>3 DEF MarkSuccessful
<1>5. /\ Pack(p, 0, 1) \in Byte
      /\ Decode(Pack(p, 0, 1)) = [priority |-> p, tries |-> 0, successful |-> 1]
  <2>1. Pack(p, 0, 1) \in Byte
    BY PackIsByte DEF Priorities
  <2>2. 0 \in Tries /\ 1 \in 0 .. 1
    BY DEF Tries
  <2> QED
    BY <2>1, <2>2, DecodePack
<1>6. /\ c \in Block /\ c.header = b.header /\ c.meta[s] = Pack(p, 0, 1)
      /\ \A r \in Slots \ {s} : c.meta[r] = b.meta[r]
  BY <1>3, <1>5 DEF SetSlot, Block
<1>7. PICK r \in Slots : Proven(StateOf(b, r))
  BY DEF HasProven
<1>8. Proven(StateOf(c, r))
  <2>1. CASE r = s
    BY <1>2, <1>5, <1>6, <1>7, <2>1 DEF Proven, StateOf
  <2>2. CASE r # s
    BY <1>6, <1>7, <2>2 DEF StateOf
  <2> QED
    BY <2>1, <2>2
<1> QED
  BY <1>4, <1>6, <1>8 DEF HasProven

(* An accepted command is about to write a valid block with a proven slot.  *)
LEMMA CommandKeeps ==
    ASSUME NEW b \in Block, NEW c \in Commands, HasProven(b), Accepts(b, c)
    PROVE  /\ Commanded(b, c) \in Block /\ Validate(Commanded(b, c))
           /\ HasProven(Commanded(b, c))
<1>1. c.slot \in Slots /\ b.header /\ Allowed(b, c)
  BY DEF Commands, Accepts, Validate
<1>2. /\ Computed(b, c) \in Block /\ Computed(b, c).header = b.header
      /\ HasProven(Computed(b, c))
  <2>1. CASE c.op = "prefer"
    <3>1. Computed(b, c) = Prefer(b, c.slot)
      BY <2>1 DEF Computed
    <3> QED
      BY <1>1, <3>1, PreferKeeps
  <2>2. CASE c.op = "arm"
    <3>1. Computed(b, c) = Arm(b, c.slot, c.tries) /\ ArmAllowed(b, c.slot)
      BY <1>1, <2>2 DEF Computed, Allowed
    <3>2. c.tries \in Tries
      BY <2>2 DEF Commands, Tries
    <3> QED
      BY <1>1, <3>1, <3>2, ArmKeeps
  <2>3. CASE c.op = "mark-successful"
    <3>1. Computed(b, c) = MarkSuccessful(b, c.slot)
      BY <2>3 DEF Computed
    <3> QED
      BY <1>1, <3>1, MarkKeeps
  <2> QED
    BY <2>1, <2>2, <2>3 DEF Commands
<1> QED
  BY <1>1, <1>2, ResealProven DEF Commanded

-----------------------------------------------------------------------------
(* So does the bootloader: it retires only a slot that is not bootable, and  *)
(* charges only a slot that is not proven.                                   *)

LEMMA RetireKeeps ==
    ASSUME NEW b \in Block, Validate(b), HasProven(b)
    PROVE  /\ LKSelected(b) \in Block /\ Validate(LKSelected(b))
           /\ HasProven(LKSelected(b))
<1>1. CASE Bootable(StateOf(b, ActiveSlot(b)))
  BY <1>1 DEF LKSelected
<1>2. CASE ~Bootable(StateOf(b, ActiveSlot(b)))
  <2>1. PICK s \in Slots : s = ActiveSlot(b)
    BY ActiveIsSlot
  <2>2. StateOf(b, s) \in SlotState
    BY StateType
  <2>3. PICK v : v = Pack(0, StateOf(b, s).tries, StateOf(b, s).successful)
    OBVIOUS
  <2>4. v \in Byte
    BY <2>2, <2>3, PackIsByte DEF SlotState, Tries
  <2>5. PICK c : c = [b EXCEPT !.meta[s] = v]
    OBVIOUS
  <2>6. LKSelected(b) = Reseal(c)
    BY <1>2, <2>1, <2>3, <2>5 DEF LKSelected, LKRetire
  <2>7. /\ c \in Block /\ c.header = b.header
        /\ \A r \in Slots \ {s} : c.meta[r] = b.meta[r]
    BY <2>4, <2>5 DEF Block
  <2>8. PICK r \in Slots : Proven(StateOf(b, r))
    BY DEF HasProven
  <2>9. r # s
    BY <1>2, <2>1, <2>8 DEF Proven, Bootable
  <2>10. Proven(StateOf(c, r))
    BY <2>7, <2>8, <2>9 DEF StateOf
  <2>11. c.header /\ HasProven(c)
    BY <2>7, <2>10 DEF Validate, HasProven
  <2> QED
    BY <2>6, <2>7, <2>11, ResealProven
<1> QED
  BY <1>1, <1>2

LEMMA ChargeKeeps ==
    ASSUME NEW b \in Block, Validate(b), HasProven(b)
    PROVE  LKCharge(b) \in Block /\ Validate(LKCharge(b)) /\ HasProven(LKCharge(b))
<1>1. PICK s \in Slots : s = ActiveSlot(b)
  BY ActiveIsSlot
<1>2. CASE StateOf(b, s).successful = 1
  BY <1>1, <1>2 DEF LKCharge
<1>3. CASE StateOf(b, s).successful # 1
  <2>1. StateOf(b, s) \in SlotState
    BY StateType
  <2>2. PICK v : v = Pack(StateOf(b, s).priority, StateOf(b, s).tries - 1, 0)
    OBVIOUS
  <2>3. v \in Byte
    BY <2>1, <2>2, PackIsByte DEF SlotState, Priorities, Tries
  <2>4. PICK c : c = [b EXCEPT !.meta[s] = v]
    OBVIOUS
  <2>5. LKCharge(b) = Reseal(c)
    BY <1>1, <1>3, <2>2, <2>4 DEF LKCharge, SetSlot
  <2>6. /\ c \in Block /\ c.header = b.header
        /\ \A r \in Slots \ {s} : c.meta[r] = b.meta[r]
    BY <2>3, <2>4 DEF Block
  <2>7. PICK r \in Slots : Proven(StateOf(b, r))
    BY DEF HasProven
  <2>8. r # s
    BY <1>3, <2>7 DEF Proven
  <2>9. Proven(StateOf(c, r))
    BY <2>6, <2>7, <2>8 DEF StateOf
  <2>10. c.header /\ HasProven(c)
    BY <2>6, <2>9 DEF Validate, HasProven
  <2> QED
    BY <2>5, <2>6, <2>10, ResealProven
<1> QED
  BY <1>2, <1>3

LEMMA BootKeeps ==
    ASSUME NEW b \in Block, Validate(b), HasProven(b)
    PROVE  /\ LKAfter(b) \in Block /\ Validate(LKAfter(b)) /\ HasProven(LKAfter(b))
           /\ LKSlot(b) \in Slots
  BY RetireKeeps, ChargeKeeps, ActiveIsSlot DEF LKAfter, LKSlot

-----------------------------------------------------------------------------
(* The inductive invariant. *)
Inv == TypeOK /\ ProvenKept

LEMMA InvInit == Init => Inv
<1> SUFFICES ASSUME Init PROVE Inv
  OBVIOUS
<1>1. PICK m \in FactoryMeta :
        /\ block = LKAfter([header |-> TRUE, meta |-> m, crc |-> m])
        /\ running = LKSlot([header |-> TRUE, meta |-> m, crc |-> m])
        /\ call = [p \in Procs |-> Idle]
  BY DEF Init
<1>2. PICK b : b = [header |-> TRUE, meta |-> m, crc |-> m]
  OBVIOUS
<1>3. m \in [Slots -> Byte] /\ \E s \in Slots : Proven(Decode(m[s]))
  BY FactoryAssumption
<1>4. b \in Block /\ Validate(b) /\ HasProven(b)
  BY <1>2, <1>3 DEF Block, Validate, HasProven, StateOf
<1>5. /\ block \in Block /\ Validate(block) /\ HasProven(block)
      /\ running \in Slots
  BY <1>1, <1>2, <1>4, BootKeeps
<1>6. call \in [Procs -> Pending \cup {Idle}] /\ \A p \in Procs : call[p] = Idle
  BY <1>1
<1> QED
  BY <1>5, <1>6 DEF Inv, TypeOK, ProvenKept

LEMMA InvStep == Inv /\ [Next]_vars => Inv'
<1> SUFFICES ASSUME Inv, [Next]_vars PROVE Inv'
  OBVIOUS
<1> USE DEF Inv
<1>1. ASSUME NEW p \in Procs, Read(p) PROVE Inv'
  <2>1. PICK c \in Commands :
          /\ Accepts(block, c)
          /\ call' = [call EXCEPT ![p] = [cmd |-> c, want |-> Commanded(block, c)]]
    BY <1>1 DEF Read
  <2>2. /\ Commanded(block, c) \in Block /\ Validate(Commanded(block, c))
        /\ HasProven(Commanded(block, c))
    BY <2>1, CommandKeeps DEF TypeOK, ProvenKept
  <2>3. PICK r : r = [cmd |-> c, want |-> Commanded(block, c)]
    OBVIOUS
  <2>4. /\ r \in Pending /\ Validate(r.want) /\ HasProven(r.want)
    BY <2>2, <2>3 DEF Pending
  <2>5. /\ call' \in [Procs -> Pending \cup {Idle}]
        /\ \A q \in Procs : call'[q] = r \/ call'[q] = call[q]
    BY <2>1, <2>3, <2>4 DEF TypeOK
  <2>6. block' = block /\ running' = running
    BY <1>1 DEF Read
  <2> QED
    BY <2>4, <2>5, <2>6 DEF TypeOK, ProvenKept
<1>2. ASSUME NEW p \in Procs, Write(p) PROVE Inv'
  <2>1. /\ call[p] # Idle /\ call[p] \in Pending
        /\ Validate(call[p].want) /\ HasProven(call[p].want)
    BY <1>2 DEF Write, TypeOK, ProvenKept
  <2>2. block' = call[p].want /\ running' = running
    BY <1>2 DEF Write
  <2>3. block' \in Block /\ Validate(block') /\ HasProven(block')
    BY <2>1, <2>2 DEF Pending
  <2>4. /\ call' \in [Procs -> Pending \cup {Idle}]
        /\ \A q \in Procs : call'[q] = Idle \/ call'[q] = call[q]
    BY <1>2 DEF Write, TypeOK
  <2> QED
    BY <2>2, <2>3, <2>4 DEF TypeOK, ProvenKept
<1>3. ASSUME NEW p \in Procs, WriteFails(p) PROVE Inv'
  <2>1. /\ call' \in [Procs -> Pending \cup {Idle}]
        /\ \A q \in Procs : call'[q] = Idle \/ call'[q] = call[q]
        /\ block' = block /\ running' = running
    BY <1>3 DEF WriteFails, TypeOK
  <2> QED
    BY <2>1 DEF TypeOK, ProvenKept
<1>4. CASE Reboot
  <2>1. /\ block' \in Block /\ Validate(block') /\ HasProven(block')
        /\ running' \in Slots
    BY <1>4, BootKeeps DEF Reboot, TypeOK, ProvenKept
  <2>2. call' \in [Procs -> Pending \cup {Idle}] /\ \A q \in Procs : call'[q] = Idle
    BY <1>4 DEF Reboot
  <2> QED
    BY <2>1, <2>2 DEF TypeOK, ProvenKept
<1>5. CASE UNCHANGED vars
  BY <1>5 DEF vars, TypeOK, ProvenKept
<1> QED
  BY <1>1, <1>2, <1>3, <1>4, <1>5 DEF Next

-----------------------------------------------------------------------------
(* The fields, as a record of their values. *)
Flags == 0 .. 1
Fields(p, t, f) == [priority |-> p, tries |-> t, successful |-> f]

(* What set_slot leaves in the slot it writes and in the other. *)
LEMMA SetSlotFields ==
    ASSUME NEW b \in Block, NEW s \in Slots,
           NEW p \in Priorities, NEW t \in Tries, NEW f \in Flags,
           NEW c, c = SetSlot(b, s, p, t, f)
    PROVE  /\ c \in Block
           /\ StateOf(c, s) = Fields(p, t, f)
           /\ \A r \in Slots : r # s => StateOf(c, r) = StateOf(b, r)
<1>1. Pack(p, t, f) \in Byte
  BY PackIsByte DEF Priorities, Tries, Flags
<1>2. /\ c \in Block /\ c.meta[s] = Pack(p, t, f)
      /\ \A r \in Slots : r # s => c.meta[r] = b.meta[r]
  BY <1>1 DEF SetSlot, Block
<1>3. Decode(Pack(p, t, f)) = Fields(p, t, f)
  BY DecodePack DEF Fields, Flags
<1> QED
  BY <1>2, <1>3 DEF StateOf

(* Both slots are written: the last write does not reach into the first.     *)
LEMMA TwoSetSlots ==
    ASSUME NEW b \in Block, NEW s \in Slots, NEW o \in Slots, o # s,
           NEW p \in Priorities, NEW t \in Tries, NEW f \in Flags,
           NEW q \in Priorities, NEW u \in Tries, NEW g \in Flags,
           NEW c, c = SetSlot(SetSlot(b, s, p, t, f), o, q, u, g)
    PROVE  /\ c \in Block
           /\ StateOf(c, s) = Fields(p, t, f)
           /\ StateOf(c, o) = Fields(q, u, g)
<1>1. PICK d : d = SetSlot(b, s, p, t, f)
  OBVIOUS
<1>2. d \in Block /\ StateOf(d, s) = Fields(p, t, f)
  BY <1>1, SetSlotFields
<1>3. c = SetSlot(d, o, q, u, g)
  BY <1>1
<1> QED
  BY <1>2, <1>3, SetSlotFields

LEMMA FieldUpdates ==
    ASSUME NEW st \in SlotState
    PROVE  /\ st.priority \in Priorities /\ st.tries \in Tries /\ st.successful \in Flags
           /\ \A p \in Priorities : [st EXCEPT !.priority = p]
                                     = Fields(p, st.tries, st.successful)
           /\ [st EXCEPT !.tries = @ - 1]
                = Fields(st.priority, st.tries - 1, st.successful)
<1>1. /\ st.priority \in Priorities /\ st.tries \in Tries /\ st.successful \in Flags
  BY DEF SlotState, Flags
<1>2. ASSUME NEW p \in Priorities
      PROVE  [st EXCEPT !.priority = p] = Fields(p, st.tries, st.successful)
  BY DEF SlotState, Fields
<1>3. [st EXCEPT !.tries = @ - 1] = Fields(st.priority, st.tries - 1, st.successful)
  BY DEF SlotState, Fields
<1> QED
  BY <1>1, <1>2, <1>3

(* An accepted command computes the fields it asks for. *)
LEMMA CommandFields ==
    ASSUME NEW b \in Block, NEW c \in Commands, Accepts(b, c), NEW s \in Slots
    PROVE  StateOf(Commanded(b, c), s) = Asked(c, s, StateOf(b, s))
<1>1. PICK k \in Slots, o \in Slots : k = c.slot /\ o = Other(k) /\ o # k
  <2>1. c.slot \in Slots
    BY DEF Commands
  <2> QED
    BY <2>1, OtherSlot
<1>2. s = k \/ s = o
  BY <1>1, OtherSlot
<1>3. StateOf(b, k) \in SlotState /\ StateOf(b, o) \in SlotState
  BY StateType
<1>4. PICK q \in Priorities, t \in Tries, f \in Flags :
        /\ StateOf(b, k).priority = q
        /\ StateOf(b, k).tries = t /\ StateOf(b, k).successful = f
  BY <1>3 DEF SlotState, Flags
<1>5. PICK u \in Tries, g \in Flags :
        StateOf(b, o).tries = u /\ StateOf(b, o).successful = g
  BY <1>3 DEF SlotState, Flags
<1>6. PICK hi \in Priorities, lo \in Priorities, z \in Tries, no \in Flags, yes \in Flags :
        hi = 15 /\ lo = 14 /\ z = 0 /\ no = 0 /\ yes = 1
  BY DEF Priorities, Tries, Flags
<1>7. PICK d : d = Computed(b, c)
  OBVIOUS
<1>8. d \in Block /\ StateOf(d, s) = Asked(c, s, StateOf(b, s))
  <2>1. CASE c.op = "prefer"
    <3>1. d = SetSlot(SetSlot(b, k, hi, t, f), o, lo, u, g)
      BY <1>1, <1>4, <1>5, <1>6, <1>7, <2>1 DEF Computed, Prefer
    <3>2. /\ d \in Block
          /\ StateOf(d, k) = Fields(hi, t, f)
          /\ StateOf(d, o) = Fields(lo, u, g)
      BY <1>1, <3>1, TwoSetSlots
    <3>3. CASE s = k
      <4>1. Asked(c, s, StateOf(b, s)) = [StateOf(b, s) EXCEPT !.priority = hi]
        BY <1>1, <1>6, <2>1, <3>3 DEF Asked
      <4> QED
        BY <1>3, <1>4, <3>2, <3>3, <4>1, FieldUpdates
    <3>4. CASE s = o
      <4>1. Asked(c, s, StateOf(b, s)) = [StateOf(b, s) EXCEPT !.priority = lo]
        BY <1>1, <1>6, <2>1, <3>4 DEF Asked
      <4> QED
        BY <1>3, <1>5, <3>2, <3>4, <4>1, FieldUpdates
    <3> QED
      BY <1>2, <3>3, <3>4
  <2>2. CASE c.op = "arm"
    <3>1. PICK n \in Tries : n = c.tries
      BY <2>2 DEF Commands, Tries
    <3>2. d = SetSlot(SetSlot(b, k, hi, n, no), o, lo, u, g)
      BY <1>1, <1>5, <1>6, <1>7, <2>2, <3>1 DEF Computed, Arm
    <3>3. /\ d \in Block
          /\ StateOf(d, k) = Fields(hi, n, no)
          /\ StateOf(d, o) = Fields(lo, u, g)
      BY <1>1, <3>2, TwoSetSlots
    <3>4. CASE s = k
      <4>1. Asked(c, s, StateOf(b, s)) = Fields(hi, n, no)
        BY <1>1, <1>6, <2>2, <3>1, <3>4 DEF Asked, Fields
      <4> QED
        BY <3>3, <3>4, <4>1
    <3>5. CASE s = o
      <4>1. Asked(c, s, StateOf(b, s)) = [StateOf(b, s) EXCEPT !.priority = lo]
        BY <1>1, <1>6, <2>2, <3>5 DEF Asked
      <4> QED
        BY <1>3, <1>5, <3>3, <3>5, <4>1, FieldUpdates
    <3> QED
      BY <1>2, <3>4, <3>5
  <2>3. CASE c.op = "mark-successful"
    <3>1. d = SetSlot(b, k, q, z, yes)
      BY <1>1, <1>4, <1>6, <1>7, <2>3 DEF Computed, MarkSuccessful
    <3>2. /\ d \in Block
          /\ StateOf(d, k) = Fields(q, z, yes)
          /\ StateOf(d, o) = StateOf(b, o)
      BY <1>1, <3>1, SetSlotFields
    <3>3. CASE s = k
      <4>1. Asked(c, s, StateOf(b, s)) = Fields(q, z, yes)
        BY <1>1, <1>4, <1>6, <2>3, <3>3 DEF Asked, Fields
      <4> QED
        BY <3>2, <3>3, <4>1
    <3>4. CASE s = o
      <4>1. Asked(c, s, StateOf(b, s)) = StateOf(b, s)
        BY <1>1, <2>3, <3>4 DEF Asked
      <4> QED
        BY <3>2, <3>4, <4>1
    <3> QED
      BY <1>2, <3>3, <3>4
  <2> QED
    BY <2>1, <2>2, <2>3 DEF Commands
<1>9. Commanded(b, c) = Reseal(d)
  BY <1>7 DEF Commanded
<1> QED
  BY <1>8, <1>9, ResealBlock

(* The bootloader takes a try only where there is one: the slot it selects   *)
(* first may be charged, the one it falls back to is proven.                 *)
LEMMA BootFields ==
    ASSUME NEW b \in Block, Validate(b), HasProven(b), NEW s \in Slots,
           NEW st, st = StateOf(b, s)
    PROVE  \/ StateOf(LKAfter(b), s) = st
           \/ ~Bootable(st) /\ StateOf(LKAfter(b), s) = [st EXCEPT !.priority = 0]
           \/ /\ s = LKSlot(b) /\ ~Proven(st) /\ st.tries > 0
              /\ StateOf(LKAfter(b), s) = [st EXCEPT !.tries = @ - 1]
<1>1. PICK a \in Slots : a = ActiveSlot(b)
  BY ActiveIsSlot
<1>2. StateOf(b, a) \in SlotState /\ st \in SlotState
  BY StateType
<1>3. CASE Bootable(StateOf(b, a))
  <2>1. LKSelected(b) = b /\ LKSlot(b) = a /\ LKAfter(b) = LKCharge(b)
    BY <1>1, <1>3 DEF LKSelected, LKSlot, LKAfter
  <2>2. CASE StateOf(b, a).successful = 1
    BY <1>1, <2>1, <2>2 DEF LKCharge
  <2>3. CASE StateOf(b, a).successful # 1
    <3>1. PICK q \in Priorities, t \in Tries, f \in Flags :
            /\ StateOf(b, a).priority = q /\ StateOf(b, a).successful = f
            /\ t = StateOf(b, a).tries - 1 /\ f = 0 /\ StateOf(b, a).tries > 0
      BY <1>2, <1>3, <2>3 DEF SlotState, Bootable, Priorities, Tries, Flags
    <3>2. PICK c : c = SetSlot(b, a, q, t, f)
      OBVIOUS
    <3>3. LKAfter(b) = Reseal(c)
      BY <1>1, <2>1, <2>3, <3>1, <3>2 DEF LKCharge
    <3>4. /\ c \in Block
          /\ StateOf(c, a) = Fields(q, t, f)
          /\ s # a => StateOf(c, s) = st
      BY <3>2, SetSlotFields
    <3>5. StateOf(LKAfter(b), s) = StateOf(c, s)
      BY <3>3, <3>4, ResealBlock
    <3>6. CASE s = a
      <4>1. [st EXCEPT !.tries = @ - 1] = Fields(q, t, f)
        BY <1>2, <3>1, <3>6, FieldUpdates
      <4>2. ~Proven(st) /\ st.tries > 0
        BY <2>3, <3>1, <3>6 DEF Proven
      <4> QED
        BY <2>1, <3>4, <3>5, <3>6, <4>1, <4>2
    <3>7. CASE s # a
      BY <3>4, <3>5, <3>7
    <3> QED
      BY <3>6, <3>7
  <2> QED
    BY <2>2, <2>3
<1>4. CASE ~Bootable(StateOf(b, a))
  <2>1. PICK t \in Tries, f \in Flags, z \in Priorities :
          StateOf(b, a).tries = t /\ StateOf(b, a).successful = f /\ z = 0
    BY <1>2 DEF SlotState, Priorities, Flags
  <2>2. PICK c : c = SetSlot(b, a, z, t, f)
    OBVIOUS
  <2>3. PICK d : d = LKSelected(b) /\ d = Reseal(c)
    BY <1>1, <1>4, <2>1, <2>2 DEF LKSelected, LKRetire, SetSlot
  <2>4. /\ c \in Block
        /\ StateOf(c, a) = Fields(z, t, f)
        /\ s # a => StateOf(c, s) = st
    BY <2>2, SetSlotFields
  <2>5. d \in Block /\ HasProven(d)
    BY <2>3, RetireKeeps
  <2>6. StateOf(d, s) = StateOf(c, s) /\ StateOf(d, a) = StateOf(c, a)
    BY <2>3, <2>4, ResealBlock
  <2>7. PICK r \in Slots : Proven(StateOf(d, r))
    BY <2>5 DEF HasProven
  <2>8. StateOf(d, r).priority > 0 /\ StateOf(d, a).priority = 0
    BY <2>1, <2>4, <2>6, <2>7 DEF Proven, Fields
  <2>9. StateOf(d, r) \in SlotState /\ StateOf(d, a) \in SlotState
    BY <2>5, StateType
  <2>10. r = ActiveSlot(d)
    BY <2>8, <2>9 DEF ActiveSlot, Slots, SlotState, Priorities
  <2>11. LKAfter(b) = d
    BY <2>3, <2>7, <2>10 DEF LKAfter, LKCharge, Proven
  <2>12. CASE s = a
    <3>1. [st EXCEPT !.priority = z] = Fields(z, t, f)
      BY <1>2, <2>1, <2>12, FieldUpdates
    <3> QED
      BY <1>4, <2>1, <2>4, <2>6, <2>11, <2>12, <3>1
  <2>13. CASE s # a
    BY <2>4, <2>6, <2>11, <2>13
  <2> QED
    BY <2>12, <2>13
<1> QED
  BY <1>3, <1>4

LEMMA StepFields ==
    ASSUME Inv, Next
    PROVE  /\ \A p \in Procs : call[p] = Idle /\ call'[p] # Idle =>
                 \A s \in Slots : StateOf(call'[p].want, s)
                                   = Asked(call'[p].cmd, s, StateOf(block, s))
           /\ Reboot => \A s \in Slots :
                           StateOf(block, s)' \in Charged(s, StateOf(block, s))
<1>1. ASSUME NEW p \in Procs, call[p] = Idle, call'[p] # Idle, NEW s \in Slots
      PROVE  StateOf(call'[p].want, s) = Asked(call'[p].cmd, s, StateOf(block, s))
  <2>1. call \in [Procs -> Pending \cup {Idle}] /\ block \in Block
    BY DEF Inv, TypeOK
  <2>2. ~Reboot
    BY <1>1 DEF Reboot
  <2>3. PICK q \in Procs : Read(q) \/ Write(q) \/ WriteFails(q)
    BY <2>2 DEF Next
  <2>4. q = p /\ Read(q)
    <3>1. ~Write(q) /\ ~WriteFails(q)
      BY <1>1, <2>1, <2>3 DEF Write, WriteFails
    <3> QED
      BY <1>1, <2>1, <2>3, <3>1 DEF Read
  <2>5. PICK c \in Commands :
          /\ Accepts(block, c)
          /\ call' = [call EXCEPT ![p] = [cmd |-> c, want |-> Commanded(block, c)]]
    BY <2>4 DEF Read
  <2>6. call'[p].cmd = c /\ call'[p].want = Commanded(block, c)
    BY <2>1, <2>5
  <2> QED
    BY <2>1, <2>5, <2>6, CommandFields
<1>2. ASSUME Reboot, NEW s \in Slots
      PROVE  StateOf(block, s)' \in Charged(s, StateOf(block, s))
  <2>1. block \in Block /\ Validate(block) /\ HasProven(block)
    BY DEF Inv, TypeOK, ProvenKept
  <2>2. StateOf(block, s)' = StateOf(LKAfter(block), s) /\ running' = LKSlot(block)
    BY <1>2 DEF Reboot, StateOf
  <2>3. PICK st : st = StateOf(block, s)
    OBVIOUS
  <2>4. \/ StateOf(LKAfter(block), s) = st
        \/ ~Bootable(st) /\ StateOf(LKAfter(block), s) = [st EXCEPT !.priority = 0]
        \/ /\ s = LKSlot(block) /\ ~Proven(st) /\ st.tries > 0
           /\ StateOf(LKAfter(block), s) = [st EXCEPT !.tries = @ - 1]
    BY <2>1, <2>3, BootFields
  <2> QED
    BY <2>2, <2>3, <2>4 DEF Charged
<1> QED
  BY <1>1, <1>2

-----------------------------------------------------------------------------
(* The fields of the packed byte stay apart (dc1-slotctl.c:192 packs without *)
(* masks): for any byte found and any --tries accepted, the block about to   *)
(* be written has the fields the command asks for in both slots, and a boot  *)
(* takes a try only where one is left.                                       *)
THEOREM FieldsNeverSpill == Spec => FieldsApart
<1>1. Inv /\ [Next]_vars =>
        [/\ \A p \in Procs : call[p] = Idle /\ call'[p] # Idle =>
              \A s \in Slots : StateOf(call'[p].want, s)
                                = Asked(call'[p].cmd, s, StateOf(block, s))
         /\ Reboot => \A s \in Slots :
                         StateOf(block, s)' \in Charged(s, StateOf(block, s))]_vars
  BY StepFields
<1> QED
  BY <1>1, InvInit, InvStep, PTL DEF Spec, FieldsApart

(* A proven slot survives, in misc and in every block about to be written   *)
(* (assert_survivable and the guards of arm, prefer and mark-successful).   *)
THEOREM ProvenSlotKept == Spec => []ProvenKept
<1>1. Inv => ProvenKept
  BY DEF Inv
<1> QED
  BY <1>1, InvInit, InvStep, PTL DEF Spec

(* dc1-slotctl.c:28-31: at least one slot remains bootable, and the block   *)
(* remains one the bootloaders accept, for any number of concurrent callers.*)
THEOREM NeverUnbootable == Spec => []AlwaysBoots
<1>1. Inv => AlwaysBoots
  BY ProvenBoots DEF Inv, ProvenKept, AlwaysBoots
<1> QED
  BY <1>1, InvInit, InvStep, PTL DEF Spec
=============================================================================
