-------------------------------- MODULE Bcb --------------------------------
(***************************************************************************)
(* The A/B bootloader_control block in the misc partition, and what        *)
(* dc1-slotctl and the device's bootloader compute from it.                *)
(*                                                                         *)
(* A block is a record                                                     *)
(*   header   the magic, intent suffix, version and slot count are the     *)
(*            ones this device's bootloaders read                          *)
(*   meta     the packed metadata byte of each slot (priority in bits 0-3, *)
(*            tries in bits 4-6, successful in bit 7)                      *)
(*   crc      the metadata the stored checksum was computed over: crc32 is *)
(*            abstracted to an injective function of what it covers        *)
(***************************************************************************)
EXTENDS Integers

Slots == {"a", "b"}

Other(s) == IF s = "a" THEN "b" ELSE "a"

Priorities == 0 .. 15
Tries      == 0 .. 7

SlotState == [priority : Priorities, tries : Tries, successful : 0 .. 1]

Byte == 0 .. 255

-----------------------------------------------------------------------------
(* The packed byte.  *)

Decode(v) == [priority   |-> v % 16,
              tries      |-> (v \div 16) % 8,
              successful |-> (v \div 128) % 2]

Pack(priority, tries, successful) ==
    (priority + 16 * tries + 128 * successful) % 256

(* The three fields of a block's slot, as decode() of dc1-slotctl returns   *)
(* them.                                                                    *)
StateOf(b, s) == Decode(b.meta[s])

Bootable(st) == st.priority > 0 /\ (st.successful = 1 \/ st.tries > 0)
Proven(st)   == st.priority > 0 /\ st.successful = 1

(* get_suffix of the bootloaders, and active_slot of dc1-slotctl: only the  *)
(* priorities decide.                                                       *)
ActiveSlot(b) ==
    IF StateOf(b, "a").priority < StateOf(b, "b").priority THEN "b" ELSE "a"

Validate(b) == b.header /\ b.crc = b.meta

Survivable(b) == \E s \in Slots : Bootable(StateOf(b, s))

HasProven(b) == \E s \in Slots : Proven(StateOf(b, s))

SetSlot(b, s, priority, tries, successful) ==
    [b EXCEPT !.meta[s] = Pack(priority, tries, successful)]

Reseal(b) == [b EXCEPT !.crc = b.meta]

Block == [header : BOOLEAN, meta : [Slots -> Byte], crc : [Slots -> Byte]]

-----------------------------------------------------------------------------
(* The three mutating commands.  Xxx(b, ...) is the block the handler        *)
(* computes from b, XxxAllowed the conditions under which it does not return *)
(* early.                                                                    *)

PreferAllowed(b, s) == Bootable(StateOf(b, s))

Prefer(b, s) ==
    LET st == StateOf(b, s)
        ot == StateOf(b, Other(s))
    IN  SetSlot(SetSlot(b, s, 15, st.tries, st.successful),
                Other(s), 14, ot.tries, ot.successful)

(* Variant: arm does not require the fallback slot to be proven. *)
ArmAllowedUnproven(b, s) == s # ActiveSlot(b)

ArmAllowed(b, s) == /\ s # ActiveSlot(b)
                    /\ Proven(StateOf(b, Other(s)))

(* Variant: arm leaves the successful flag of the armed slot as it was. *)
ArmKeepsProof(b, s, tries) ==
    LET ot == StateOf(b, Other(s))
    IN  SetSlot(SetSlot(b, s, 15, tries, StateOf(b, s).successful),
                Other(s), 14, ot.tries, ot.successful)

Arm(b, s, tries) ==
    LET ot == StateOf(b, Other(s))
    IN  SetSlot(SetSlot(b, s, 15, tries, 0),
                Other(s), 14, ot.tries, ot.successful)

MarkAllowed(b, s) == s = ActiveSlot(b)

MarkSuccessful(b, s) == SetSlot(b, s, StateOf(b, s).priority, 0, 1)

(* Variant: --tries is checked to be 1..8, which three bits do not hold. *)
CommandsWide == [op : {"prefer", "mark-successful"}, slot : Slots]
                  \cup [op : {"arm"}, slot : Slots, tries : 1 .. 8]

(* The commands dc1-slotctl accepts: --tries is checked to be 1..7.          *)
Commands == [op : {"prefer", "mark-successful"}, slot : Slots]
              \cup [op : {"arm"}, slot : Slots, tries : 1 .. 7]

Allowed(b, c) ==
    CASE c.op = "prefer"          -> PreferAllowed(b, c.slot)
      [] c.op = "arm"             -> ArmAllowed(b, c.slot)
      [] c.op = "mark-successful" -> MarkAllowed(b, c.slot)

Computed(b, c) ==
    CASE c.op = "prefer"          -> Prefer(b, c.slot)
      [] c.op = "arm"             -> Arm(b, c.slot, c.tries)
      [] c.op = "mark-successful" -> MarkSuccessful(b, c.slot)

(* The handler reaches write_bcb: the block read back from misc is valid,    *)
(* the command is allowed on it, and the computed block is survivable.       *)
Accepts(b, c) == /\ Validate(b)
                 /\ Allowed(b, c)
                 /\ Survivable(Computed(b, c))

(* What write_bcb is given.                                                  *)
Commanded(b, c) == Reseal(Computed(b, c))

-----------------------------------------------------------------------------
(* The bootloader, as dc1-boot-sync and dc1-slotctl describe it: it selects *)
(* by priority; a slot that is not proven costs one try; a slot that is not *)
(* bootable is marked so (priority 0) and the other one is selected.         *)

LKRetire(b) == Reseal([b EXCEPT !.meta[ActiveSlot(b)] =
                         LET st == StateOf(b, ActiveSlot(b))
                         IN  Pack(0, st.tries, st.successful)])

(* The block with the selected slot retired if it is not bootable. *)
LKSelected(b) == IF Bootable(StateOf(b, ActiveSlot(b))) THEN b ELSE LKRetire(b)

LKCharge(b) ==
    LET s  == ActiveSlot(b)
        st == StateOf(b, s)
    IN  IF st.successful = 1
        THEN b
        ELSE Reseal(SetSlot(b, s, st.priority, st.tries - 1, 0))

LKBoots(b) == Validate(b) /\ Survivable(b)

LKSlot(b)  == ActiveSlot(LKSelected(b))
LKAfter(b) == LKCharge(LKSelected(b))
=============================================================================
