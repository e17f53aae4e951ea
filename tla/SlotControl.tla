---------------------------- MODULE SlotControl ----------------------------
(***************************************************************************)
(* dc1-slotctl (device-daylight-jagar/dc1-slotctl.c): the tool that is the *)
(* only writer of the A/B block from Linux, and the bootloader that is the *)
(* only other writer.                                                      *)
(*                                                                         *)
(* One invocation is two steps, because nothing locks misc between them:   *)
(* Read (read_bcb, validate, the command handler, assert_survivable,       *)
(* reseal) and Write (write_bcb).  Several invocations may be under way:   *)
(* the apk trigger, the boot-time oneshot and an operator all call it.     *)
(***************************************************************************)
EXTENDS Bcb

CONSTANTS
    Procs,        \* the concurrent callers of dc1-slotctl
    FactoryMeta   \* the metadata bytes a device may come with

ASSUME FactoryAssumption ==
    /\ FactoryMeta \subseteq [Slots -> Byte]
    /\ \A m \in FactoryMeta : \E s \in Slots : Proven(Decode(m[s]))

VARIABLES
    block,    \* the 32 bytes at offset 2048 of misc
    call,     \* call[p]: the invocation p has under way
    running   \* the slot the bootloader handed off to

vars == <<block, call, running>>

Idle == [op |-> "none"]

(* An invocation between its read and its write: the command and the block *)
(* it computed.                                                             *)
Pending == [cmd : Commands, want : Block]

TypeOK ==
    /\ block \in Block
    /\ call \in [Procs -> Pending \cup {Idle}]
    /\ running \in Slots

Init ==
    \E m \in FactoryMeta :
        /\ block = LKAfter([header |-> TRUE, meta |-> m, crc |-> m])
        /\ running = LKSlot([header |-> TRUE, meta |-> m, crc |-> m])
        /\ call = [p \in Procs |-> Idle]

-----------------------------------------------------------------------------
(* main() up to write_bcb.  A refused command leaves no trace. *)
Read(p) ==
    /\ call[p] = Idle
    /\ \E c \in Commands :
         /\ Accepts(block, c)
         /\ call' = [call EXCEPT ![p] = [cmd |-> c, want |-> Commanded(block, c)]]
    /\ UNCHANGED <<block, running>>

(* write_bcb: the pwrite reaches the device, whatever fsync and the         *)
(* read-back then report.                                                   *)
Write(p) ==
    /\ call[p] # Idle
    /\ block' = call[p].want
    /\ call' = [call EXCEPT ![p] = Idle]
    /\ UNCHANGED running

(* write_bcb cannot open misc, or the pwrite fails. *)
WriteFails(p) ==
    /\ call[p] # Idle
    /\ call' = [call EXCEPT ![p] = Idle]
    /\ UNCHANGED <<block, running>>

(* A reboot, orderly or not: every invocation dies where it stands and the  *)
(* bootloader selects again.                                                *)
Reboot ==
    /\ LKBoots(block)
    /\ running' = LKSlot(block)
    /\ block' = LKAfter(block)
    /\ call' = [p \in Procs |-> Idle]

Next == \/ \E p \in Procs : Read(p) \/ Write(p) \/ WriteFails(p)
        \/ Reboot

Spec == Init /\ [][Next]_vars

-----------------------------------------------------------------------------
(* Properties. *)

(* What a command asks for slot s whose fields are st (dc1-slotctl.c:34-40). *)
Asked(c, s, st) ==
    CASE c.op = "prefer" -> [st EXCEPT !.priority = IF s = c.slot THEN 15 ELSE 14]
      [] c.op = "arm" -> IF s = c.slot
                         THEN [priority |-> 15, tries |-> c.tries, successful |-> 0]
                         ELSE [st EXCEPT !.priority = 14]
      [] c.op = "mark-successful" -> IF s = c.slot
                                     THEN [priority |-> st.priority, tries |-> 0,
                                           successful |-> 1]
                                     ELSE st

(* What a boot may do to a slot: nothing, retire one that cannot boot, or    *)
(* take one of the tries of the slot it hands off to.                        *)
Charged(s, st) ==
    {st} \cup (IF Bootable(st) THEN {} ELSE {[st EXCEPT !.priority = 0]})
         \cup (IF s = running' /\ ~Proven(st) /\ st.tries > 0
               THEN {[st EXCEPT !.tries = @ - 1]} ELSE {})

(* Three fields share a byte that set_slot packs without masks               *)
(* (dc1-slotctl.c:192).  Whatever byte an invocation found, with whatever    *)
(* --tries it was called, the block it is about to write has exactly the     *)
(* fields the command asks for, in both slots; and a boot never takes a try  *)
(* where none is left.  A spill would prove a slot that has not booted, or   *)
(* turn a used-up slot into one with tries.                                  *)
FieldsApart ==
    [][/\ \A p \in Procs : call[p] = Idle /\ call'[p] # Idle =>
             \A s \in Slots : StateOf(call'[p].want, s)
                               = Asked(call'[p].cmd, s, StateOf(block, s))
       /\ Reboot => \A s \in Slots : StateOf(block, s)' \in Charged(s, StateOf(block, s))]_vars

(* dc1-slotctl.c:28-31, "at least one slot must remain bootable", through   *)
(* every interleaving of unlocked read-modify-write invocations, failed     *)
(* writes and the bootloader's own charges and retirements; and the block   *)
(* stays one both bootloaders accept.  Without this no reboot finds a slot. *)
AlwaysBoots == Validate(block) /\ Survivable(block)

(* What makes AlwaysBoots inductive: a slot that is proven, in the block    *)
(* and in every block an invocation is about to write.  A slot that is only *)
(* bootable is not enough, since the bootloader spends its tries.           *)
ProvenKept ==
    /\ Validate(block) /\ HasProven(block)
    /\ \A p \in Procs : call[p] # Idle =>
          Validate(call[p].want) /\ HasProven(call[p].want)
=============================================================================
