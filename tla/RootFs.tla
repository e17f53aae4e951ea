------------------------------- MODULE RootFs -------------------------------
(***************************************************************************)
(* Which filesystem the boot initramfs is willing to hand control to       *)
(* (internal/partition, systeminit/decide.go and ops.go).                  *)
(*                                                                         *)
(* A partition is a record: its GPT name, its size in sectors, its         *)
(* superblock and whether /sbin/init is there and executable.  Of the      *)
(* superblock: readable in full, the ext magic, the feature bits that tell *)
(* ext2, ext3 and ext4 apart, and the volume name.                         *)
(***************************************************************************)
EXTENDS Naturals, FiniteSets

CONSTANT MinUserdataSectors

NoDev == [name |-> "none"]

(* The partitions of that name that sysfs shows: exactly one, and not below  *)
(* the floor ("mapping moved?").                                             *)
resolveNamed(seen, name, floor) ==
    LET matches == {p \in seen : p.name = name}
    IN  {p \in matches : Cardinality(matches) = 1 /\ p.sectors >= floor}

ResolveUserdata(seen) == resolveNamed(seen, "userdata", MinUserdataSectors)

ProbeSuperblock(sb) ==
    IF sb.short \/ ~sb.magic THEN [type |-> "", label |-> ""]
    ELSE [type |-> IF sb.extents THEN "ext4" ELSE IF sb.journal THEN "ext3" ELSE "ext2",
          label |-> sb.volume]

(* One candidate, or none while the partition has not appeared. *)
ProbeRoots(seen) ==
    {[device |-> p, fs |-> ProbeSuperblock(p.sb)] : p \in ResolveUserdata(seen)}

(* Variant: "the only ext4 we found" is good enough. *)
SelectAnyExt4(cands) ==
    LET match == {c \in cands : c.fs.type = "ext4"}
    IN  {c.device : c \in {m \in match : Cardinality(match) = 1}}

(* The one candidate that is ext4 and labelled jagar-root. *)
SelectRoot(cands) ==
    LET match == {c \in cands : c.fs.type = "ext4" /\ c.fs.label = "jagar-root"}
    IN  {c.device : c \in {m \in match : Cardinality(match) = 1}}

FsckAcceptable(rc) == rc \in {0, 1}
=============================================================================
