---------------------------- MODULE MCSystemInit ----------------------------
(* LK's 31 s are three pet intervals; the lease (180 intervals on the        *)
(* device) only has to be longer than the watchdog.  sysfs shows nothing     *)
(* yet, another partition, or one called userdata: the installed one, the    *)
(* same without /sbin/init, a shrunken one, one that is not ext (stock       *)
(* Android), ext4 without the label, ext3, or two of them.                   *)
EXTENDS SystemInit

Sb(magic, extents, volume) ==
    [short |-> FALSE, magic |-> magic, extents |-> extents, journal |-> TRUE, volume |-> volume]
Part(name, sectors, sb, hasInit) == [name |-> name, sectors |-> sectors, sb |-> sb, init |-> hasInit]

Ours  == Part("userdata", 2, Sb(TRUE, TRUE, "jagar-root"), TRUE)
Blank == Part("userdata", 2, Sb(TRUE, TRUE, ""), TRUE)

SeenSets ==
    {{}, {Part("boot_a", 1, Sb(FALSE, FALSE, ""), FALSE)},
     {Ours}, {Ours, Blank}, {Blank},
     {Part("userdata", 2, Sb(TRUE, TRUE, "jagar-root"), FALSE)},
     {Part("userdata", 1, Sb(TRUE, TRUE, "jagar-root"), TRUE)},
     {Part("userdata", 2, Sb(FALSE, FALSE, ""), FALSE)},
     {Part("userdata", 2, Sb(TRUE, FALSE, "jagar-root"), TRUE)}}
=============================================================================
