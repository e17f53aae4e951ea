----------------------------- MODULE BootImage -----------------------------
(***************************************************************************)
(* The boot image from build to slot: pack.sh lays out the dtbswap payload *)
(* [stub | dtb | kernel], repack-boot.sh or mkboot pack the Android image  *)
(* around it, dd writes it over what the slot held, and five programs read *)
(* it back, each with code of its own: mkboot verify, kernel_sha and       *)
(* is_dtbswap_img of dc1-boot-sync, unpack of kernel-local-install.py, and *)
(* the bootloader.  kernel-local-install.py also builds the next image     *)
(* from the parts of the one in the slot.  One slot is enough: its images  *)
(* fill the partition, so what the other slot held does not matter.        *)
(*                                                                         *)
(* An image is a sequence of cells.  A cell is a header field, a character *)
(* of the command line, a magic or a unit of contents; offsets count from  *)
(* 0 as in the code.  gzip is a stream between a magic and a trailer, and  *)
(* a hash is what it is of.                                                *)
(***************************************************************************)
EXTENDS Naturals, Sequences, SequencesExt, FiniteSetsExt

CONSTANTS
    PageSize,     \* cells of a page
    CmdlineSize,  \* cells of the header's command line
    LegacyShift,  \* how far the v0-v2 command line lies behind the v3/v4 one
    Pages,        \* pages of a boot partition
    Stubs, Dtbs, Kernels, Ramdisks, Cmdlines,
    MaxUpdates    \* bound: local kernel updates after the first image

(* Values of single cells. *)
Android == 101
Gz      == 102
End     == 103
ARMd    == 104
FDT     == 105
LZ4     == 106
AVB0    == 107
AVBf    == 108
OsVersion == 109

Part == Pages * PageSize

(* Header: magic, kernel_size, ramdisk_size, os_version, header_size,        *)
(* reserved, header_version, cmdline, and signature_size in v4.              *)
CmdlineOff   == 7
headerSizeV3 == CmdlineOff + CmdlineSize
headerSizeV4 == headerSizeV3 + 1
SigSizeOff   == headerSizeV3

ASSUME LayoutAssumption ==
    /\ {PageSize, CmdlineSize, LegacyShift, Pages, MaxUpdates} \subseteq Nat
    /\ headerSizeV4 <= PageSize /\ Pages > 3 /\ LegacyShift < CmdlineSize
    /\ \A k \in Kernels : Len(k) > 1 /\ k[2] = ARMd
    /\ \A s \in Stubs : Len(s) > 5 /\ s[2] = ARMd
    /\ \A d \in Dtbs : d # <<>> /\ d[1] = FDT

VARIABLES
    payload,   \* the kernel file given to the packers, <<>> when there is none
    image,     \* the image file, likewise
    slot,      \* the cells of the boot partition
    parts,     \* what payload was made of
    made,      \* what image was made of
    flashed,   \* what slot was made of
    updates

vars == <<payload, image, slot, parts, made, flashed, updates>>

NoParts == [stub |-> <<>>, dtb |-> <<>>, kernel |-> <<>>]
Nothing == [by |-> "none", ramdisk |-> <<>>, signature |-> <<>>, legacy |-> FALSE,
            kernel |-> <<>>, parts |-> NoParts]

Signature == [i \in 1 .. PageSize |-> IF i = 1 THEN AVB0 ELSE 1]

Zeros(n) == [i \in 1 .. n |-> 0]
At(b, off) == b[off + 1]
Slice(b, from, to) == SubSeq(b, from + 1, to)

(* Fields f (offset :> value) of b overwritten. *)
Patched(b, f) == [i \in 1 .. Len(b) |-> IF i - 1 \in DOMAIN f THEN f[i - 1] ELSE b[i]]

(* The stock image, of which only the AVB footer matters. *)
Stock == Patched(Zeros(Part), [o \in {3 * PageSize, Part - 2, Part - 1} |->
              CASE o = 3 * PageSize -> AVB0 [] o = Part - 2 -> AVBf [] OTHER -> 3 * PageSize])

Init ==
    /\ payload = <<>> /\ image = <<>> /\ slot = Stock
    /\ parts = NoParts /\ made = Nothing /\ flashed = Nothing /\ updates = 0

-----------------------------------------------------------------------------
(* gzip, and its inverse: <<>> for a stream that is not whole. *)

gzip(b) == <<Gz>> \o b \o <<End>>

gunzip(z) == IF Len(z) > 2 /\ z[1] = Gz /\ z[Len(z)] = End THEN SubSeq(z, 2, Len(z) - 1) ELSE <<>>

IsGzip(b) == b # <<>> /\ b[1] = Gz

-----------------------------------------------------------------------------
(* The payload: image_size at 0, the arm64 magic at 1, the table at 2..5. *)

align4(n) == 2 * ((n + 1) \div 2)

Table(doff, dlen, koff, klen, size) ==
    [o \in {0, 2, 3, 4, 5} |-> CASE o = 0 -> size [] o = 2 -> doff [] o = 3 -> dlen
                                 [] o = 4 -> koff [] o = 5 -> klen]

(* pack.sh. *)
PackSh(stub, dtb, kernel) ==
    LET doff == align4(Len(stub))
        koff == align4(doff + Len(dtb))
        laid == stub \o Zeros(doff - Len(stub)) \o dtb
                     \o Zeros(koff - doff - Len(dtb)) \o kernel
    IN  Patched(laid, Table(doff, Len(dtb), koff, Len(kernel), Len(laid)))

(* kernel-local-install.py: everything before the kernel is kept. *)
ReplaceKernel(old, koff, kernel) ==
    LET laid == Slice(old, 0, koff) \o kernel
    IN  Patched(laid, [o \in {0, 5} |-> IF o = 0 THEN Len(laid) ELSE Len(kernel)])

-----------------------------------------------------------------------------
(* mkboot. *)

pad(n) == IF n % PageSize # 0 THEN PageSize - (n % PageSize) ELSE 0

Padded(b) == b \o Zeros(pad(Len(b)))

cstr(b) == IF Contains(b, 0) THEN SubSeq(b, 1, Min({i \in DOMAIN b : b[i] = 0}) - 1) ELSE b

Refuses(o) ==
    o.kernel = <<>> \/ o.version \notin 3 .. 4 \/ Len(o.cmdline) >= CmdlineSize

(* The header of packBoot, with the command line at both offsets on request. *)
Header(o) ==
    LET size == IF o.version >= 4 THEN headerSizeV4 ELSE headerSizeV3
        h == <<Android, Len(o.kernel), Len(o.ramdisk), o.os, size, 0, o.version>>
               \o o.cmdline \o Zeros(CmdlineSize - Len(o.cmdline))
               \o (IF o.version >= 4 THEN <<Len(o.signature)>> ELSE <<>>)
        at == CmdlineOff + LegacyShift
    IN  IF o.legacy /\ at + Len(o.cmdline) < Len(h)
        THEN Patched(h, [i \in at .. at + Len(o.cmdline) - 1 |-> o.cmdline[i - at + 1]])
        ELSE h

packBoot(o) ==
    FoldLeft(LAMBDA b, s : IF s = <<>> THEN b ELSE Padded(b \o s), Padded(Header(o)),
             <<o.kernel, o.ramdisk>> \o (IF o.version >= 4 THEN <<o.signature>> ELSE <<>>))

(* parseBoot: the header's fields. *)
Parses(d) ==
    /\ Len(d) >= headerSizeV3 /\ At(d, 0) = Android
    /\ At(d, 6) >= 3 /\ (At(d, 6) >= 4 => Len(d) >= headerSizeV4)

parseBoot(d) ==
    [kernel |-> At(d, 1), ramdisk |-> At(d, 2), os |-> At(d, 3), version |-> At(d, 6),
     cmdline |-> cstr(Slice(d, CmdlineOff, headerSizeV3)),
     signature |-> IF At(d, 6) >= 4 THEN At(d, SigSizeOff) ELSE 0]

(* Variant: the next section is looked for right behind the last one. *)
takeUnpadded(acc, n, d) ==
    CASE ~acc.ok \/ n = 0 -> [acc EXCEPT !.got = Append(@, <<>>)]
      [] acc.ok /\ n > 0 /\ acc.off + n > Len(d) -> [acc EXCEPT !.ok = FALSE, !.got = Append(@, <<>>)]
      [] OTHER -> [acc EXCEPT !.off = acc.off + n,
                              !.got = Append(@, Slice(d, acc.off, acc.off + n))]

(* sections: an empty section takes no room; one that runs past the end is an *)
(* error.                                                                     *)
take(acc, n, d) ==
    CASE ~acc.ok \/ n = 0 -> [acc EXCEPT !.got = Append(@, <<>>)]
      [] acc.ok /\ n > 0 /\ acc.off + n > Len(d) -> [acc EXCEPT !.ok = FALSE, !.got = Append(@, <<>>)]
      [] OTHER -> [acc EXCEPT !.off = acc.off + n + pad(acc.off + n),
                              !.got = Append(@, Slice(d, acc.off, acc.off + n))]

sections(h, d) ==
    LET size == IF h.version >= 4 THEN headerSizeV4 ELSE headerSizeV3
    IN  FoldLeft(LAMBDA acc, n : take(acc, n, d),
                 [ok |-> TRUE, off |-> size + pad(size), got |-> <<>>],
                 <<h.kernel, h.ramdisk, h.signature>>)

(* cmdVerify: repack what was parsed, and compare as far as both go. *)
cmdVerify(d) ==
    /\ Parses(d)
    /\ LET h == parseBoot(d)
           s == sections(h, d)
           o == [kernel |-> s.got[1], ramdisk |-> s.got[2], signature |-> s.got[3],
                 cmdline |-> h.cmdline, os |-> h.os, version |-> h.version, legacy |-> FALSE]
       IN  /\ s.ok /\ ~Refuses(o)
           /\ LET r == packBoot(o)
                  n == Min({Len(r), Len(d)})
              IN  SubSeq(r, 1, n) = SubSeq(d, 1, n)

-----------------------------------------------------------------------------
(* The other readers. *)

(* The kernel slot, unpacked: dd skip=1 | head -c kernel_size | gunzip. *)
KernelSlot(d) == gunzip(Slice(d, PageSize, Min({PageSize + At(d, 1), Len(d)})))

(* The table as the shell readers test it. *)
HasTable(b) ==
    /\ Len(b) >= 6 /\ At(b, 2) > 0 /\ At(b, 4) > At(b, 2)
    /\ At(b, 4) + At(b, 5) = Len(b)
    /\ At(b, 2) < Len(b) /\ At(b, At(b, 2)) = FDT

kernel_sha(d) ==
    LET b == KernelSlot(d)
    IN  IF At(d, 1) = 0 \/ At(d, 1) > Part THEN <<>>
        ELSE IF HasTable(b) THEN Slice(b, At(b, 4), At(b, 4) + At(b, 5)) ELSE b

is_dtbswap_img(d) ==
    /\ At(d, 1) > 0
    /\ LET b == KernelSlot(d) IN HasTable(b) /\ At(b, 5) > 0 /\ At(b, 1) = ARMd

(* unpack of kernel-local-install.py: whether it accepts, and what it takes. *)
alignPage(n) == PageSize * ((n + PageSize - 1) \div PageSize)

unpack(d) ==
    LET k    == At(d, 1)
        r    == At(d, 2)
        roff == PageSize + alignPage(k)
        soff == roff + alignPage(r)
        b    == gunzip(Slice(d, PageSize, PageSize + k))
    IN  [payload |-> b, ramdisk |-> Slice(d, roff, roff + r),
         signature |-> Slice(d, soff, soff + PageSize), end |-> soff + PageSize]

Unpacks(d) ==
    /\ Len(d) >= PageSize /\ At(d, 0) = Android
    /\ At(d, 6) = 4 /\ At(d, 4) = headerSizeV4
    /\ At(d, 3) = OsVersion /\ At(d, SigSizeOff) = PageSize
    /\ 0 < At(d, 1) /\ At(d, 1) < Part /\ At(d, 2) > 0 /\ unpack(d).end <= Len(d)
    /\ LET u == unpack(d)
           b == u.payload
       IN  /\ Len(b) >= 6 /\ At(b, 1) = ARMd
           /\ 6 <= At(b, 2) /\ At(b, 3) > 0 /\ At(b, 2) + At(b, 3) <= At(b, 4)
           /\ At(b, 4) + At(b, 5) = Len(b) /\ At(b, 5) > 0
           /\ At(b, At(b, 2)) = FDT
           /\ At(u.ramdisk, 0) = LZ4 /\ At(u.signature, 0) = AVB0

(* The bootloader's: the footer in the last cells must lead to AVB metadata,  *)
(* or it loops on "invalid metadata".                                         *)
FooterGood(d) ==
    /\ At(d, Part - 2) = AVBf
    /\ At(d, Part - 1) < Part /\ At(d, At(d, Part - 1)) = AVB0

-----------------------------------------------------------------------------
(* The steps. *)

(* pack.sh, or a kernel that is packed as it is: raw, or compressed.  Bound:  *)
(* one image is built from scratch, over the stock one.                       *)
PackPayload ==
    /\ payload = <<>> /\ image = <<>> /\ flashed = Nothing
    /\ \E kernel \in Kernels :
         \/ \E stub \in Stubs, dtb \in Dtbs :
               /\ payload' = gzip(PackSh(stub, dtb, kernel))
               /\ parts' = [stub |-> stub, dtb |-> dtb, kernel |-> kernel]
         \/ /\ payload' \in {kernel, gzip(kernel)}
            /\ parts' = [NoParts EXCEPT !.kernel = kernel]
    /\ UNCHANGED <<image, slot, made, flashed, updates>>

(* repack-boot.sh: each section padded by itself, the AVB page as it is, and  *)
(* a footer at the end of the partition that leads to it.  An image that      *)
(* leaves no room for the footer fails an assertion.                          *)
PadPage(b) == b \o Zeros(alignPage(Len(b)) - Len(b))

repack(kern, rd, cmdline) ==
    LET h == <<Android, Len(kern), Len(rd), OsVersion, headerSizeV4, 0, 4>>
               \o cmdline \o Zeros(CmdlineSize - Len(cmdline)) \o <<PageSize>>
        img == PadPage(h) \o PadPage(kern) \o PadPage(rd) \o Signature
    IN  img \o Zeros(Part - Len(img) - 2) \o <<AVBf, Len(img) - PageSize>>

RepackAccepts(kern, rd, cmdline) ==
    /\ rd # <<>> /\ rd[1] = LZ4 /\ Len(cmdline) < CmdlineSize
    /\ 2 * PageSize + alignPage(Len(kern)) + alignPage(Len(rd)) <= Part - 2

Zipped(k) == IF IsGzip(k) THEN k ELSE gzip(k)

Repack ==
    /\ payload # <<>> /\ payload' = <<>>
    /\ \E rd \in Ramdisks, cmdline \in Cmdlines :
         LET kern == Zipped(payload)
         IN  IF RepackAccepts(kern, rd, cmdline)
             THEN /\ image' = repack(kern, rd, cmdline)
                  /\ made' = [by |-> "repack", ramdisk |-> rd, signature |-> Signature,
                              legacy |-> FALSE, kernel |-> kern, parts |-> parts]
             ELSE UNCHANGED <<image, made>>
    /\ UNCHANGED <<slot, parts, flashed, updates>>

(* mkboot pack: image_size of a raw Image on request, gzip on request, a v4   *)
(* signature of one page or none.  An image larger than the partition is      *)
(* written all the same, and then reported.                                   *)
setArm64ImageSize(k, size) == IF size > 0 THEN Patched(k, [o \in {0} |-> size]) ELSE k

cmdPack ==
    /\ payload # <<>> /\ payload' = <<>>
    /\ \E rd \in Ramdisks \cup {<<>>}, cmdline \in Cmdlines, version \in 2 .. 5,
          sig \in {<<>>, Signature}, size \in {0, 9}, zip, legacy \in BOOLEAN :
         LET sized == setArm64ImageSize(payload, size)
             kern == IF zip /\ ~IsGzip(sized) THEN gzip(sized) ELSE sized
             o == [kernel |-> kern, ramdisk |-> rd, signature |-> sig, cmdline |-> cmdline,
                   os |-> OsVersion, version |-> version, legacy |-> legacy]
         IN  /\ sig # <<>> => version >= 4
             /\ size > 0 => ~IsGzip(payload)
             /\ IF Refuses(o) THEN UNCHANGED <<image, made>>
                ELSE /\ image' = packBoot(o)
                     /\ made' = [by |-> "mkboot", ramdisk |-> rd, signature |-> sig,
                                 legacy |-> legacy, kernel |-> kern,
                                 parts |-> IF size > 0 THEN [parts EXCEPT !.kernel = sized] ELSE parts]
    /\ UNCHANGED <<slot, parts, flashed, updates>>

(* dd of the image file over the partition, if it fits; the rest of the       *)
(* partition stays.                                                           *)
Flash ==
    /\ image # <<>> /\ image' = <<>>
    /\ IF Len(image) <= Part
       THEN slot' = image \o Slice(slot, Len(image), Part) /\ flashed' = made
       ELSE UNCHANGED <<slot, flashed>>
    /\ made' = Nothing /\ parts' = NoParts
    /\ UNCHANGED <<payload, updates>>

(* "repacked image parity": the new image has the kernel, and the rest of the *)
(* old one.                                                                   *)
Parity(img, kernel, old) ==
    /\ Unpacks(img)
    /\ LET u == unpack(img)
       IN  /\ Slice(u.payload, At(u.payload, 4), Len(u.payload)) = kernel
           /\ u.ramdisk = old.ramdisk /\ u.signature = old.signature

(* kernel-local-install.py: the running image's stub, device tree, ramdisk    *)
(* and signature with another kernel, repacked, and checked before it goes on. *)
LocalUpdate ==
    /\ payload = <<>> /\ image = <<>> /\ updates < MaxUpdates /\ updates' = updates + 1
    /\ Unpacks(slot)
    /\ \E kernel \in Kernels :
         LET u == unpack(slot)
             kern == gzip(ReplaceKernel(u.payload, At(u.payload, 4), kernel))
         IN  /\ u.signature = Signature
             /\ IF RepackAccepts(kern, u.ramdisk, <<>>)
                THEN LET img == repack(kern, u.ramdisk, <<>>)
                     IN  image' = IF Parity(img, kernel, u) /\ cmdVerify(img) THEN img ELSE <<>>
                ELSE UNCHANGED image
             /\ made' = [flashed EXCEPT !.by = "repack", !.kernel = kern, !.parts.kernel = kernel]
    /\ UNCHANGED <<payload, slot, parts, flashed>>

Next == PackPayload \/ Repack \/ cmdPack \/ Flash \/ LocalUpdate

Spec == Init /\ [][Next]_vars

-----------------------------------------------------------------------------
(* Properties. *)

(* The stub and the device tree are in the payload as they were built, but    *)
(* for the fields the packers own.                                            *)
Keeps(b, p) ==
    /\ \A o \in 0 .. Len(p.stub) - 1 : o \in {0, 2, 3, 4, 5} \/ At(b, o) = At(p.stub, o)
    /\ Slice(b, At(b, 2), At(b, 2) + Len(p.dtb)) = p.dtb

(* Whatever is in the slot, every reader finds in it what was packed.  mkboot *)
(* "proves the packer agrees" (main.go:17-18) for its own images and for      *)
(* those of repack-boot.sh, footer and all; kernel_sha finds the kernel that  *)
(* dc1-boot-sync compares with the installed one (dc1-boot-sync:104-118), or  *)
(* it "would deploy on every networked boot"; a dtbswap image is taken for    *)
(* one by all of its readers, and after any number of local updates still has *)
(* "the boot-proven stub, DTB, ramdisk and signature"                         *)
(* (kernel-local-install.py:390-391); and repack-boot.sh leaves no stale      *)
(* footer for the bootloader (repack-boot.sh:117-123).                        *)
ReadersAgree ==
    flashed.by # "none" /\ ~flashed.legacy =>
        LET s == sections(parseBoot(slot), slot)
        IN  /\ cmdVerify(slot)
            /\ s.got = <<flashed.kernel, flashed.ramdisk, flashed.signature>>
            /\ IsGzip(flashed.kernel) => kernel_sha(slot) = flashed.parts.kernel
            /\ IsGzip(flashed.kernel) => (is_dtbswap_img(slot) <=> flashed.parts.stub # <<>>)
            /\ flashed.by = "repack" =>
                 /\ FooterGood(slot)
                 /\ flashed.parts.stub # <<>> =>
                      /\ Unpacks(slot) /\ Keeps(unpack(slot).payload, flashed.parts)
                      /\ unpack(slot).ramdisk = flashed.ramdisk
=============================================================================
