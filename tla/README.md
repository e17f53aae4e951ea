# TLA+ models of the DC-1 boot, update and install paths

This directory holds the formal models of the code in this repository that
decides whether a Daylight DC-1 tablet boots and can be installed: the A/B slot
metadata tool, the kernel/boot-image synchronisation, the layout of a boot
image and everything that reads it, PID 1 of the boot initramfs with its
watchdog petter and its rescue consoles, PID 1 of the installer with its panel
and dialogs, the root filesystem writer, the two installers, the local kernel
update of a developer, and the input part of the hardware tests. Each model is
written from the code, checked with TLC on small instances, and for the parts
where it matters most proved with TLAPS for every instance.

`PROJECT.json` lists the components, the runs, which definition models which
lines, what the runs found, and the hazards the properties are aimed at.

## 1. Inventory

| Part | State it keeps | Operations | Talks to | What is hard | What makes it correct |
|---|---|---|---|---|---|
| `dc1-slotctl` | 32-byte `bootloader_control` block in `misc` | `prefer`, `arm`, `mark-successful` (+ read-only `status`, `validate-hex`) | bootloader (shared block), boot-sync, operator | no lock around read-modify-write; packed byte; failed write-backs | a bootable slot always exists; a proven one survives |
| `dc1-boot-sync` | boot images in `boot_a`/`boot_b`, the marker `/var/lib/dc1/boot-sync-attempted` | `--deploy` (apk trigger), boot-time oneshot | release server, apk, `dc1-slotctl`, reboot | two unserialised processes, power cuts, torn images, a release that moves | the device can always come back; converges; no reboot loop |
| boot image (`mkboot`, `repack-boot.sh`, `pack.sh`) | an image file, the cells of a slot | pack, repack, verify, flash, replace the kernel | boot-sync, kernel-local-install, bootloader | five readers with code of their own; page edges; leftovers of the last image | every reader finds what was packed |
| boot initramfs (`system/init.c`, Go `systeminit`) | mounts, petter process, `/tmp/wd-lease`, `/tmp/wd-deadman`, hardware timer | find, check and mount root, hand the watchdog over, switch_root, rescue | systemd, LK, operator | signal races, timers, failures in the middle of mount moves | no spurious reset; the right root; an abandoned rescue resets into fastboot |
| `rebootfastboot`, `partition` | boot-mode nibble, command in `misc` | resolve by name, clear the command, arm, reboot | LK, petter, operator | two places the bootloader looks; registers that do not take | who asks for fastboot gets there |
| rescue consoles, `pid1` shield | shells, helpers, signal dispositions | respawn, reap, stream the log, tell a helper from a typed command | operator, USB gadget | zombies taken by the wrong waiter, a gadget that re-enumerates | one shell per console; every way in comes back |
| `imagewrite` | `userdata` blocks, page cache | `Write` (scrub, body, digest, superblock, sync, read back) | installd, block layer | write-back order, lost flushes, power cuts | success means on disk; only a verified image gets a superblock; a failure is scrubbed |
| `installd` + `wire` | `/tmp/install.lock`, `/tmp/answers`, sessions | accept, header, validate, write, finalize, OK/FAIL, delayed reboot | host, imagewrite, provision.sh | shared lock and answers with the network install; delayed reboot | one writer; right account; the lock is freed |
| `tui.sh` + `netinstall.sh` + `writelib.sh` | the same lock and answers, downloads in tmpfs, `boot_a` | form, download, scrub, stream, commit, finalize, write `boot_a`, reboot | release server, installd (shared files) | concurrent USB session; failure after the wipe | boot image last |
| installer PID 1 (`installerinit`, `drm`) | panel, surface, `paintMu`, dialog socket, status file | gate, gadget, acquire the panel, serve dialogs, paint, reap | rc.sh, `dc1-ask`, another DRM client | two goroutines on one surface; drivers that come late; clients that die | petted in time; a dialog stays up; clients released; status comes back |
| on-panel dialogs (`ask`) | editor, page, `touchState` | draw, hit test, feed events, answer | kernel input, installer PID 1 | fingers left from before; axes the kernel leaves out; redraw between taps | a tap gets what is drawn under it |
| `hwtest` input | reader goroutines, channel, trackers, grab | open, read, drain, wait, judge, close | kernel input | overflow, dropped events, close against read | evidence is real; grab released |
| `scripts/kernel-local-install.py` | `pending.json`, installed package, confirm unit, boot slots | `install`, `confirm` (next boot), roll back | apk, `dc1-boot-sync`, `dc1-slotctl`, systemd | a transaction over a reboot, cut at any point | the device always comes back; a recorded update is confirmed or rolled back |
| `dc1-update`, charging mode, power key, sleep on blank | package holds, flags, inhibitors | weekly upgrade (a caller in `BootSync`), boot-reason decision | apk, systemd, logind | an upgrade nobody watches; races with plug events | the rest is not modelled, see section 8 |
| release scripts, other hardware tests, extensions, host scripts | build artefacts, UI | - | - | sequential or UI | not modelled, see section 8 |

The parts interact through shared storage far more than through calls: the
A/B block is written by the bootloader and by every caller of `dc1-slotctl`;
the boot slots by the trigger, the oneshot and the network installer; the
answers file and the install lock by both installers; the watchdog by the
petter and systemd; the panel by the painter and the dialogs. That is where the
models are.

## 2. Modules

| Module | Models | Composes / used by |
|---|---|---|
| `Bcb` | the A/B block: packing, validation, the three commands, and the bootloader's use of it, as operators | `SlotControl`, `BootSync`, `KernelLocal` |
| `SlotControl` | concurrent `dc1-slotctl` invocations and reboots | EXTENDS `Bcb` |
| `ABSwitch` | the promise of the A/B update: one stable kernel, at most one on trial | implemented by `BootSync` |
| `BootSync` | the two `dc1-boot-sync` processes, apk, release, power, bootloader | EXTENDS `Bcb`, INSTANCE `ABSwitch` |
| `BootImage` | packers, flashing and readers of a boot image | - |
| `RootFs` | which partition and filesystem the initramfs accepts, as operators | `SystemInit` |
| `RebootFastboot` | `dc1-reboot-fastboot`, the nibble, the command in `misc`, LK's choice | `SystemInit` |
| `SystemInit` | PID 1 of the boot initramfs, petter, watchdog, systemd, operator | EXTENDS `RootFs`, `RebootFastboot` |
| `RescueConsoles` | the shells and helpers of rescue, the gates of `Main`, the signal shield | - |
| `ImageWrite` | `imagewrite.Write` over page cache and disk | abstracted to one step in `InstallSession` |
| `InstallSession` | both installers, lock, answers, userdata, `boot_a` | - |
| `InstallerInit` | the installer's PID 1, its panel and its dialog clients | a dialog is abstracted to draw, tap, answer |
| `DialogLayout` | where a dialog draws and what a tap hits, the editor, as operators | `TouchDialog` |
| `TouchDialog` | fingers, kernel events, tap detector and successive dialogs | EXTENDS `DialogLayout` |
| `InputSession` | the interactive input tests of `hwtest` | - |
| `KernelLocal` | `kernel-local-install.py` with the boot-time units and the file system's durability | EXTENDS `Bcb` |
| `MC*` | instances for TLC | |
| `*Proofs` | theorems and their proofs | EXTENDS the component; `InstallProofs`, `PanelProofs` and `SystemInitProofs` have two each, whose names differ; `BcbProofs` has lemmas only |

Definitions whose comment begins with *Variant* change one definition the way
a plausible bug would. No specification uses them; they show that a property
is able to fail.

### Bcb and SlotControl

A block is `[header, meta, crc]`: whether the fixed fields are the expected
ones, the packed byte of each slot (`Pack` adds the shifted fields without
masks, as `set_slot` does, so that one that is too large ends up in its
neighbour), and the metadata the stored checksum covers (CRC-32 abstracted to an
injective function). `Read(p)` is `main()` up to `write_bcb`; `Write(p)` and
`WriteFails(p)` are the two outcomes for the device of `write_bcb`. Nothing
happens between them under a lock, because the code has none. `Reboot` is the
bootloader: not under `src/`, modelled from what the comments of
`dc1-slotctl.c` and `dc1-boot-sync` say of it (selection by priority, a try per
unproven boot, an exhausted slot retired with priority 0).

### BootSync

Each process is a program counter with the shell variables that survive a
step (`sha`, `slot`, `want`, `img`, `blk`). A kernel build stands for its
image, its hash and the release that carries it. A slot holds a build or the
set of writers that left it incomplete. `kernel_sha` covers the kernel part of
an image only, so its result on a torn image is any build or an error.
`Fails`, `ArmWrittenButFails`, `MarkWriteFails` and `SetMarkFails` are the error
paths, each one fault of the budget; with `VarWritable = FALSE` the marker
is never written and that costs no fault. `Callers` says who runs `apk upgrade`:
the owner, at any moment, or the weekly timer, whose service is ordered after the
boot's oneshot and waits for nothing else, an armed slot included. The history variable `rushed` counts the upgrades of a device
that was not `Settled` (oneshot done, running slot selected and proven); the
safety properties say `rushed = 0`, and section 3 says what the scripts do otherwise. Nothing else is assumed of the callers: a kernel may be installed
right after another, and a reboot in the middle of a script is a power cut.

`ImplementsABSwitch` maps `stable` to the image of the slot the device settles
on if every trial fails, and `trial` to the image of an armed slot, until a rushed
upgrade, which is the step `Rush` of `ABSwitch` that ends its promise.

### BootImage

An image is a sequence of cells, one per header field, character of the command
line, magic or unit of contents; the page is scaled to twelve of them. The two
packers and the readers are operators written from their own code, so that an
agreement is shown and not assumed: `packBoot`, `parseBoot`, `sections` and
`cmdVerify` of mkboot, `repack` of repack-boot.sh, `kernel_sha` and
`is_dtbswap_img` of the shell scripts, `unpack` of kernel-local-install.py, and
the bootloader's look at the AVB footer (external). `gzip` is a stream between
a magic and a trailer, and a hash is what it is of. The actions are
the build (`PackPayload`, `Repack`, `cmdPack`), `Flash` and `LocalUpdate`, which builds
the next image from the parts of the one in the slot.

### SystemInit, RootFs and RebootFastboot

`init.c` and its Go port differ in one decision, whether the petter is told to
give the watchdog up before switch_root; the variable `handsOff` says which of
the two is running, and a behaviour keeps it. `findRoot` waits for one of the
`Snapshots` of sysfs; `RootFs` says which partition it accepts, and fsck, the mount
and the look for an init may fail. An operator in rescue may run the fastboot
tool, step by step against the petter that arms the same nibble. The kernel may
have used up `BootTicks` of LK's timer before PID 1 runs, and the watchdog's
device may appear only at the last of the ten tries to open it (`late`), or not at
all. `inNew` is which kernel filesystems are in the new root, `refused` those whose move
back has failed, which the code does not notice. Time
is counted in pet intervals and passes (`Tick`) only when nobody who is awake
has work left, which reflects 10 s intervals against steps that take
milliseconds. `Gadget` may hang. Left out: an unusable clock (treated by the
code as a fresh lease), a lease file that cannot be created in the RAM file
system, and the edits `boot.sh` makes in the new root.

### RescueConsoles

`kid[i]` is what has become of the process whose pid PID 1 remembers for console
`i`: running, a zombie, or reaped by the loop over strays. `live[i]` counts the
shells that really run there. The helpers are kept by who started them, PID 1 or
somebody at a shell, with the console each was given by `-tty` (`line`), which may
be any; `Outcome` is `Main` for a process that is not PID 1. The
gadget may go and come back under all of them. `Shield` is a signal to PID 1: the
signals the program has taken (`fatal`) are dropped, the others of `Deadly`, which
the Go runtime dies of, are a kernel panic.

### ImageWrite

The disk, the page cache and the dirty set are functions of the block number;
`Writeback` may flush any dirty blocks at any time; `Fsync` may or may not wait
(`fsyncLands`, fixed for a behaviour, FALSE being what the comment at
`imagewrite.go:115` measured; `Lands` says which of the two disks there are); a
global sync may lose one flush (a fault). Two history variables: `verified`, the
sessions whose digest matched, and `unscrubbed`, that the scrub of the error path
could not be written, which the code drops. An
image is identified by its session, a damaged chunk by a value of its own, so
that a digest is an equality.

### InstallSession

`usb` and `net` are the two sessions: where they are and what their user asked
for. `answers` is the one file they share. The history variable `overlapped`
records that somebody started a session while the other transport was in use
or a reboot was pending. Nothing prevents that, and the properties that need
the users to behave say `~overlapped`. `UsbUnbounded` and `NetUnbounded` are the
steps that may last for ever: downloads (`curl` has a connect timeout and no
other) and the runs of `provision.sh` and `finalize.sh`.

### InstallerInit

`init` is where PID 1's main goroutine is, `server` where the dialog server's is,
`mu` who holds `paintMu`, `shown` what the glass shows. The gate is its sequence of
steps, each with a wait for a driver that may come late or never; time passes
only in those waits and in the sleep of the loop. Clients may hang up, say
nothing, or die while their dialog is up, and a dialog may panic. Another
process may have the DRM card (`master`).

### DialogLayout and TouchDialog

`DialogLayout` has the arithmetic in pixels: pages of a menu, buttons, the keyboard and its
layers, the editor. `TouchDialog` puts fingers, the kernel's event frames (an axis
that has not changed is not reported) and the tap detector around it. `panel`
says how contacts are reported, since the code accepts three ways. `since` is the
history of the open device: which slots and axes it has reported, and which fingers
were pressed since the last lift (`press`); each frame that lifts a finger carries
what was known then.

### InputSession

One reader per device, the bounded channel and the test goroutine with its
drains, deadlines and verdicts. The kernel's buffer overflows to `SYN_DROPPED`.
History variables: `gap` on an event made after a lost one, `most` contacts
and `did`, what pen and fingers did in whole frames.

### KernelLocal

`tool` is the step of `install` with its candidate and what it saw at the start,
`conf` the step of `dc1-local-kernel-confirm.service` and `svc` that of
`dc1-boot-sync.service` in the current boot. The files the scripts decide by are
the record `fs`: `pending.json`, the installed package (with its modules), the
confirm unit and the pause marker. `journal` is the set of values of `fs` a power
cut may bring back: changes become durable in the order they were made, a sync
leaves only the latest one, and a renamed file whose contents were not synced
may come back as `Torn`. `dc1-boot-sync --deploy`, which `install` calls, is reduced to the
write, read-back and arm that `BootSync` models in detail. The history variable `raced` records that
the oneshot was started between `install`'s check that it is idle and the mask.
Automatic updates are kept out by their own mask and are not modelled here. The owner reboots only
when the units of the boot have settled; power cuts may come at any time.

## 3. Runs

| Run | Instance | Shows |
|---|---|---|
| `SlotControl` | 2 callers, 4 factory blocks, all of 1..7 tries (139 000 states) | a proven slot survives every interleaving; the device always boots; no field of a packed byte spills into another |
| `BootSync` | 3 builds (one bad), timer and owner, 2 upgrades (1 rushed), 2 moves, 2 faults, fairness (207 000 states) | until a rushed upgrade: safe fallback, armed image verified, only the running slot proven, refinement of `ABSwitch`; always: the oneshot reboots finitely often; in behaviours without a fault or a rushed upgrade a good installed kernel ends up running |
| `BootImage` | pages of 12 cells, 6 per partition, 2 stubs, 2 device trees, 6 kernels, 4 ramdisks, 4 command lines, 3 local updates (18 000 states) | every reader finds in the slot what was packed |
| `SystemInit` | both inits, watchdog 3 of which the kernel may use 1, lease 4 intervals, 2 mounts, partitions missing, doubled, too small, mislabelled, without an init, fairness (990 000 states) | no spurious reset, fastboot when asked for, the verified root, every mount where it belongs that could be moved there, an abandoned rescue with its petter resets, the hand-over completes |
| `RescueConsoles` | 2 consoles and the USB line, every command line, fairness (75 000 states) | one shell per console unless a helper was typed at the USB line; every way in comes back while PID 1 lives |
| `ImageWrite` | both kinds of fsync, 3 chunks, 2 sessions, 2 faults, 1 power cut (87 000 states) | OK means on disk; only a verified image has its superblock written; a failed session whose scrub could be written has none to read |
| `InstallSession` | 2 accounts, 2 sessions of each kind, fairness (76 000 states) | one writer, and a lock that is freed unless a download or a script never ends, however the sessions overlap; right account and order of the destructive steps when they do not |
| `InstallerInit` | 2 clients, watchdog of 3 units, waits on either side of it, fairness (49 000 states) | petted in time, a dialog is not painted over, clients are released, the status comes back |
| `TouchDialog` | 2 fingers, 3 kinds of panel, menus of two pages, a message, a text entry and a secret entry (1.6 million states) | every tap takes a press of its own; a clean tap gets what is drawn under it |
| `InputSession` | touchscreen, pen and key device, small buffers, fairness (750 000 states) | evidence is real, no gap is bridged, no read after close, the grab is released |
| `KernelLocal` | 3 builds (one does not boot), 2 installs, 3 faults, fairness (50 000 states) | the device always comes back, the record precedes every change in every crash state, the oneshot finds package and slot in step, a slot is proven only in a boot from it; a recorded update is confirmed or rolled back |

One run is expected to find a violation; it states a sentence of the repository
that the code does not keep (`findings` in `PROJECT.json`):

- `SystemInitRescue`: after the hand-over, rescue has neither petter nor a
  running watchdog, and an abandoned board stays on.

The passing runs make explicit what they are restricted to (`rushed = 0`, `~overlapped`,
`~raced`, `~unscrubbed`, a rescue before the hand-over, a lone finger).

### What the restrictions stand for

Each of these is a behaviour of the models, reached when the restriction is
lifted:

- "inactive" in `dc1-boot-sync` is derived from the selected slot, which after
  an arm is not the running one. A second upgrade before the reboot, for which the
  weekly timer is enough and no fault is needed, writes the running slot, and no image
  that has booted is left ("The inactive slot is never the one we are running from",
  dc1-boot-sync:21-22). For the same reason an upgrade between the boot and the
  oneshot lets it mark a slot that has never booted.
- With `VarWritable = FALSE` the marker is never written, which `deploy` does not
  notice, and the oneshot reboots a device with a bad kernel for ever ("the marker stops
  a reboot loop", dc1-boot-sync:34-36).
- The error of a move back is dropped (systeminit.go:187, init.c:443): a rescue may
  lack one of `/dev`, `/proc` and `/sys` and say that they are rolled back.
- The scrub before a transfer relies on the fsync that does not land on this disk
  (imagewrite.go:115-116), so the old superblock may stay over a body that is being
  replaced (docs/installation.md:78-79); the error of the scrub after a failure is
  dropped (imagewrite.go:135), so a failed session may leave one too.
- `imagewrite.Write` puts superblock and unsynced body into one page cache; a
  power cut can leave a labelled filesystem over a partial body of an image that had
  arrived whole. No property orders the two, since the code does not.
- The answers file is written outside the lock: a form completed on the panel
  replaces the answers a USB session has validated.
- The reboot of a finished session cuts off the next one without an answer
  (installd.go:109-110).
- `kernel-local-install.py` asks whether the boot-sync service is idle and masks
  it afterwards; started in between, the service marks a slot that has never
  booted.
- A dialog that panics leaves `paintMu` locked (installerinit.go:190-192), so
  that PID 1 survives and the panel does not.
- A shell on the USB line inherits the helper's mark from its environment, so
  that a helper typed and orphaned there passes the gate, for any console
  (decide.go:253, 264-267).
- SIGABRT, SIGILL, SIGTRAP and SIGSYS are not among the signals PID 1 takes
  (shield.go:12-19), and the Go runtime dies of them.
- A tap is taken at the position the tap detector remembers, 0 in a fresh dialog, while
  an axis has not been reported since the device was opened (touch.go:48-49).
  With several fingers it may be completed by another one than the one that was
  pressed ("ABS_MT_SLOT is ignored", touch.go:34-37).
- `mkboot pack -legacy-cmdline-offset` overwrites the command line it also
  keeps at the other offset (main.go:224-238); no build uses it.

### Bounds

- Two callers suffice for a stale write of `dc1-slotctl`; more are covered by
  the proof. Two upgrades let a failed update be followed by a good one, or one
  run into the other; two faults allow a torn image and a failed metadata write in
  one history.
- The lease is four intervals instead of 180: it only has to be longer than the
  watchdog (three, the 31 s of LK), so that the petter sleeps, wakes and
  decides several times on either side of the lapse. One interval may be gone before
  PID 1 runs, which leaves the one that a late open takes. Two filesystems are moved,
  so that a move and a move back can fail with another one done (the code has three,
  the proof any number).
- Two consoles let a helper be given a console of PID 1 other than the one it was
  typed at; the proof has any number.
- Three chunks let a transfer stop before, between and after chunks; the second
  session runs over what the first left.
- In `KernelLocal` two installs let one that failed be followed by another, and
  three faults cover a power cut during the install, a failing confirmation and
  a second cut while it is repeated.
- In `SystemInit` the snapshots of sysfs contain each way a partition can be
  wrong, once alone and once next to a right one.
- In `BootImage` the lengths put the end of a section before, at and behind a
  page's edge and the image below, at and above the partition's size; one image
  is built from scratch, since what an earlier one leaves is what the stock one does.
- In `TouchDialog` the queue is bounded; two fingers and a menu of two pages are
  enough for a press that spans two dialogs and a tap that spans a redraw.
- In `InputSession` the channel and the kernel's buffer hold a frame or two, so
  that both overflow, and each device makes a few frames or never stops.

### Deadlock

Deadlock is checked where the system never stops (the configurations without
`CHECK_DEADLOCK FALSE`). The other systems end by design: a board that has been
reset, a session or an update budget that is used up, tests that are over.

### Fairness

- `BootSync`: a started script keeps running (weak fairness of its steps, with the
  one of `SetMarkFails`, which is all there is on a full disk, and none of the other
  faults), a device that is down is eventually powered on, and
  its owner reboots now and then. The strong fairness of `UserReboot` is needed
  because upgrades can keep disabling it; `Converges` says nothing about a
  device that is never rebooted, since the trigger does not reboot.
- `SystemInit`: PID 1, the petter and systemd are scheduled, and time passes.
  Neither the operator nor the gadget set-up owes anything.
- `InstallSession`: a session under way takes steps where the code bounds them;
  socket reads and writes have deadlines (`sessionIdleTimeout`). There is no fairness
  of a download or of `provision.sh` and `finalize.sh`, which have no timeout, and
  `LockFreed` allows for a session that never gets past one. Nobody has to connect or
  confirm.
- `InstallerInit`: PID 1's two goroutines run, time passes, and somebody taps on a
  dialog that is up. A goroutine waiting in Lock gets the mutex although the loop
  keeps taking it (strong fairness of `LockAndRun`; Go's mutex hands over to a
  starving waiter). No client has to speak, no driver has to appear.
- `InputSession`: the goroutines are scheduled and timers fire. Devices need not
  produce events, and need not pause.
- `RescueConsoles`: PID 1 and its helpers are scheduled and their sleeps end. The
  gadget need not come back and nobody needs to type.
- `KernelLocal`: a started script keeps running, systemd starts the units of a
  boot, the device is powered on again and its owner reboots it. `PendingResolves`
  needs the last one: neither `install` nor `confirm` reboots.

## 4. Proofs

`SlotControlProofs` (any set of callers, any factory metadata with a proven
slot). The inductive invariant is `TypeOK /\ ProvenKept`. `AlwaysBoots` alone is
not inductive in two ways: the bootloader spends tries, so bootable has to be
strengthened to proven; and a pending invocation may write a block computed
from an old one, so the block held by *every* invocation must have a proven
slot too. One lemma per command and per bootloader step shows that it keeps a
proven slot; `arm` does because it requires the other slot to be proven. The
lemmas on packing (`PackIsByte`, `DecodePack`) carry the arithmetic. For the fields,
`CommandFields` says what each command makes of each slot's priority, tries and
success, from the bound that the parser puts on `--tries`, and `BootFields` what a boot
makes of them. Theorems: `FieldsNeverSpill` (an action property), `ProvenSlotKept`,
`NeverUnbootable`.

`InstallProofs`, `ImageWrite` (any image length, sessions, faults and cuts, and an
fsync that lands or does not). Invariant: `TypeOK`, what arrived is the session's image
once the digest has matched (`ArrivedWhole`), after the cache drop the cache is the disk
(`NothingBuffered`), a superblock in the cache or on the disk is the old one or a
verified session's (`OnlyVerified`), and from a scrub that was written to the next write
of block 0 the cache has no superblock and the disk has none that is not about to be
overwritten (`SuperblockGone`). Theorems: `SuccessIsOnDisk`, `OnlyVerifiedImagesMount`,
`FailureIsScrubbed`, none with an assumption on fsync.

`InstallProofs`, `InstallSession` (any accounts, any number of sessions). `LockInv`: the
lock is taken exactly when one of the two is in its critical section, never
both, and `wrLocked` says that it is the network install's. Theorems:
`OneInstallAtATime` for concurrent use; `BootImageIsLast` as long as no sessions
overlap, from `AloneInv`, by which the finished root stays so until the reboot. `AnswersInv` follows
`/tmp/answers`, which has no owner: from the write to the use it holds the answers
of the session under way. Theorem: `AnswersReachTheirRoot`, for sessions that do
not overlap.

`PanelProofs`, `InstallerInit` (any clients, status files, watchdog and waits).
`PanelInv` adds to `DialogStaysUp`
that who draws holds `paintMu`; without it a painter that had begun before the
dialog could still blit. `PettedInv` says that nothing waits before rc.sh is started
and that the timer is full at every step after it. Theorems: `DialogIsOnTheGlass`,
`PettedThroughTheGate`.

`PanelProofs`, `TouchDialog` (any fingers, positions, dialogs and length of the
queue, each of the three kinds of panel). `FrameFed` says what the tap detector
makes of a whole frame: a tap takes a finger that was down after the frame before
and a frame that lifts one. `PressInv` follows a press through the queue: while the
detector holds a finger for down, and behind every waiting frame that puts one down,
the first frame that lifts a finger knows a press before it, and if there is none yet
the history has one (`Covers`). Theorem: `EveryTapHasItsPress`. `AxesInv` follows the position: the
detector's, overwritten by the frames that wait in order (`LeavesAt`), is where the
only finger is, on each axis that has been reported, and at each waiting lift where
that finger was. The rest is the layout: buttons do not overlap, a pixel within the
margin of a key is in its cell of the grid (`KeyCell`, the arithmetic of `\div`), and
the cancel box is clear of the keyboard. Theorem: `TapsHitWhatIsDrawn`, with
hypothesis `BigEnough`: at least 10 by 240 pixels (the panel has 1200 by 1600), below
which a key has no pixels or the cancel box meets the keyboard.

`InputSessionProofs` (any devices, tests and buffers). `ReadersJoined`:
descriptors are closed only in the last step, and readers are started only
while the session opens. Theorem: `ReadersAreJoined`. `GapInv`: while the session
is live nothing has been lost at the channel, and a buffer whose device has lost
events begins with SYN_DROPPED, so the next read of it, however much it takes,
ends the session. It needs the type of what the kernel puts into a buffer, one
lemma per kind of frame. Theorem: `LostEventsEndTheSession`.

`SystemInitProofs` (any watchdog, lease, kernel filesystems and partition table).
Each property has an invariant of its own. `PetterInv`: a petter that sleeps has
just petted, one that gives up did so on a lease that had lapsed, one that still tries to
open the watchdog has time for its tries, and without one the watchdog is systemd's,
stopped, or was never opened (`Untaken`). `LeaseInv`: `rescue()`
has seeded the lease before there is a deadman. `FastbootInv`: who is about to
reset has armed the register and disarmed the command in `misc`, at every step of
the tool and beside the petter. `MountInv`: which filesystems have moved at each
step of PID 1 and of its rollback; those in the new root are the ones counted as moved
and the ones whose move back failed (`Accounted`). Theorems: `NoResetUnderABoot`,
`PetterWaitsOutTheLease` (an action property), `FastbootIsReached`,
`RightRootRightMounts`. For `RescueConsoles` (any number of consoles, at least one),
`ConsolesInv`: what PID 1 remembers of a console (`kid`) agrees with the number of
shells there, whoever reaped the last one, PID 1's helper serves the USB line, and a
helper started by hand, whatever console it was given, came from the USB line. Theorem: `NeverTwoShells`.

`BootSyncProofs` (any kernels, callers and number of upgrades, rushed or not, releases
and faults; no hypothesis on who upgrades when). `BcbProofs` says what `arm`, `mark-successful`
and the bootloader do to a block, in terms of the selected and the proven slots. On
that rests `Inv`, which holds while `rushed = 0`: only one script has anything under way and not without power (`Turns`);
what is up has booted (`UpOK`); the block is well formed; and each script, between
its start and the end of its mark or arm, works from the selected slot, which is
the running one, and deploys only from a proven one and into the other (`ProcOK`:
what it read before a step is still so at the step). Neither `SafeFallback` nor
`ArmedIsInstalled` is inductive without it. Theorems: `DeviceComesBack`,
`ArmsTheInstalledKernel`, `MarksWhatRuns` (an action property), and `RefinesABSwitch`, by one case per kind of step: only a
completed arm, a completed mark, a power cut, a boot and the first rushed upgrade are
steps of `ABSwitch`, all others stutter.

`KernelLocalProofs` (any kernel builds, installs, failing commands and power cuts,
the lemmas of `BcbProofs`). The invariant is about every state of the file system
that a power cut may bring back, not only the present one. `Recorded`: each has the
record of the update with its unit, and then the old kernel is proven in its slot and
nowhere else, or package and selected slot are in step. `ToolInv`: from the apk
transaction on every such state has this install's own record, because of the sync
before it, and `confirm` and the oneshot are kept out. `BootInv`, `ConfInv`: until an
install changes something the selected slot is the running one, so that `confirm`
marks what it booted, and it removes the record only when package and slot are in
step. `Settles` and `Home` do not depend on the window between the check and the mask
except for the kernel in the slot; what does has `~raced` as a premise, as in the
properties. Theorems: `AlwaysRecovers`, `RecordBeforeChange`, `PackageInStep`,
`ProvesWhatBooted` (an action property), and `UpdateInvariant`, `UpdateTypes` for the
invariant itself.

Assumptions are the named `ASSUME`s of the component modules; TLC evaluates them
in the runs.

Only model-checked:

- every liveness property: the prover has no rule for fairness;
- `ReadersAgree` of `BootImage`: what folded definitions compute for every input;
- `EvidenceIsReal`: the trackers' state depends on the whole sequence of events
  still in the channel and in the buffers, so the invariant is an induction over
  that sequence (in `TouchDialog` the detector's state is overwritten by single
  frames, and the invariant can name the last one).

## 5. Plan

1. `Bcb`, `SlotControl`, `BootSync`, `ABSwitch`, `KernelLocal`: modelled and proved.
2. `SystemInit`, `RootFs`, `RebootFastboot`, `RescueConsoles`: modelled and proved.
3. `ImageWrite`, `InstallSession`: modelled and proved; a model of the shell write
   path for comparison.
4. `InstallerInit`, `InputSession`: modelled and proved but for `EvidenceIsReal`.
   `DialogLayout`, `TouchDialog`: modelled and proved. `BootImage`: modelled.
5. Charging mode, power key and sleep on blank.

## 6. Running

    tlc -workers 2 -config BootSync.cfg MCBootSync
    tlapm SlotControlProofs.tla

## 7. Abstractions a reader should know

- CRC-32 and SHA-256 are injective.
- A kernel build that reaches userspace does so every time (`Good`).
- The bootloader is modelled from its description in the sources.
- `pwrite` of the 32-byte block is atomic (it lies in one sector).
- The file system of `KernelLocal` makes changes durable in the order they were
  made (ext4 with ordered data); the boot slots are written through.
- A process of the installers does not die by itself while the board stays up;
  a `netinstall.sh` killed for lack of memory would leave its lock behind.
- In the initramfs, files in the RAM file system can be written.
- `drop_caches` works in the installer, where `/proc` is mounted; the code
  treats it as best effort.

## 8. Not modelled

Glyphs, colours and mode timings; debug reports and the `bootctl` printer
(read-only); the device-tree stub, which runs once before the kernel, and the
device-tree padding of `pack.sh`; `mkboot info` and `lkwrap`; build, release and
verification scripts; the hardware tests that read sysfs once and print a
verdict; desktop extensions; one-shot service scripts that write sysfs once;
charging mode, power key and sleep on blank (services of the installed system,
in the plan); of `dc1-update` all but the upgrade of the kernel, which is an action of
`BootSync`; the
field syntax of the install header and of the answers; `provision.sh`'s edits of
the new root. `PROJECT.json` gives the reason for each.
