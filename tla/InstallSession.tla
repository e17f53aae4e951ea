--------------------------- MODULE InstallSession ---------------------------
(***************************************************************************)
(* Installation mode: the two ways to install, running at the same time on *)
(* one device.                                                             *)
(*                                                                         *)
(*   usb   dc1-installd serving one DC1-INSTALL-V1 session after another   *)
(*         (installer/gotools/internal/installd)                           *)
(*   net   the touch front-end tui.sh and the netinstall.sh it starts      *)
(*                                                                         *)
(* They share userdata, the lock directory /tmp/install.lock and the file  *)
(* /tmp/answers.  How the bytes of an image reach userdata is the subject  *)
(* of ImageWrite; here a write either completes or leaves userdata wiped.  *)
(***************************************************************************)
EXTENDS Integers

CONSTANTS
    Accounts,        \* answers provision.sh accepts
    Invalid,         \* answers it refuses
    NoAnswers,       \* no answers: no file, or an unprovisioned install
    MaxPerTransport  \* bound: sessions started on each transport

ASSUME InstallSessionAssumption ==
    /\ Invalid \notin Accounts /\ NoAnswers \notin Accounts
    /\ Invalid # NoAnswers
    /\ MaxPerTransport \in Nat

VARIABLES
    usb,        \* the step of serve() and the answers its header carried
    net,        \* the step of tui.sh/netinstall.sh and the answers typed
    lock,       \* /tmp/install.lock: "free", or "taken" when it exists
    wrLocked,   \* WR_LOCKED of netinstall.sh
    answers,    \* /tmp/answers
    root,       \* userdata: what it holds, who wrote it, whose account
    bootImg,    \* the boot image netinstall.sh downloaded
    bootA,      \* the boot_a partition
    usbReboot,  \* the delayed reboot of serve(): "none" or "due"
    board,      \* "up", or "reset" by one of the installers
    sessions,   \* sessions started on each transport
    overlapped  \* a session was started during another or before a reboot

sessionVars == <<usb, net, lock, wrLocked, answers, root, bootImg, bootA, usbReboot,
                 board, sessions, overlapped>>

people == <<sessions, overlapped>>

Answers == Accounts \cup {Invalid, NoAnswers}

UsbSteps == {"accept", "lock", "header", "answers", "validate", "target",
             "write", "finalize", "ok"}
NetSteps == {"menu", "confirm", "lock", "validate", "sums", "rootfs",
             "bootimg", "scrub", "stream", "finalize", "bootA", "unlock",
             "reboot"}

SessionTypeOK ==
    /\ usb \in [at : UsbSteps, asked : Answers]
    /\ net \in [at : NetSteps, asked : Answers]
    /\ lock \in {"free", "taken"} /\ wrLocked \in {0, 1}
    /\ answers \in Answers
    /\ root \in [holds : {"old", "wiped", "image", "finished"},
                 by : {"nobody", "usb", "net"}, account : Answers]
    /\ bootImg \in {"none", "dtbswap", "plain"}
    /\ bootA \in {"installer", "torn", "system"}
    /\ usbReboot \in {"none", "due"} /\ board \in {"up", "reset"}
    /\ sessions \in [{"usb", "net"} -> 0 .. MaxPerTransport]
    /\ overlapped \in BOOLEAN

SessionInit ==
    /\ usb = [at |-> "accept", asked |-> NoAnswers]
    /\ net = [at |-> "menu", asked |-> NoAnswers]
    /\ lock = "free"
    /\ wrLocked = 0
    /\ answers = NoAnswers
    /\ root = [holds |-> "old", by |-> "nobody", account |-> NoAnswers]
    /\ bootImg = "none"
    /\ bootA = "installer"
    /\ usbReboot = "none"
    /\ board = "up"
    /\ sessions = [t \in {"usb", "net"} |-> 0]
    /\ overlapped = FALSE

(* provision.sh --validate of the answers file. *)
ValidateAnswers(a) == a \in Accounts

(* userdata in a state w wrote. *)
Root(holds, w, account) == [holds |-> holds, by |-> w, account |-> account]

AwaitingReboot == usbReboot = "due" \/ net.at = "reboot"

(* Someone starts a session on t; the other transport may be in use. *)
Started(t, otherInUse) ==
    /\ sessions[t] < MaxPerTransport
    /\ sessions' = [sessions EXCEPT ![t] = @ + 1]
    /\ overlapped' = (overlapped \/ otherInUse \/ AwaitingReboot)

-----------------------------------------------------------------------------
(* serve(): one USB session. *)

UsbAt(s)   == board = "up" /\ usb.at = s
UsbGoto(s) == usb' = [usb EXCEPT !.at = s]

(* A host connects and sends a header: answers, or unprovisioned=1. *)
UsbAccept ==
    /\ UsbAt("accept")
    /\ Started("usb", net.at # "menu")
    /\ \E a \in Answers : usb' = [at |-> "lock", asked |-> a]
    /\ UNCHANGED <<net, lock, wrLocked, answers, root, bootImg, bootA,
                   usbReboot, board>>

(* os.Mkdir(lockDir): "another install is running" when it exists. *)
UsbLock ==
    /\ UsbAt("lock")
    /\ IF lock = "taken" THEN UsbGoto("accept") /\ UNCHANGED lock
                         ELSE UsbGoto("header") /\ lock' = "taken"
    /\ UNCHANGED <<net, wrLocked, answers, root, bootImg, bootA, usbReboot,
                   board, people>>

(* Variant: an error return forgets the lock directory. *)
UsbFailsLocked ==
    /\ board = "up"
    /\ usb.at \in {"header", "answers", "target", "write", "finalize"}
    /\ UsbGoto("accept")
    /\ UNCHANGED <<net, lock, wrLocked, answers, root, bootImg, bootA,
                   usbReboot, board, people>>

(* fail(...) and return: the deferred os.Remove frees the lock.  A header   *)
(* that does not parse, a host that goes silent for sessionIdleTimeout, no  *)
(* userdata, an image that is too large, a failed write or finalize.  An    *)
(* answers file that could not be written may be left truncated.            *)
UsbFails ==
    /\ board = "up"
    /\ usb.at \in {"header", "answers", "target", "write", "finalize"}
    /\ UsbGoto("accept")
    /\ lock' = "free"
    /\ answers' \in IF usb.at = "answers" THEN {answers, Invalid} ELSE {answers}
    /\ UNCHANGED <<net, wrLocked, root, bootImg, bootA, usbReboot, board,
                   people>>

UsbHeader ==
    /\ UsbAt("header")
    /\ UsbGoto(IF usb.asked = NoAnswers THEN "target" ELSE "answers")
    /\ UNCHANGED <<net, lock, wrLocked, answers, root, bootImg, bootA,
                   usbReboot, board, people>>

(* Variant: an answers file that is already there is kept. *)
UsbKeepAnswers ==
    /\ UsbAt("answers")
    /\ UsbGoto("validate")
    /\ answers' = IF answers = NoAnswers THEN usb.asked ELSE answers
    /\ UNCHANGED <<net, lock, wrLocked, root, bootImg, bootA, usbReboot, board,
                   people>>

UsbWriteAnswers ==
    /\ UsbAt("answers")
    /\ UsbGoto("validate")
    /\ answers' = usb.asked
    /\ UNCHANGED <<net, lock, wrLocked, root, bootImg, bootA, usbReboot, board,
                   people>>

(* provision.sh --validate runs on the file, not on what the header said. *)
UsbValidate ==
    /\ UsbAt("validate")
    /\ IF ValidateAnswers(answers)
       THEN UsbGoto("target") /\ UNCHANGED lock
       ELSE UsbGoto("accept") /\ lock' = "free"
    /\ UNCHANGED <<net, wrLocked, answers, root, bootImg, bootA, usbReboot,
                   board, people>>

(* Resolve, size check, open; Write starts by scrubbing the superblock. *)
UsbTarget ==
    /\ UsbAt("target")
    /\ UsbGoto("write")
    /\ root' = Root("wiped", "usb", NoAnswers)
    /\ UNCHANGED <<net, lock, wrLocked, answers, bootImg, bootA, usbReboot,
                   board, people>>

UsbWrite ==
    /\ UsbAt("write")
    /\ UsbGoto("finalize")
    /\ root' = Root("image", "usb", NoAnswers)
    /\ UNCHANGED <<net, lock, wrLocked, answers, bootImg, bootA, usbReboot,
                   board, people>>

(* wr_finalize: provision.sh validates the answers file again and applies   *)
(* it; a refused file fails the session and leaves the image written.       *)
UsbFinalize ==
    /\ UsbAt("finalize")
    /\ \/ /\ usb.asked = NoAnswers
          /\ root' = Root("finished", "usb", NoAnswers)
       \/ /\ usb.asked # NoAnswers
          /\ ValidateAnswers(answers)
          /\ root' = Root("finished", "usb", answers)
    /\ UsbGoto("ok")
    /\ UNCHANGED <<net, lock, wrLocked, answers, bootImg, bootA, usbReboot,
                   board, people>>

(* The OK line; the lock is freed on return, the reboot comes later. *)
UsbOk ==
    /\ UsbAt("ok")
    /\ UsbGoto("accept")
    /\ answers' = NoAnswers
    /\ usbReboot' = "due"
    /\ lock' = "free"
    /\ UNCHANGED <<net, wrLocked, root, bootImg, bootA, board, people>>

(* rebootToFastboot after rebootGrace; ArmNibble may fail, and then the     *)
(* board stays up.                                                          *)
UsbReboots ==
    /\ board = "up" /\ usbReboot = "due"
    /\ usbReboot' = "none"
    /\ board' \in {"up", "reset"}
    /\ UNCHANGED <<usb, net, lock, wrLocked, answers, root, bootImg, bootA,
                   people>>

-----------------------------------------------------------------------------
(* tui.sh and netinstall.sh. *)

NetAt(s)   == board = "up" /\ net.at = s
NetGoto(s) == net' = [net EXCEPT !.at = s]

(* net_flow up to make_answers: the form's fields are already checked, and  *)
(* the file is written without the lock.                                    *)
NetForm ==
    /\ NetAt("menu")
    /\ Started("net", usb.at # "accept")
    /\ \E a \in Accounts : /\ net' = [at |-> "confirm", asked |-> a]
                           /\ answers' = a
    /\ UNCHANGED <<usb, lock, wrLocked, root, bootImg, bootA, usbReboot, board>>

NetCancel ==
    /\ NetAt("confirm")
    /\ NetGoto("menu")
    /\ UNCHANGED <<usb, lock, wrLocked, answers, root, bootImg, bootA,
                   usbReboot, board, people>>

(* "Install now": netinstall.sh finds its answers file, or fails. *)
NetConfirm ==
    /\ NetAt("confirm")
    /\ NetGoto(IF answers = NoAnswers THEN "menu" ELSE "lock")
    /\ UNCHANGED <<usb, lock, wrLocked, answers, root, bootImg, bootA,
                   usbReboot, board, people>>

(* Variant: wr_unlock frees the lock whoever took it. *)
WrUnlockAlways == lock' = "free" /\ wrLocked' = 0

(* wr_unlock frees only a lock this process took. *)
WrUnlock ==
    /\ lock' = IF wrLocked = 1 THEN "free" ELSE lock
    /\ wrLocked' = 0

(* fail: wr_unlock, exit; tui.sh shows the reason and returns to its menu. *)
NetFail == NetGoto("menu") /\ WrUnlock

WrLock ==
    /\ NetAt("lock")
    /\ IF lock = "taken"
       THEN NetFail
       ELSE NetGoto("validate") /\ lock' = "taken" /\ wrLocked' = 1
    /\ UNCHANGED <<usb, answers, root, bootImg, bootA, usbReboot, board,
                   people>>

NetValidate ==
    /\ NetAt("validate")
    /\ IF ValidateAnswers(answers)
       THEN NetGoto("sums") /\ UNCHANGED <<lock, wrLocked>>
       ELSE NetFail
    /\ UNCHANGED <<usb, answers, root, bootImg, bootA, usbReboot, board,
                   people>>

(* SHA256SUMS, then the root filesystem, then the boot image, each checked  *)
(* against SHA256SUMS.  That the boot image is a dtbswap payload is not     *)
(* checked here.                                                            *)
NetGetVerified ==
    /\ \/ NetAt("sums")    /\ NetGoto("rootfs")  /\ UNCHANGED bootImg
       \/ NetAt("rootfs")  /\ NetGoto("bootimg") /\ UNCHANGED bootImg
       \/ NetAt("bootimg") /\ NetGoto("scrub")   /\ bootImg' \in {"dtbswap", "plain"}
    /\ UNCHANGED <<usb, lock, wrLocked, answers, root, bootA, usbReboot, board,
                   people>>

(* wr_open_target and wr_scrub. *)
WrScrub ==
    /\ NetAt("scrub")
    /\ NetGoto("stream")
    /\ root' = Root("wiped", "net", NoAnswers)
    /\ UNCHANGED <<usb, lock, wrLocked, answers, bootImg, bootA, usbReboot,
                   board, people>>

(* Variant: the boot image is written before the root is provisioned. *)
WrCommitThenBoot ==
    /\ NetAt("stream")
    /\ NetGoto("bootA")
    /\ root' = Root("image", "net", NoAnswers)
    /\ UNCHANGED <<usb, lock, wrLocked, answers, bootImg, bootA, usbReboot,
                   board, people>>

(* wr_receive_stream and wr_commit. *)
WrCommit ==
    /\ NetAt("stream")
    /\ NetGoto("finalize")
    /\ root' = Root("image", "net", NoAnswers)
    /\ UNCHANGED <<usb, lock, wrLocked, answers, bootImg, bootA, usbReboot,
                   board, people>>

(* wr_finalize with the answers file, then its removal. *)
WrFinalize ==
    /\ NetAt("finalize")
    /\ ValidateAnswers(answers)
    /\ NetGoto("bootA")
    /\ root' = Root("finished", "net", answers)
    /\ answers' = NoAnswers
    /\ UNCHANGED <<usb, lock, wrLocked, bootImg, bootA, usbReboot, board,
                   people>>

(* net_write_boot_a: assert_dtbswap, resolve and size check, then dd and     *)
(* read back, twice at most.                                                 *)
NetWriteBootA ==
    /\ NetAt("bootA")
    /\ \/ /\ bootImg = "dtbswap"
          /\ bootA' = "system"
          /\ NetGoto("unlock")
          /\ UNCHANGED <<lock, wrLocked>>
       \/ /\ bootImg = "dtbswap"
          /\ bootA' = "torn"
          /\ NetFail
       \/ NetFail /\ UNCHANGED bootA
    /\ UNCHANGED <<usb, answers, root, bootImg, usbReboot, board, people>>

NetUnlock ==
    /\ NetAt("unlock")
    /\ NetGoto("reboot")
    /\ WrUnlock
    /\ bootImg' = "none"
    /\ UNCHANGED <<usb, answers, root, bootA, usbReboot, board, people>>

(* sleep 3, reboot -f. *)
NetReboots ==
    /\ NetAt("reboot")
    /\ board' = "reset"
    /\ UNCHANGED <<usb, net, lock, wrLocked, answers, root, bootImg, bootA,
                   usbReboot, people>>

(* No network, a digest that does not match twice, no userdata, a failed    *)
(* write, zstd or read-back failing, answers refused by provision.sh.       *)
NetFails ==
    /\ board = "up"
    /\ net.at \in {"sums", "rootfs", "bootimg", "scrub", "stream", "finalize"}
    /\ NetFail
    /\ UNCHANGED <<usb, answers, root, bootImg, bootA, usbReboot, board,
                   people>>

-----------------------------------------------------------------------------
UsbSession == \/ UsbLock \/ UsbFails \/ UsbHeader \/ UsbWriteAnswers
              \/ UsbValidate \/ UsbTarget \/ UsbWrite \/ UsbFinalize \/ UsbOk

NetSession == \/ WrLock \/ NetValidate \/ NetGetVerified \/ WrScrub
              \/ WrCommit \/ WrFinalize \/ NetWriteBootA \/ NetUnlock
              \/ NetReboots \/ NetFails

SessionNext ==
    \/ UsbAccept \/ UsbSession \/ UsbReboots
    \/ NetForm \/ NetCancel \/ NetConfirm \/ NetSession

SessionSpec == SessionInit /\ [][SessionNext]_sessionVars

(* Steps that wait for something nobody bounds: a curl with a connect       *)
(* timeout only, and the execs of provision.sh and finalize.sh.             *)
UsbUnbounded == {"validate", "finalize"}
NetUnbounded == {"validate", "sums", "rootfs", "bootimg", "finalize"}

(* Every other step of a session that is under way is eventually taken:     *)
(* socket reads and writes have deadlines, writes to userdata and boot_a    *)
(* end.  Nobody need connect, fill the form or confirm it.                  *)
FairSpec ==
    /\ SessionSpec
    /\ WF_sessionVars(usb.at \notin UsbUnbounded /\ UsbSession)
    /\ WF_sessionVars(net.at \notin NetUnbounded /\ NetSession)
    /\ WF_sessionVars(UsbReboots)

-----------------------------------------------------------------------------
(* Properties. *)

UsbWriting == usb.at \in {"write", "finalize", "ok"}
NetWriting == net.at \in {"stream", "finalize", "bootA", "unlock"}

(* installd.go:131, writelib.sh:289, "One install at a time, across BOTH    *)
(* transports": the two never have userdata in hand together, whichever of  *)
(* them fails, retries or is refused while the other runs.                  *)
OneWriter == ~(UsbWriting /\ NetWriting)

(* installd.go:54-57: a session that dies releases the lock, so that the    *)
(* other transport, or the next attempt, is not refused for ever.  The only *)
(* sessions that keep it are those that stay for ever in one download or in *)
(* one run of provision.sh or finalize.sh.                                  *)
LockFreed ==
    \/ lock = "taken" ~> (lock = "free" \/ board = "reset")
    \/ \E s \in UsbUnbounded : <>[](usb.at = s)
    \/ \E s \in NetUnbounded : <>[](net.at = s)

(* docs/installation.md:72, "applies your answers": a finished root has the *)
(* account the person on the transport that wrote it asked for.             *)
ProvisionedAsAsked ==
    root.holds = "finished" =>
        \/ root.by = "usb" /\ (usb.at = "ok" => root.account = usb.asked)
        \/ root.by = "net" /\ (net.at \in {"bootA", "unlock", "reboot"}
                                 => root.account = net.asked)

(* The same, as long as one transport is used at a time: what an earlier    *)
(* session, refused, failed or abandoned at any step, left in /tmp/answers  *)
(* never reaches the root of a later one.                                   *)
ProvisionedApart == ~overlapped => ProvisionedAsAsked

(* netinstall.sh:312-313: the boot image replaces the installer in boot_a   *)
(* only over a root that is finished, and, if nobody starts a session in    *)
(* the meantime, nothing undoes that root before the reboot.  Otherwise the *)
(* device has neither a system nor an installer.                            *)
BootImageLast == ~overlapped /\ bootA = "system" => root.holds = "finished"
=============================================================================
