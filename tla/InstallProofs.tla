--------------------------- MODULE InstallProofs ----------------------------
(***************************************************************************)
(* What an installation leaves on the disk.  For an image of any number of *)
(* chunks, any number of sessions, power cuts and faults, and whether or   *)
(* not fsync lands: a session that reports success has its image on the    *)
(* disk, a superblock on the disk is that of an image that arrived whole,  *)
(* and a session that failed and could write its scrub leaves none.        *)
(*                                                                         *)
(* And for the two transports that write it, with any set of accounts and  *)
(* any number of sessions on each: the lock keeps them apart; and while    *)
(* people use one transport at a time, the boot image goes over a finished *)
(* root, the root gets the account that was asked for, and no session is   *)
(* cut off by the installers' own reboot.                                  *)
(***************************************************************************)
EXTENDS ImageWrite, InstallSession, TLAPS

(* From the digest check to the end, what arrived is what was declared. *)
ArrivedWhole ==
    pc \in {"super", "superSync", "globalSync", "drop", "readBack", "ok"}
        => \A b \in Blocks : arrived[b] = session

(* After the global sync nothing waits for write-back, so that dropping the *)
(* caches makes the read-back a read of the disk.                           *)
NothingBuffered ==
    /\ pc \in {"drop", "readBack", "ok"} => dirty = {}
    /\ pc = "readBack" => cache = disk
    /\ pc = "ok" => disk = arrived

(* From a scrub on, and after a failure, block 0 is zero in the cache; on    *)
(* the disk it is zero or will be, since nothing else writes it.             *)
SuperblockGone ==
    pc \in {"scrubSync", "first", "copy", "digest", "super", "rejectSync"}
            \/ (pc = "failed" /\ ~unscrubbed)
        => cache[0] = Zero /\ (0 \in dirty \/ disk[0] = Zero)

(* A superblock gets into the cache, and from there on the disk, only after  *)
(* the digest has matched.                                                   *)
OnlyVerified ==
    /\ disk[0] \in {Zero, 0} \cup verified
    /\ cache[0] \in {Zero, 0} \cup verified
    /\ pc \in {"copy", "digest", "super"} => first = arrived[0]
    /\ pc = "super" => session \in verified

Inv == TypeOK /\ ArrivedWhole /\ NothingBuffered /\ SuperblockGone /\ OnlyVerified

(* Write-back of any set of blocks yields a disk. *)
LEMMA FlushedType ==
    ASSUME TypeOK, NEW S \in SUBSET Blocks
    PROVE  Flushed(S) \in [Blocks -> Values]
  BY DEF Flushed, TypeOK

LEMMA ConstantFacts ==
    /\ 0 \in Blocks /\ 0 \in Images
    /\ Zero \in Values /\ Damaged \in Values /\ Images \subseteq Values
    /\ Zero \notin Images /\ Blocks \subseteq Int
    /\ \A d \in 0 .. Chunks : d < Chunks => d + 1 \in 1 .. Chunks /\ d + 1 \in Blocks
  BY ImageWriteAssumption DEF Blocks, Images, Values, Zero, Damaged

LEMMA InvInit == Init => Inv
<1> SUFFICES ASSUME Init PROVE Inv
  OBVIOUS
<1>1. TypeOK
  <2>1. unscrubbed \in BOOLEAN /\ verified \subseteq Images /\ dirty \subseteq Blocks
    BY DEF Init
  <2>2. /\ pc \in Steps /\ session \in Images /\ first \in Values /\ fsyncLands \in Lands
        /\ done \in 0 .. Chunks /\ faults \in 0 .. MaxFaults /\ cuts \in 0 .. MaxCuts
    BY ImageWriteAssumption, ConstantFacts DEF Init, Steps
  <2>3. /\ disk \in [Blocks -> Values] /\ cache \in [Blocks -> Values]
        /\ arrived \in [Blocks -> Values]
    BY ConstantFacts DEF Init, Nothing
  <2> QED
    BY <2>1, <2>2, <2>3 DEF TypeOK
<1>2. pc = "idle" /\ disk[0] = 0 /\ cache[0] = 0
  BY ConstantFacts DEF Init
<1> QED
  BY <1>1, <1>2 DEF Inv, ArrivedWhole, NothingBuffered, SuperblockGone, OnlyVerified

LEMMA TypeStep == TypeOK /\ [Next]_vars => TypeOK'
<1> SUFFICES ASSUME TypeOK, [Next]_vars PROVE TypeOK'
  OBVIOUS
<1> USE ConstantFacts, ImageWriteAssumption DEF history
<1>1. ASSUME NEW b \in Blocks, NEW v \in Values, WriteAt(b, v)
      PROVE  /\ disk' \in [Blocks -> Values] /\ cache' \in [Blocks -> Values]
             /\ dirty' \subseteq Blocks
  BY <1>1 DEF WriteAt, TypeOK
<1>2. ASSUME Fsync
      PROVE  /\ disk' \in [Blocks -> Values] /\ cache' \in [Blocks -> Values]
             /\ dirty' \subseteq Blocks
  BY <1>2, FlushedType DEF Fsync, TypeOK
<1>3. ASSUME UNCHANGED device
      PROVE  /\ disk' \in [Blocks -> Values] /\ cache' \in [Blocks -> Values]
             /\ dirty' \subseteq Blocks
  BY <1>3 DEF device, TypeOK
<1>4. ASSUME Fault PROVE faults' \in 0 .. MaxFaults
  BY <1>4 DEF Fault, TypeOK
<1>5. session \in Values /\ first \in Values /\ Zero \in Values /\ Damaged \in Values
  BY DEF TypeOK
<1>6. CASE Writeback
  <2>1. \A b \in dirty : Flushed({b}) \in [Blocks -> Values]
    BY FlushedType DEF TypeOK
  <2> QED
    BY <1>6, <2>1 DEF Writeback, TypeOK
<1>7. CASE Begin
  <2>1. unscrubbed' \in BOOLEAN
    BY <1>7 DEF Begin
  <2>2. /\ pc' \in Steps /\ session' \in Images /\ first' \in Values
        /\ arrived' \in [Blocks -> Values] /\ done' \in 0 .. Chunks
        /\ UNCHANGED <<faults, cuts, fsyncLands, verified>>
    BY <1>7 DEF Begin, TypeOK, Nothing, Images, Steps
  <2>3. /\ disk' \in [Blocks -> Values] /\ cache' \in [Blocks -> Values]
        /\ dirty' \subseteq Blocks
    BY <1>3, <1>7 DEF Begin
  <2> QED
    BY <2>1, <2>2, <2>3 DEF TypeOK
<1>8. CASE Scrub
  BY <1>8, <1>1, <1>5 DEF Scrub, Goto, TypeOK, Steps
<1>9. CASE ScrubSync
  BY <1>9, <1>2 DEF ScrubSync, Goto, TypeOK, Steps
<1>10. CASE ReadFirst
  BY <1>10, <1>3, <1>4, <1>5 DEF ReadFirst, Goto, TypeOK, Steps
<1>11. CASE CopyAt
  <2>1. done \in 0 .. Chunks /\ done < Chunks /\ done + 1 \in Blocks
    BY <1>11 DEF CopyAt, TypeOK
  <2>2. PICK v \in {session, Damaged} :
          /\ IF v = Damaged THEN Fault ELSE UNCHANGED faults
          /\ WriteAt(done + 1, v)
          /\ arrived' = [arrived EXCEPT ![done + 1] = v]
    BY <1>11 DEF CopyAt
  <2>3. v \in Values
    BY <1>5
  <2>4. /\ disk' \in [Blocks -> Values] /\ cache' \in [Blocks -> Values]
        /\ dirty' \subseteq Blocks
    BY <1>1, <2>1, <2>2, <2>3
  <2>5. arrived' \in [Blocks -> Values] /\ faults' \in 0 .. MaxFaults
    BY <1>4, <2>1, <2>2, <2>3 DEF TypeOK
  <2>6. /\ done' \in 0 .. Chunks /\ pc' \in Steps /\ UNCHANGED <<session, cuts, first, fsyncLands, history>>
    BY <1>11, <2>1 DEF CopyAt, Goto, Steps
  <2> QED
    BY <2>4, <2>5, <2>6 DEF TypeOK
<1>12. CASE ShortStream
  <2>1. done \in 0 .. Chunks /\ done < Chunks /\ done + 1 \in Blocks
    BY <1>12 DEF ShortStream, TypeOK
  <2>2. /\ disk' \in [Blocks -> Values] /\ cache' \in [Blocks -> Values]
        /\ dirty' \subseteq Blocks
    BY <1>12, <1>1, <1>3, <1>5, <2>1 DEF ShortStream
  <2> QED
    BY <1>12, <1>4, <2>2 DEF ShortStream, Goto, TypeOK, Steps
<1>13. CASE Digest
  BY <1>13, <1>3 DEF Digest, Goto, TypeOK, Steps
<1>14. CASE Superblock
  BY <1>14, <1>1, <1>5 DEF Superblock, Goto, TypeOK, Steps
<1>15. CASE SuperSync
  BY <1>15, <1>2 DEF SuperSync, Goto, TypeOK, Steps
<1>16. CASE GlobalSync
  <2>1. \A S \in SUBSET dirty : Flushed(S) \in [Blocks -> Values]
    BY FlushedType DEF TypeOK
  <2>2. disk' \in [Blocks -> Values]
    BY <1>16, <2>1 DEF GlobalSync
  <2>3. faults' \in 0 .. MaxFaults
    BY <1>16, <1>4 DEF GlobalSync, TypeOK
  <2> QED
    BY <1>16, <2>2, <2>3 DEF GlobalSync, Goto, TypeOK, Steps
<1>17. CASE DropCaches
  BY <1>17 DEF DropCaches, Goto, TypeOK, Steps
<1>18. CASE ReadBack
  BY <1>18, <1>3 DEF ReadBack, ReadBackMatches, Goto, TypeOK, Steps
<1>19. CASE Errs
  BY <1>19, <1>3, <1>4 DEF Errs, AfterError, Goto, TypeOK, Steps
<1>20. CASE Reject
  BY <1>20, <1>1, <1>5 DEF Reject, Goto, TypeOK, Steps
<1>21. CASE RejectSync
  BY <1>21, <1>2 DEF RejectSync, Goto, TypeOK, Steps
<1>22. CASE PowerCut
  BY <1>22 DEF PowerCut, TypeOK, Steps
<1>23. CASE PowerOn
  BY <1>23, <1>3 DEF PowerOn, TypeOK, Steps
<1>24. CASE UNCHANGED vars
  BY <1>24 DEF vars, TypeOK
<1> QED
  BY <1>6, <1>7, <1>8, <1>9, <1>10, <1>11, <1>12, <1>13, <1>14, <1>15, <1>16,
     <1>17, <1>18, <1>19, <1>20, <1>21, <1>22, <1>23, <1>24 DEF Next

LEMMA InvStep == Inv /\ [Next]_vars => Inv'
<1> SUFFICES ASSUME Inv, [Next]_vars PROVE Inv'
  OBVIOUS
<1>0. TypeOK /\ TypeOK'
  BY TypeStep DEF Inv
<1> USE ConstantFacts
<1> DEFINE Rest == ArrivedWhole /\ NothingBuffered /\ SuperblockGone /\ OnlyVerified
<1> SUFFICES Rest'
  BY <1>0 DEF Inv
<1>1. Rest
  BY DEF Inv
<1> USE DEF ArrivedWhole, NothingBuffered, SuperblockGone, OnlyVerified, history
<1>21. ASSUME Fsync
       PROVE  /\ cache' = cache /\ disk'[0] \in {disk[0], cache[0]}
              /\ 0 \in dirty => 0 \in dirty' \/ disk'[0] = cache[0]
              /\ 0 \notin dirty => disk'[0] = disk[0]
  <2>1. PICK S \in SUBSET dirty : disk' = Flushed(S) /\ dirty' = dirty \ S /\ cache' = cache
    BY <1>21 DEF Fsync
  <2> QED
    BY <2>1, <1>0 DEF Flushed
<1>2. CASE Writeback
  <2>1. PICK b \in dirty : /\ disk' = Flushed({b}) /\ dirty' = dirty \ {b}
                           /\ UNCHANGED <<pc, session, cache, first, arrived, history>>
    BY <1>2 DEF Writeback
  <2>2. 0 \in dirty \/ disk'[0] = disk[0]
    BY <2>1, <1>0 DEF Flushed
  <2>3. disk'[0] = disk[0] \/ disk'[0] = cache[0]
    BY <2>1, <1>0 DEF Flushed
  <2>4. 0 \in dirty => 0 \in dirty' \/ disk'[0] = cache[0]
    BY <2>1, <1>0 DEF Flushed
  <2> QED
    BY <1>1, <2>1, <2>2, <2>3, <2>4
<1>22. ASSUME UNCHANGED device PROVE UNCHANGED <<disk, cache, dirty>>
  BY <1>22 DEF device
<1>23. ASSUME NEW v \in Values, WriteAt(0, v)
       PROVE  cache'[0] = v /\ 0 \in dirty' /\ disk' = disk
  BY <1>0, <1>23 DEF WriteAt, TypeOK
<1>24. ASSUME NEW d \in Blocks, d # 0, NEW v, WriteAt(d, v)
       PROVE  cache'[0] = cache[0] /\ disk' = disk /\ (0 \in dirty => 0 \in dirty')
  BY <1>0, <1>24 DEF WriteAt, TypeOK
<1>3. CASE Begin
  BY <1>1, <1>3, <1>22 DEF Begin
<1>4. CASE Scrub
  BY <1>1, <1>4, <1>23 DEF Scrub, Goto
<1>5. CASE ScrubSync
  BY <1>1, <1>5, <1>21 DEF ScrubSync, Goto
<1>6. CASE ReadFirst
  <2>1. first' = arrived'[0]
    BY <1>0, <1>6 DEF ReadFirst, TypeOK
  <2> QED
    BY <1>1, <1>6, <1>22, <2>1 DEF ReadFirst, Goto
<1>7. CASE CopyAt
  <2>1. PICK v : WriteAt(done + 1, v) /\ arrived' = [arrived EXCEPT ![done + 1] = v]
    BY <1>7 DEF CopyAt
  <2>2. done + 1 \in Blocks /\ done + 1 # 0
    BY <1>0, <1>7 DEF CopyAt, TypeOK
  <2>3. cache'[0] = cache[0] /\ disk' = disk /\ (0 \in dirty => 0 \in dirty')
    BY <1>24, <2>1, <2>2
  <2>4. arrived'[0] = arrived[0]
    BY <1>0, <2>1, <2>2 DEF TypeOK
  <2> QED
    BY <1>1, <1>7, <2>3, <2>4 DEF CopyAt, Goto
<1>8. CASE ShortStream
  <2>1. done + 1 \in Blocks /\ done + 1 # 0
    BY <1>0, <1>8 DEF ShortStream, TypeOK
  <2>2. cache'[0] = cache[0] /\ disk' = disk
    BY <1>8, <1>22, <1>24, <2>1 DEF ShortStream
  <2> QED
    BY <1>1, <1>8, <2>2 DEF ShortStream, Goto
<1>9. CASE Digest
  <2>1. /\ UNCHANGED <<disk, cache, dirty, session, first, arrived>> /\ pc = "digest"
        /\ verified \subseteq verified'
    BY <1>9, <1>22 DEF Digest
  <2>2. \/ /\ pc' = "super" /\ session \in verified' /\ \A b \in Blocks : arrived[b] = session
        \/ pc' = "reject"
    BY <1>9 DEF Digest, DigestMatches
  <2> QED
    BY <1>1, <2>1, <2>2
<1>10. CASE Superblock
  <2>1. first = session /\ session \in verified
    BY <1>1, <1>10 DEF Superblock
  <2>2. cache'[0] = first /\ disk' = disk
    BY <1>0, <1>10, <1>23 DEF Superblock, TypeOK
  <2> QED
    BY <1>1, <1>10, <2>1, <2>2 DEF Superblock, Goto
<1>11. CASE SuperSync
  BY <1>1, <1>11, <1>21 DEF SuperSync, Goto
<1>12. CASE GlobalSync
  <2>1. PICK S \in SUBSET dirty : disk' = Flushed(S)
    BY <1>12 DEF GlobalSync
  <2>2. disk'[0] \in {disk[0], cache[0]}
    BY <2>1 DEF Flushed
  <2> QED
    BY <1>1, <1>12, <2>2 DEF GlobalSync, Goto
<1>13. CASE DropCaches
  <2>1. cache' = disk
    BY <1>0, <1>1, <1>13 DEF DropCaches, TypeOK
  <2> QED
    BY <1>1, <1>13, <2>1 DEF DropCaches, Goto
<1>14. CASE ReadBack
  BY <1>1, <1>14, <1>22 DEF ReadBack, ReadBackMatches, Goto
<1>15. CASE Errs
  <2>1. /\ UNCHANGED <<disk, cache, dirty, session, first, arrived, verified>>
        /\ pc' \in {"failed", "reject"}
    BY <1>15, <1>22 DEF Errs, AfterError
  <2>2. pc' = "failed" /\ ~unscrubbed' => pc \in {"scrubSync", "first", "rejectSync"}
    BY <1>15 DEF Errs, AfterError
  <2> QED
    BY <1>1, <2>1, <2>2
<1>16. CASE Reject
  BY <1>1, <1>16, <1>23 DEF Reject, Goto
<1>17. CASE RejectSync
  BY <1>1, <1>17, <1>21 DEF RejectSync, Goto
<1>18. CASE PowerCut
  BY <1>1, <1>18 DEF PowerCut
<1>19. CASE PowerOn
  BY <1>1, <1>19, <1>22 DEF PowerOn
<1>20. CASE UNCHANGED vars
  BY <1>1, <1>20 DEF vars
<1> QED
  BY <1>2, <1>3, <1>4, <1>5, <1>6, <1>7, <1>8, <1>9, <1>10, <1>11, <1>12,
     <1>13, <1>14, <1>15, <1>16, <1>17, <1>18, <1>19, <1>20 DEF Next

-----------------------------------------------------------------------------
(* imagewrite.Write returns success only with the declared image on the     *)
(* disk, whatever the write-back does and whether or not fsync lands.       *)
THEOREM SuccessIsOnDisk == Spec => []OkMeansOnDisk
<1>1. Inv => OkMeansOnDisk
  BY DEF Inv, ArrivedWhole, NothingBuffered, OkMeansOnDisk
<1> QED
  BY <1>1, InvInit, InvStep, PTL DEF Spec

(* A superblock on the disk, or read from it, is the old one or one of an    *)
(* image that had arrived whole: "written LAST" holds of the disk whatever   *)
(* order the pages reach it in, over power cuts and retries                  *)
(* (imagewrite.go:16-18, 106-110).                                           *)
THEOREM OnlyVerifiedImagesMount == Spec => []VerifiedBeforeMountable
<1>1. Inv => VerifiedBeforeMountable
  BY DEF Inv, OnlyVerified, VerifiedBeforeMountable
<1> QED
  BY <1>1, InvInit, InvStep, PTL DEF Spec

(* After any failed session whose scrub could be written, the superblock     *)
(* reads as zero and is zero on the disk once it has been written back, for  *)
(* any number of faults and whether or not fsync lands                       *)
(* (imagewrite.go:21, 88-135).                                               *)
THEOREM FailureIsScrubbed == Spec => []FailedReadsScrubbed
<1>1. Inv => FailedReadsScrubbed
  BY DEF Inv, SuperblockGone, FailedReadsScrubbed
<1> QED
  BY <1>1, InvInit, InvStep, PTL DEF Spec

-----------------------------------------------------------------------------
(* The sessions on the two transports: a second state machine, over          *)
(* variables of its own.                                                     *)

UsbHolds == usb.at \in {"header", "answers", "validate", "target", "write",
                        "finalize", "ok"}
NetHolds == net.at \in {"validate", "sums", "rootfs", "bootimg", "scrub",
                        "stream", "finalize", "bootA", "unlock"}

(* Only the session that made the lock directory is past the lock, and      *)
(* WR_LOCKED says whether that is netinstall.sh.                            *)
LockInv ==
    /\ wrLocked = 1 <=> NetHolds
    /\ lock = "taken" <=> UsbHolds \/ NetHolds
    /\ ~(UsbHolds /\ NetHolds)

SessionInv == SessionTypeOK /\ LockInv

LEMMA SessionInvInit == SessionInit => SessionInv
<1> SUFFICES ASSUME SessionInit PROVE SessionInv
  OBVIOUS
<1>1. overlapped \in BOOLEAN
  BY DEF SessionInit
<1>2. sessions \in [{"usb", "net"} -> 0 .. MaxPerTransport]
  BY InstallSessionAssumption DEF SessionInit
<1>3. /\ usb \in [at : UsbSteps, asked : Answers]
      /\ net \in [at : NetSteps, asked : Answers]
  BY DEF SessionInit, UsbSteps, NetSteps, Answers
<1>4. SessionTypeOK
  BY <1>1, <1>2, <1>3 DEF SessionInit, SessionTypeOK, Answers
<1>5. LockInv
  BY DEF SessionInit, LockInv, UsbHolds, NetHolds
<1> QED
  BY <1>4, <1>5 DEF SessionInv

LEMMA SessionTypeStep == SessionTypeOK /\ [SessionNext]_sessionVars => SessionTypeOK'
<1> SUFFICES ASSUME SessionTypeOK, [SessionNext]_sessionVars PROVE SessionTypeOK'
  OBVIOUS
<1> USE InstallSessionAssumption
    DEF people, SessionTypeOK, UsbSteps, NetSteps, UsbGoto, NetGoto,
        UsbAt, NetAt, Root
<1>1. CASE UsbAccept
  BY <1>1 DEF UsbAccept, Started
<1>2. CASE NetForm
  BY <1>2 DEF NetForm, Started, Answers
<1>3. CASE UsbSession
  <2>1. CASE UsbLock
    BY <2>1 DEF UsbLock
  <2>2. CASE UsbFails
    BY <2>2 DEF UsbFails, Answers
  <2>3. CASE UsbHeader
    BY <2>3 DEF UsbHeader
  <2>4. CASE UsbWriteAnswers
    BY <2>4 DEF UsbWriteAnswers
  <2>5. CASE UsbValidate
    BY <2>5 DEF UsbValidate
  <2>6. CASE UsbTarget
    BY <2>6 DEF UsbTarget, Answers
  <2>7. CASE UsbWrite
    BY <2>7 DEF UsbWrite, Answers
  <2>8. CASE UsbFinalize
    BY <2>8 DEF UsbFinalize, Answers
  <2>9. CASE UsbOk
    BY <2>9 DEF UsbOk, Answers
  <2> QED
    BY <1>3, <2>1, <2>2, <2>3, <2>4, <2>5, <2>6, <2>7, <2>8, <2>9 DEF UsbSession
<1>4. CASE NetSession
  <2> USE DEF NetFail, WrUnlock
  <2>1. CASE WrLock
    BY <2>1 DEF WrLock
  <2>2. CASE NetValidate
    BY <2>2 DEF NetValidate
  <2>3. CASE NetGetVerified
    BY <2>3 DEF NetGetVerified
  <2>4. CASE WrScrub
    BY <2>4 DEF WrScrub, Answers
  <2>5. CASE WrCommit
    BY <2>5 DEF WrCommit, Answers
  <2>6. CASE WrFinalize
    BY <2>6 DEF WrFinalize, Answers
  <2>7. CASE NetWriteBootA
    BY <2>7 DEF NetWriteBootA
  <2>8. CASE NetUnlock
    BY <2>8 DEF NetUnlock
  <2>9. CASE NetReboots
    BY <2>9 DEF NetReboots
  <2>10. CASE NetFails
    BY <2>10 DEF NetFails
  <2> QED
    BY <1>4, <2>1, <2>2, <2>3, <2>4, <2>5, <2>6, <2>7, <2>8, <2>9, <2>10
       DEF NetSession
<1>5. CASE UsbReboots
  BY <1>5 DEF UsbReboots
<1>6. CASE NetCancel
  BY <1>6 DEF NetCancel
<1>7. CASE NetConfirm
  BY <1>7 DEF NetConfirm
<1>8. CASE UNCHANGED sessionVars
  BY <1>8 DEF sessionVars
<1> QED
  BY <1>1, <1>2, <1>3, <1>4, <1>5, <1>6, <1>7, <1>8 DEF SessionNext

LEMMA LockStep == SessionInv /\ [SessionNext]_sessionVars => LockInv'
<1> SUFFICES ASSUME SessionInv, [SessionNext]_sessionVars PROVE LockInv'
  OBVIOUS
<1> USE DEF people, SessionInv, SessionTypeOK, LockInv, UsbHolds, NetHolds,
        UsbGoto, NetGoto, UsbAt, NetAt
<1>1. CASE UsbAccept \/ NetForm
  BY <1>1 DEF UsbAccept, NetForm
<1>2. CASE UsbSession
  <2>1. CASE UsbLock
    BY <2>1 DEF UsbLock
  <2>2. CASE UsbFails
    BY <2>2 DEF UsbFails, Answers
  <2>3. CASE UsbHeader \/ UsbWriteAnswers \/ UsbTarget \/ UsbWrite \/ UsbFinalize
    BY <2>3 DEF UsbHeader, UsbWriteAnswers, UsbTarget, UsbWrite, UsbFinalize
  <2>4. CASE UsbValidate
    BY <2>4 DEF UsbValidate
  <2>5. CASE UsbOk
    BY <2>5 DEF UsbOk
  <2> QED
    BY <1>2, <2>1, <2>2, <2>3, <2>4, <2>5 DEF UsbSession
<1>3. CASE NetSession
  <2> USE DEF NetFail, WrUnlock
  <2>1. CASE WrLock
    BY <2>1 DEF WrLock
  <2>2. CASE NetValidate
    BY <2>2 DEF NetValidate
  <2>3. CASE NetGetVerified \/ WrScrub \/ WrCommit \/ WrFinalize
    BY <2>3 DEF NetGetVerified, WrScrub, WrCommit, WrFinalize
  <2>4. CASE NetWriteBootA
    BY <2>4 DEF NetWriteBootA
  <2>5. CASE NetUnlock
    BY <2>5 DEF NetUnlock
  <2>6. CASE NetReboots
    BY <2>6 DEF NetReboots
  <2>7. CASE NetFails
    BY <2>7 DEF NetFails
  <2> QED
    BY <1>3, <2>1, <2>2, <2>3, <2>4, <2>5, <2>6, <2>7 DEF NetSession
<1>4. CASE UsbReboots \/ NetCancel \/ NetConfirm
  BY <1>4 DEF UsbReboots, NetCancel, NetConfirm
<1>5. CASE UNCHANGED sessionVars
  BY <1>5 DEF sessionVars
<1> QED
  BY <1>1, <1>2, <1>3, <1>4, <1>5 DEF SessionNext

(* installd and netinstall.sh never have userdata in hand together: the     *)
(* directory made with mkdir, and WR_LOCKED, are enough.                    *)
THEOREM OneInstallAtATime == SessionSpec => []OneWriter
<1>1. SessionInv => OneWriter
  BY DEF SessionInv, LockInv, UsbHolds, NetHolds, OneWriter, UsbWriting, NetWriting
<1>2. SessionInv /\ [SessionNext]_sessionVars => SessionInv'
  BY SessionTypeStep, LockStep DEF SessionInv
<1> QED
  BY <1>1, <1>2, SessionInvInit, PTL DEF SessionSpec

-----------------------------------------------------------------------------
(* One transport at a time. *)

(* Two people do not overlap, so the root netinstall.sh finished is still   *)
(* finished when boot_a has been written.                                   *)
AloneInv == ~overlapped =>
    /\ net.at # "menu" => usb.at = "accept"
    /\ net.at \in {"bootA", "unlock", "reboot"} => root.holds = "finished"
    /\ bootA = "system" => net.at \in {"unlock", "reboot"}

LEMMA AloneStep == SessionInv /\ AloneInv /\ [SessionNext]_sessionVars => AloneInv'
<1> SUFFICES ASSUME SessionInv, AloneInv, [SessionNext]_sessionVars PROVE AloneInv'
  OBVIOUS
<1> USE DEF people, SessionInv, SessionTypeOK, AloneInv, UsbGoto, NetGoto,
        UsbAt, NetAt, Root
<1>1. CASE UsbAccept
  BY <1>1 DEF UsbAccept, Started, AwaitingReboot
<1>2. CASE NetForm
  <2>1. ~overlapped' => ~overlapped /\ usb.at = "accept"
    BY <1>2 DEF NetForm, Started
  <2>2. /\ net.at = "menu" /\ net'.at = "confirm"
        /\ UNCHANGED <<usb, root, bootA, usbReboot, board>>
    BY <1>2 DEF NetForm
  <2> QED
    BY <2>1, <2>2
<1>3. CASE UsbSession
  BY <1>3 DEF UsbSession, UsbLock, UsbFails, UsbHeader, UsbWriteAnswers,
              UsbValidate, UsbTarget, UsbWrite, UsbFinalize, UsbOk
<1>4. CASE NetSession
  <2> USE DEF NetFail, WrUnlock
  <2>1. CASE WrLock \/ NetValidate \/ NetFails \/ NetUnlock \/ NetReboots
    BY <2>1 DEF WrLock, NetValidate, NetFails, NetUnlock, NetReboots
  <2>2. CASE NetGetVerified \/ WrScrub \/ WrCommit \/ WrFinalize
    BY <2>2 DEF NetGetVerified, WrScrub, WrCommit, WrFinalize
  <2>3. CASE NetWriteBootA
    BY <2>3 DEF NetWriteBootA
  <2> QED
    BY <1>4, <2>1, <2>2, <2>3 DEF NetSession
<1>5. CASE UsbReboots
  BY <1>5 DEF UsbReboots
<1>6. CASE NetCancel \/ NetConfirm
  BY <1>6 DEF NetCancel, NetConfirm
<1>7. CASE UNCHANGED sessionVars
  BY <1>7 DEF sessionVars
<1> QED
  BY <1>1, <1>2, <1>3, <1>4, <1>5, <1>6, <1>7 DEF SessionNext

LEMMA AloneAlways == SessionSpec => [](SessionInv /\ AloneInv)
<1>1. SessionInit => SessionInv /\ AloneInv
  BY SessionInvInit DEF SessionInit, AloneInv
<1>2. (SessionInv /\ AloneInv) /\ [SessionNext]_sessionVars => (SessionInv /\ AloneInv)'
  BY SessionTypeStep, LockStep, AloneStep DEF SessionInv
<1> QED
  BY <1>1, <1>2, PTL DEF SessionSpec

(* While one transport is in use at a time, boot_a gets the system's boot   *)
(* image only over a finished root, and the root stays finished until the   *)
(* reboot.                                                                  *)
THEOREM BootImageIsLast == SessionSpec => []BootImageLast
<1>1. SessionInv /\ AloneInv => BootImageLast
  BY DEF AloneInv, BootImageLast
<1> QED
  BY <1>1, AloneAlways, PTL

-----------------------------------------------------------------------------
(* Whose account a root gets. *)

NetAsks == {"confirm", "lock", "validate", "sums", "rootfs", "bootimg", "scrub",
            "stream", "finalize"}

(* /tmp/answers has no owner.  With one person at a time it holds the answers *)
(* of the session under way from the moment that session wrote them until it  *)
(* has applied them, and a session that has answers writes them before it     *)
(* looks at the file.                                                         *)
AnswersInv == ~overlapped =>
    /\ usb.at \in {"validate", "target", "write", "finalize"} /\ usb.asked # NoAnswers
          => answers = usb.asked
    /\ usb.at \in {"answers", "validate"} => usb.asked # NoAnswers
    /\ usb.at = "ok" => root.by = "usb" /\ root.account = usb.asked
    /\ net.at \in NetAsks => answers = net.asked
    /\ net.at \in {"bootA", "unlock", "reboot"}
          => root.by = "net" /\ root.account = net.asked
    /\ root.holds = "finished" => root.by \in {"usb", "net"}

LEMMA AnswersStep == SessionInv /\ AloneInv /\ AnswersInv /\ [SessionNext]_sessionVars => AnswersInv'
<1> SUFFICES ASSUME SessionInv, AloneInv, AnswersInv, [SessionNext]_sessionVars, ~overlapped' PROVE AnswersInv'
  BY DEF AnswersInv
<1>0. ~overlapped
  BY DEF SessionNext, UsbSession, NetSession, UsbAccept, UsbLock, UsbFails, UsbHeader,
     UsbWriteAnswers, UsbValidate, UsbTarget, UsbWrite, UsbFinalize, UsbOk, UsbReboots,
     NetForm, NetCancel, NetConfirm, WrLock, NetValidate, NetGetVerified, WrScrub,
     WrCommit, WrFinalize, NetWriteBootA, NetUnlock, NetReboots, NetFails,
     Started, people, sessionVars
<1>1. net.at # "menu" => usb.at = "accept"
  BY <1>0 DEF AloneInv
<1> USE <1>0, <1>1
    DEF people, SessionInv, SessionTypeOK, AnswersInv, NetAsks, UsbGoto, NetGoto,
        UsbAt, NetAt, Root
<1>2. CASE UsbAccept
  BY <1>2 DEF UsbAccept, Started
<1>3. CASE NetForm
  <2>1. usb.at = "accept" /\ UNCHANGED <<usb, root>>
    BY <1>3 DEF NetForm, Started
  <2>2. PICK a \in Accounts : net' = [at |-> "confirm", asked |-> a] /\ answers' = a
    BY <1>3 DEF NetForm
  <2> QED
    BY <2>1, <2>2
<1>4. CASE UsbSession
  <2>1. CASE UsbLock
    BY <2>1 DEF UsbLock
  <2>2. CASE UsbFails
    BY <2>2 DEF UsbFails
  <2>3. CASE UsbHeader
    BY <2>3 DEF UsbHeader
  <2>4. CASE UsbWriteAnswers
    BY <2>4 DEF UsbWriteAnswers
  <2>5. CASE UsbValidate
    BY <2>5 DEF UsbValidate
  <2>6. CASE UsbTarget \/ UsbWrite
    BY <2>6 DEF UsbTarget, UsbWrite
  <2>7. CASE UsbFinalize
    BY <2>7 DEF UsbFinalize
  <2>8. CASE UsbOk
    BY <2>8 DEF UsbOk
  <2> QED
    BY <1>4, <2>1, <2>2, <2>3, <2>4, <2>5, <2>6, <2>7, <2>8 DEF UsbSession
<1>5. CASE NetSession
  <2> USE DEF NetFail, WrUnlock
  <2>1. CASE WrLock \/ NetValidate \/ NetFails
    BY <2>1 DEF WrLock, NetValidate, NetFails
  <2>2. CASE NetUnlock \/ NetReboots
    BY <2>2 DEF NetUnlock, NetReboots
  <2>3. CASE NetGetVerified
    BY <2>3 DEF NetGetVerified
  <2>4. CASE WrScrub \/ WrCommit
    BY <2>4 DEF WrScrub, WrCommit
  <2>5. CASE WrFinalize
    BY <2>5 DEF WrFinalize
  <2>6. CASE NetWriteBootA
    BY <2>6 DEF NetWriteBootA
  <2> QED
    BY <1>5, <2>1, <2>2, <2>3, <2>4, <2>5, <2>6 DEF NetSession
<1>6. CASE UsbReboots
  BY <1>6 DEF UsbReboots
<1>7. CASE NetCancel \/ NetConfirm
  BY <1>7 DEF NetCancel, NetConfirm
<1>8. CASE UNCHANGED sessionVars
  BY <1>8 DEF sessionVars
<1> QED
  BY <1>2, <1>3, <1>4, <1>5, <1>6, <1>7, <1>8 DEF SessionNext

(* While one transport is in use at a time, a finished root has the account  *)
(* that the person on the transport that wrote it asked for: nothing an      *)
(* earlier session left in /tmp/answers, wherever it stopped, reaches the    *)
(* root of a later one.                                                      *)
THEOREM AnswersReachTheirRoot == SessionSpec => []ProvisionedApart
<1>1. SessionInit => AnswersInv
  BY DEF SessionInit, AnswersInv, NetAsks
<1>2. SessionInv /\ AloneInv /\ AnswersInv /\ [SessionNext]_sessionVars => AnswersInv'
  BY AnswersStep
<1>3. AnswersInv => ProvisionedApart
  BY DEF AnswersInv, ProvisionedApart, ProvisionedAsAsked
<1> QED
  BY <1>1, <1>2, <1>3, AloneAlways, PTL DEF SessionSpec
=============================================================================
