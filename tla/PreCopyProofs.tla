--------------------------- MODULE PreCopyProofs ----------------------------
(***************************************************************************)
(* The image a migration hands over is exact: for every set of pages,      *)
(* cells, values, queue pages and hosts, every budget and number of        *)
(* rounds, in live and in stock mode, after any history of migrations,     *)
(* failures and reboots.                                                   *)
(***************************************************************************)
EXTENDS PreCopy, TLAPS

(* What a dump selects are pages.                                          *)
LEMMA DumpSetSelects ==
  ASSUME VMMTypeOK, NEW type \in {"Full", "Diff", "DiffLive"}
  PROVE  /\ DumpSet(type) \subseteq Pages
         /\ DumpSet("Full") = Pages
         /\ DumpSet("Diff") = Dirty
BY DEF VMMTypeOK, DumpSet, FirstPages, Dirty

(* A stream applied to an image gives an image.                            *)
LEMMA SplatType ==
  ASSUME NEW f \in File, NEW g \in File, NEW s \in SUBSET Pages
  PROVE  /\ Splat(f, g) \in File
         /\ Part(f, s) \in File
         /\ NoFile \in File
BY ValuesAssumption, PageOfAssumption DEF Splat, Part, File, NoFile, Memory

(* Type correctness is inductive.                                          *)
LEMMA TypeOKStep == TypeOK /\ [Next]_vars => TypeOK'
<1> SUFFICES ASSUME TypeOK, [Next]_vars PROVE TypeOK'
  OBVIOUS
<1> USE MaxRoundsAssumption, MergeAssumption DEF TypeOK, PCs
<1>f. File = [data : SUBSET Pages, c : Memory] /\ NoFile \in File
  BY ValuesAssumption DEF File, NoFile, Memory
(* The snapshot calls keep the types of the VMM's own state.               *)
<1>s. ASSUME NEW x \in Cells, NEW v \in Values,
             GuestStore(x, v) \/ DeviceStore(x, v)
      PROVE  VMMTypeOK'
  BY <1>s, PageOfAssumption DEF GuestStore, DeviceStore, VMMTypeOK, Memory, dumpVars
<1>p. PauseVM \/ ResumeVM => VMMTypeOK'
  BY DEF PauseVM, ResumeVM, VMMTypeOK, dumpVars
<1>b. ASSUME NEW type \in {"Full", "Diff", "DiffLive"}, NEW old \in File,
             SnapshotBegin(type, old)
      PROVE  VMMTypeOK'
  <2>1. DumpSet(type) \subseteq Pages
    BY DumpSetSelects
  <2> QED
    BY <1>b, <1>f, <2>1 DEF SnapshotBegin, VMMTypeOK, Dirty
<1>c. ASSUME NEW x \in Cells, CopyCell(x) PROVE VMMTypeOK'
  BY <1>c, PageOfAssumption DEF CopyCell, VMMTypeOK, File, Memory
<1>d. SnapshotDone \/ SnapshotFails => VMMTypeOK' /\ out \in File
  BY <1>f, QueueAssumption DEF SnapshotDone, SnapshotFails, VMMTypeOK
<1>m. ASSUME NEW m \in Memory, Booted(m) PROVE VMMTypeOK'
  BY <1>m, <1>f, QueueAssumption DEF Booted, VMMTypeOK
<1>a. AbortTarget => /\ base' \in [Hosts -> File] /\ recv' \in [Hosts -> File]
                     /\ final' \in [Hosts -> File]
                     /\ round' \in [Hosts -> [Rounds -> File]]
  <2>1. CASE UNCHANGED diskVars
    BY <2>1 DEF diskVars
  <2>2. [i \in Rounds |-> NoFile] \in [Rounds -> File]
    BY <1>f
  <2>3. CASE /\ base' = [base EXCEPT ![to] = NoFile]
             /\ recv' = [recv EXCEPT ![to] = NoFile]
             /\ final' = [final EXCEPT ![to] = NoFile]
             /\ round' = [round EXCEPT ![to] = [i \in Rounds |-> NoFile]]
    BY <1>f, <2>2, <2>3
  <2> QED
    BY <2>1, <2>3 DEF AbortTarget
<1>u. UNCHANGED vmmVars => VMMTypeOK'
  BY DEF VMMTypeOK, vmmVars
(* One step per action.                                                    *)
<1>1. CASE GuestWrites
  BY <1>1, <1>s DEF GuestWrites, ctlVars, diskVars
<1>2. ASSUME NEW t \in Hosts, Migrate(t) PROVE TypeOK'
  BY <1>2, <1>u DEF Migrate, diskVars, Rounds
<1>3. CASE Prepare
  BY <1>3, <1>u, <1>f DEF Prepare, ctlVars
<1>4. CASE ResyncPause
  BY <1>4, <1>p DEF ResyncPause, ctlVars, diskVars
<1>5. CASE ResyncDump
  BY <1>5, <1>b DEF ResyncDump, ctlVars, diskVars
<1>6. CASE ResyncDone
  BY <1>6, <1>d DEF ResyncDone, ctlVars
<1>7. CASE ResyncResume
  BY <1>7, <1>p DEF ResyncResume, diskVars
<1>8. CASE SendBase
  BY <1>8, <1>u, SplatType DEF SendBase, BaseImage, ctlVars
<1>9. CASE RoundPause
  BY <1>9, <1>p DEF RoundPause, ctlVars, diskVars
<1>10. CASE RoundDump
  BY <1>10, <1>b DEF RoundDump, Live, ctlVars, diskVars
<1>11. CASE RoundDone
  BY <1>11, <1>d DEF RoundDone, ctlVars
<1>12. CASE RoundResume
  BY <1>12, <1>p DEF RoundResume, ctlVars, diskVars
<1>13. CASE SendRound
  <2>1. recv' \in [Hosts -> File]
    BY <1>13, SplatType DEF SendRound, Delivered
  <2>2. bad' \subseteq Pages
    BY <1>13, <1>f DEF SendRound, Delivered, VMMTypeOK
  <2>3. round' \in [Hosts -> [Rounds -> File]]
    BY <1>13, <1>f DEF SendRound
  <2>4. r' \in Rounds
    BY <1>13 DEF SendRound, Rounds
  <2> QED
    BY <1>13, <1>u, <2>1, <2>2, <2>3, <2>4 DEF SendRound
<1>14. CASE FinalPause
  BY <1>14, <1>p DEF FinalPause, ctlVars, diskVars
<1>15. CASE FinalDump
  BY <1>15, <1>b DEF FinalDump, ctlVars, diskVars, VMMTypeOK
<1>16. CASE FinalDone
  BY <1>16, <1>d DEF FinalDone, ctlVars
<1>17. CASE SendFinal
  <2>1. recv' \in [Hosts -> File]
    BY <1>17, SplatType DEF SendFinal, Delivered
  <2>2. bad' \subseteq Pages
    BY <1>17, <1>f DEF SendFinal, Delivered, VMMTypeOK
  <2> QED
    BY <1>17, <1>u, <2>1, <2>2 DEF SendFinal, ctlVars
<1>18. CASE SendVMState
  BY <1>18, <1>u DEF SendVMState, ctlVars, diskVars
<1>19. CASE Finalize
  BY <1>19, <1>m, <1>f DEF Finalize, diskVars
<1>20. CASE CopyStep
  BY <1>20, <1>c DEF CopyStep, ctlVars, diskVars
<1>21. CASE CallFails
  BY <1>21, <1>u DEF CallFails, ctlVars, diskVars
<1>22. CASE StreamFails
  <2>0. PICK f \in File, s \in SUBSET Pages :
          recv' = [recv EXCEPT ![to] = Splat(recv[to], Part(f, s))]
    <3>1. BaseImage \in File /\ round[at][r] \in File /\ final[at] \in File
      BY DEF BaseImage
    <3> QED
      BY <1>22, <3>1 DEF StreamFails
  <2>1. recv' \in [Hosts -> File]
    <3>1. Part(f, s) \in File
      BY SplatType
    <3>2. Splat(recv[to], Part(f, s)) \in File
      BY <3>1, SplatType
    <3> QED
      BY <2>0, <3>2
  <2>2. /\ pc' = "failed"
        /\ UNCHANGED <<vmmVars, ctlVars, base, final, round, frozen, bad>>
    BY <1>22 DEF StreamFails
  <2> QED
    BY <1>u, <2>1, <2>2 DEF ctlVars
<1>23. CASE DumpFails
  <2>1. VMMTypeOK' /\ out \in File
    BY <1>23, <1>d DEF DumpFails
  <2>2. /\ base' \in [Hosts -> File]
        /\ final' \in [Hosts -> File]
        /\ round' \in [Hosts -> [Rounds -> File]]
    <3>1. \/ base' = [base EXCEPT ![at] = out] /\ UNCHANGED <<round, final>>
          \/ round' = [round EXCEPT ![at][r] = out] /\ UNCHANGED <<base, final>>
          \/ final' = [final EXCEPT ![at] = out] /\ UNCHANGED <<base, round>>
      BY <1>23 DEF DumpFails
    <3>2. CASE base' = [base EXCEPT ![at] = out] /\ UNCHANGED <<round, final>>
      BY <2>1, <3>2
    <3>3. CASE round' = [round EXCEPT ![at][r] = out] /\ UNCHANGED <<base, final>>
      BY <2>1, <3>3
    <3>4. CASE final' = [final EXCEPT ![at] = out] /\ UNCHANGED <<base, round>>
      BY <2>1, <3>4
    <3> QED
      BY <3>1, <3>2, <3>3, <3>4
  <2>3. pc' \in {"undo", "failed"} /\ UNCHANGED <<ctlVars, recv, frozen, bad>>
    BY <1>23 DEF DumpFails
  <2> QED
    BY <2>1, <2>2, <2>3 DEF ctlVars
<1>24. CASE Rollback
  BY <1>24, <1>p, <1>a DEF Rollback
<1>25. CASE RollbackDead
  BY <1>25, <1>u, <1>a DEF RollbackDead
<1>26. ASSUME NEW h \in Hosts, NEW m \in BootImages, Reboot(h, m) PROVE TypeOK'
  <2>1. m \in Memory
    BY BootAssumption
  <2> QED
    BY <1>26, <1>m, <1>f, <2>1 DEF Reboot
<1>27. CASE UNCHANGED vars
  BY <1>27, <1>u DEF vars, ctlVars, diskVars
<1>28. CASE UndoPause
  BY <1>28, <1>p DEF UndoPause, ctlVars, diskVars
<1> QED
  BY <1>1, <1>2, <1>3, <1>4, <1>5, <1>6, <1>7, <1>8, <1>9, <1>10, <1>11, <1>12,
     <1>13, <1>14, <1>15, <1>16, <1>17, <1>18, <1>19, <1>20, <1>21, <1>22, <1>23,
     <1>24, <1>25, <1>26, <1>27, <1>28 DEF Next, Steps

(* What the target's image holds after a stream.                           *)
LEMMA SplatReads ==
  ASSUME NEW f \in File, NEW g \in File, NEW x \in Cells
  PROVE  /\ Splat(f, g).data = f.data \cup g.data
         /\ PageOf[x] \in g.data => Splat(f, g).c[x] = g.c[x]
         /\ PageOf[x] \notin g.data => Splat(f, g).c[x] = f.c[x]
BY DEF Splat, File

(* The inductive invariant, less the types.                                *)
Rest ==
  /\ OpAtPC
  /\ QueuesMarked
  /\ TodoSelected
  /\ NoHoles
  /\ BaseSound
  /\ ResyncSound
  /\ ImageCovered
  /\ DiffCovers
  /\ FinalCovers
  /\ ImageIntact
  /\ NothingRunsAfterFreeze
  /\ NoStaleFiles

(* A step of the guest: the page it writes is marked, by KVM, by the VMM   *)
(* or because it belongs to a queue.                                       *)
LEMMA GuestStep == IInv /\ GuestWrites => Rest'
<1> SUFFICES ASSUME IInv, GuestWrites PROVE Rest'
  OBVIOUS
<1> PICK x \in Cells, v \in Values : GuestStore(x, v) \/ DeviceStore(x, v)
  BY DEF GuestWrites
<1> UNCHANGED <<ctlVars, pc, diskVars, frozen, bad>>
  BY DEF GuestWrites
<1> USE PageOfAssumption DEF IInv, TypeOK, VMMTypeOK, Memory, Rest, Dirty,
        BaseImage, Sending, PCs, ctlVars, diskVars, dumpVars
<1>m. \A y \in Cells : y # x => mem'[y] = mem[y]
  BY DEF GuestStore, DeviceStore
<1>d. /\ Dirty \subseteq Dirty' /\ kvm \subseteq kvm'
      /\ QueuesMarked => PageOf[x] \in Dirty'
  BY DEF GuestStore, DeviceStore, QueuesMarked
<1>1. OpAtPC' /\ QueuesMarked' /\ TodoSelected' /\ NothingRunsAfterFreeze'
  BY DEF GuestStore, DeviceStore, OpAtPC, QueuesMarked, TodoSelected, NothingRunsAfterFreeze
<1>2. NoHoles' /\ ImageIntact' /\ NoStaleFiles'
  BY DEF GuestStore, DeviceStore, NoHoles, ImageIntact, NoStaleFiles
<1>3. BaseSound'
  BY <1>m, <1>d DEF BaseSound
<1>4. ResyncSound' /\ ImageCovered' /\ DiffCovers' /\ FinalCovers'
  BY <1>m, <1>d DEF GuestStore, DeviceStore, OpAtPC, QueuesMarked, NothingRunsAfterFreeze,
     ResyncSound, ImageCovered, DiffCovers, FinalCovers
<1> QED
  BY <1>1, <1>2, <1>3, <1>4

(* A stream that was delivered: the pages the dump selected are right, the *)
(* other extents of the file are stale, the rest is as it was.             *)
LEMMA DeliveredReads ==
  ASSUME TypeOK, NEW f \in File, Delivered(f), NEW x \in Cells
  PROVE  /\ recv'[to].data = recv[to].data \cup f.data
         /\ PageOf[x] \in f.data => recv'[to].c[x] = f.c[x]
         /\ PageOf[x] \notin f.data => recv'[to].c[x] = recv[to].c[x]
         /\ PageOf[x] \in bad' <=> /\ PageOf[x] \notin sel
                                   /\ PageOf[x] \in bad \/ PageOf[x] \in f.data
<1>1. recv'[to] = Splat(recv[to], f) /\ recv[to] \in File
  BY DEF Delivered, TypeOK
<1>2. bad' = (bad \ sel) \cup (f.data \ sel)
  BY DEF Delivered
<1> QED
  BY <1>1, <1>2, SplatReads

(* The base reaches an empty image.                                        *)
LEMMA SendBaseStep == IInv /\ SendBase => Rest'
<1> SUFFICES ASSUME IInv, SendBase PROVE Rest'
  OBVIOUS
<1>1. BaseImage \in File /\ recv[to] \in File
  BY DEF IInv, TypeOK, BaseImage
<1>2. recv'[to] = Splat(recv[to], BaseImage)
  BY DEF IInv, TypeOK, SendBase
<1>a. \A x \in Cells : /\ PageOf[x] \in BaseImage.data
                       /\ PageOf[x] \in Dirty \/ BaseImage.c[x] = mem[x]
  BY DEF IInv, NoHoles, BaseSound, OpAtPC, SendBase
<1>3. \A x \in Cells : /\ PageOf[x] \in recv'[to].data
                       /\ recv'[to].c[x] = BaseImage.c[x]
  BY <1>1, <1>2, <1>a, SplatReads
<1> USE DEF IInv
<1>4. /\ pc = "sendBase" /\ pc' = "round" /\ to # at
      /\ UNCHANGED <<vmmVars, ctlVars, base, final, round, frozen, bad>>
  BY DEF SendBase, OpAtPC
<1>5. OpAtPC' /\ QueuesMarked' /\ TodoSelected' /\ NothingRunsAfterFreeze' /\ ImageIntact' /\ NoStaleFiles'
  BY <1>4 DEF OpAtPC, QueuesMarked, TodoSelected, NothingRunsAfterFreeze, ImageIntact,
     NoStaleFiles, Sending, vmmVars, ctlVars
<1>6. NoHoles' /\ BaseSound' /\ ResyncSound' /\ DiffCovers' /\ FinalCovers'
  BY <1>3, <1>4 DEF NoHoles, BaseSound, ResyncSound, DiffCovers, FinalCovers,
     Sending, vmmVars, ctlVars
<1>7. ImageCovered'
  BY <1>a, <1>3, <1>4 DEF ImageCovered, Dirty, vmmVars, ctlVars
<1> QED
  BY <1>5, <1>6, <1>7 DEF Rest

(* A round reaches the image: what the diff selected is right or dirty     *)
(* again, what it did not select was right, dirty or bad before.           *)
LEMMA SendRoundStep == IInv /\ SendRound => Rest'
<1> SUFFICES ASSUME IInv, SendRound PROVE Rest'
  OBVIOUS
<1> DEFINE f == round[at][r]
<1>1. TypeOK /\ f \in File /\ Delivered(f)
  BY DEF IInv, TypeOK, SendRound
<1>2. /\ pc = "sendRound" /\ pc' \in {"round", "pause"} /\ to # at
      /\ UNCHANGED <<vmmVars, at, to, needsResync, baseFile, base, final, frozen>>
  BY DEF SendRound, IInv, OpAtPC
<1>3. \A x \in Cells :
        /\ PageOf[x] \in recv[to].data
        /\ PageOf[x] \in sel => PageOf[x] \in f.data /\ (PageOf[x] \in Dirty \/ f.c[x] = mem[x])
        /\ PageOf[x] \in bad \cup Dirty \cup sel \/ recv[to].c[x] = mem[x]
  BY <1>2 DEF IInv, NoHoles, DiffCovers, ImageCovered, Sending
<1> HIDE DEF f
<1>4. \A x \in Cells : /\ PageOf[x] \in recv'[to].data
                       /\ PageOf[x] \in bad' \cup Dirty \/ recv'[to].c[x] = mem[x]
  <2> TAKE x \in Cells
  <2>1. PageOf[x] \in recv'[to].data
    BY <1>1, <1>3, DeliveredReads
  <2>2. CASE PageOf[x] \in sel
    BY <1>1, <1>3, <2>2, DeliveredReads
  <2>3. CASE PageOf[x] \notin sel
    BY <1>1, <1>3, <2>3, DeliveredReads
  <2> QED
    BY <2>1, <2>2, <2>3
<1>5. ~MergeExisting => bad' = {}
  BY <1>1, <1>2 DEF IInv, NoStaleFiles, Delivered, f
<1> USE DEF IInv
<1>6. OpAtPC' /\ QueuesMarked' /\ TodoSelected' /\ NothingRunsAfterFreeze' /\ ImageIntact' /\ NoStaleFiles'
  BY <1>2, <1>5 DEF OpAtPC, QueuesMarked, TodoSelected, NothingRunsAfterFreeze, ImageIntact,
     NoStaleFiles, Sending, vmmVars
<1>7. NoHoles' /\ BaseSound' /\ ResyncSound' /\ DiffCovers' /\ FinalCovers'
  BY <1>2, <1>4 DEF NoHoles, BaseSound, ResyncSound, DiffCovers, FinalCovers,
     Sending, vmmVars
<1>8. ImageCovered'
  BY <1>2, <1>4 DEF ImageCovered, Dirty, vmmVars
<1> QED
  BY <1>6, <1>7, <1>8 DEF Rest

(* The final diff completes the image.                                     *)
LEMMA SendFinalStep == IInv /\ SendFinal => Rest'
<1> SUFFICES ASSUME IInv, SendFinal PROVE Rest'
  OBVIOUS
<1> DEFINE f == final[at]
<1>1. TypeOK /\ f \in File /\ Delivered(f)
  BY DEF IInv, TypeOK, SendFinal
<1>2. /\ pc = "sendFinal" /\ pc' = "vmstate" /\ to # at
      /\ UNCHANGED <<vmmVars, ctlVars, base, final, round, frozen>>
  BY DEF SendFinal, IInv, OpAtPC
<1>3. \A x \in Cells :
        /\ PageOf[x] \in recv[to].data
        /\ IF PageOf[x] \in sel
           THEN PageOf[x] \in f.data /\ f.c[x] = frozen[x]
           ELSE PageOf[x] \in bad \/ recv[to].c[x] = frozen[x]
  BY <1>2 DEF IInv, NoHoles, FinalCovers, Sending
<1> HIDE DEF f
<1>4. \A x \in Cells : /\ PageOf[x] \in recv'[to].data
                       /\ PageOf[x] \in bad' \/ recv'[to].c[x] = frozen[x]
  <2> TAKE x \in Cells
  <2>1. PageOf[x] \in recv'[to].data
    BY <1>1, <1>3, DeliveredReads
  <2>2. CASE PageOf[x] \in sel
    BY <1>1, <1>3, <2>2, DeliveredReads
  <2>3. CASE PageOf[x] \notin sel
    BY <1>1, <1>3, <2>3, DeliveredReads
  <2> QED
    BY <2>1, <2>2, <2>3
<1>5. ~MergeExisting => bad' = {}
  BY <1>1, <1>2 DEF IInv, NoStaleFiles, Delivered, f
<1> USE DEF IInv
<1>6. OpAtPC' /\ QueuesMarked' /\ TodoSelected' /\ NothingRunsAfterFreeze' /\ NoStaleFiles'
  BY <1>2, <1>5 DEF OpAtPC, QueuesMarked, TodoSelected, NothingRunsAfterFreeze,
     NoStaleFiles, Sending, vmmVars, ctlVars
<1>7. NoHoles' /\ BaseSound' /\ ResyncSound' /\ DiffCovers' /\ FinalCovers' /\ ImageCovered'
  BY <1>2, <1>4 DEF NoHoles, BaseSound, ResyncSound, DiffCovers, FinalCovers,
     ImageCovered, Sending, vmmVars, ctlVars
<1>8. ImageIntact'
  BY <1>2, <1>4 DEF ImageIntact, ctlVars
<1> QED
  BY <1>6, <1>7, <1>8 DEF Rest

(* One more cell in the file, with the value memory has now.               *)
LEMMA CopyCellStep == IInv /\ CopyStep => Rest'
<1> SUFFICES ASSUME IInv, CopyStep PROVE Rest'
  OBVIOUS
<1> PICK x \in Cells : CopyCell(x)
  BY DEF CopyStep
<1>1. /\ UNCHANGED <<mem, kvm, vmm, vcpus, op, sel, left, fetched>>
      /\ UNCHANGED <<ctlVars, pc, diskVars, frozen, bad>>
      /\ op # "idle"
  BY DEF CopyStep, CopyCell
<1>2. /\ x \in todo /\ todo' = todo \ {x}
      /\ out'.data = out.data \cup {PageOf[x]}
      /\ out'.c[x] = mem[x]
      /\ \A y \in Cells : y # x => out'.c[y] = out.c[y]
  BY DEF CopyCell, IInv, TypeOK, VMMTypeOK, File, Memory
<1>3. PageOf[x] \in sel
  BY <1>1, <1>2 DEF IInv, TodoSelected
<1> USE DEF IInv
<1>4. OpAtPC' /\ QueuesMarked' /\ TodoSelected' /\ NothingRunsAfterFreeze' /\ ImageIntact' /\ NoHoles'
      /\ BaseSound' /\ ImageCovered'
  BY <1>1, <1>2 DEF OpAtPC, QueuesMarked, TodoSelected, NothingRunsAfterFreeze,
     ImageIntact, NoHoles, BaseSound, ImageCovered, BaseImage, Dirty, Sending, ctlVars, diskVars
<1>5. ResyncSound' /\ DiffCovers' /\ FinalCovers'
  BY <1>1, <1>2 DEF ResyncSound, DiffCovers, FinalCovers, Dirty, ctlVars, diskVars
<1>6. NoStaleFiles'
  BY <1>1, <1>2, <1>3 DEF NoStaleFiles, ctlVars, diskVars
<1> QED
  BY <1>4, <1>5, <1>6 DEF Rest

(* Every other step: it moves pc and at most one piece of what the         *)
(* invariant relates.                                                      *)
LEMMA RestStep == IInv /\ [Next]_vars => Rest'
<1> SUFFICES ASSUME IInv, [Next]_vars PROVE Rest'
  OBVIOUS
<1> USE PageOfAssumption, QueueAssumption, MergeAssumption, LiveRoundsAssumption
        DEF IInv, TypeOK, VMMTypeOK, Memory, File, NoFile, Rest, Dirty,
            BaseImage, Sending, PCs, ctlVars, diskVars, OpAtPC, QueuesMarked,
            TodoSelected, NoHoles, BaseSound, ResyncSound, ImageCovered,
            DiffCovers, FinalCovers, ImageIntact, NothingRunsAfterFreeze,
            NoStaleFiles
<1>1. CASE GuestWrites
  BY <1>1, GuestStep DEF IInv, Rest
<1>2. ASSUME NEW t \in Hosts, Migrate(t) PROVE Rest'
  BY <1>2 DEF Migrate, vmmVars
<1>3. CASE Prepare
  BY <1>3 DEF Prepare, vmmVars
<1>4. CASE ResyncPause
  BY <1>4 DEF ResyncPause, PauseVM, dumpVars
<1>5. CASE ResyncDump
  BY <1>5 DEF ResyncDump, SnapshotBegin, DumpSet
<1>6. CASE ResyncDone
  BY <1>6 DEF ResyncDone, SnapshotDone
<1>7. CASE ResyncResume
  BY <1>7 DEF ResyncResume, ResumeVM, dumpVars
<1>8. CASE SendBase
  BY <1>8, SendBaseStep
<1>9. CASE RoundPause
  BY <1>9 DEF RoundPause, PauseVM, dumpVars
<1>10. CASE RoundDump
  BY <1>10 DEF RoundDump, SnapshotBegin
<1>11. CASE RoundDone
  BY <1>11 DEF RoundDone, SnapshotDone
<1>12. CASE RoundResume
  BY <1>12 DEF RoundResume, ResumeVM, dumpVars
<1>13. CASE SendRound
  BY <1>13, SendRoundStep
<1>14. CASE FinalPause
  BY <1>14 DEF FinalPause, PauseVM, dumpVars
<1>15. CASE FinalDump
  BY <1>15 DEF FinalDump, SnapshotBegin, DumpSet
<1>16. CASE FinalDone
  BY <1>16 DEF FinalDone, SnapshotDone
<1>17. CASE SendFinal
  BY <1>17, SendFinalStep
<1>18. CASE SendVMState
  BY <1>18 DEF SendVMState, vmmVars
<1>19. CASE Finalize
  BY <1>19 DEF Finalize, Booted
<1>20. CASE CopyStep
  BY <1>20, CopyCellStep
<1>21. CASE CallFails
  BY <1>21 DEF CallFails, vmmVars
<1>22. CASE StreamFails
  BY <1>22 DEF StreamFails, vmmVars
<1>23. CASE DumpFails
  BY <1>23 DEF DumpFails, SnapshotFails
<1>24. CASE Rollback
  BY <1>24 DEF Rollback, AbortTarget, ResumeVM, dumpVars
<1>25. CASE RollbackDead
  BY <1>25 DEF RollbackDead, AbortTarget, vmmVars
<1>26. ASSUME NEW h \in Hosts, NEW m \in BootImages, Reboot(h, m) PROVE Rest'
  BY <1>26, BootAssumption DEF Reboot, Booted
<1>27. CASE UNCHANGED vars
  BY <1>27 DEF vars, vmmVars
<1>28. CASE UndoPause
  BY <1>28 DEF UndoPause, ResumeVM, dumpVars
<1> QED
  BY <1>1, <1>2, <1>3, <1>4, <1>5, <1>6, <1>7, <1>8, <1>9, <1>10, <1>11, <1>12,
     <1>13, <1>14, <1>15, <1>16, <1>17, <1>18, <1>19, <1>20, <1>21, <1>22, <1>23,
     <1>24, <1>25, <1>26, <1>27, <1>28 DEF Next, Steps

(* A booted guest with its provision-time snapshot satisfies the invariant.*)
LEMMA InitInv == Init => IInv
<1> SUFFICES ASSUME Init PROVE IInv
  OBVIOUS
<1> USE DEF Init
<1>1. mem \in Memory /\ NoFile \in File /\ [data |-> Pages, c |-> mem] \in File
  BY BootAssumption, ValuesAssumption DEF NoFile, File, Memory
<1>2. TypeOK
  <2>1. VMMTypeOK
    BY <1>1, QueueAssumption DEF VMMTypeOK
  <2>2. [i \in Rounds |-> NoFile] \in [Rounds -> File] /\ 1 \in Rounds
    BY <1>1, MaxRoundsAssumption DEF Rounds
  <2>3. /\ NoFiles \in [Hosts -> File] /\ base \in [Hosts -> File]
        /\ round \in [Hosts -> [Rounds -> File]]
    BY <1>1, <2>2 DEF NoFiles
  <2> QED
    BY <1>1, <2>1, <2>2, <2>3 DEF TypeOK, PCs
<1>3. base[at] = [data |-> Pages, c |-> mem]
  BY DEF NoFiles
<1>4. Rest
  BY <1>1, <1>3, PageOfAssumption
     DEF Rest, OpAtPC, QueuesMarked, TodoSelected, NoHoles, BaseSound,
         ResyncSound, ImageCovered, DiffCovers, FinalCovers, ImageIntact,
         NothingRunsAfterFreeze, NoStaleFiles, BaseImage, Sending, Dirty
<1> QED
  BY <1>2, <1>4 DEF IInv, Rest

(* The inductive invariant holds of every behaviour.                       *)
THEOREM Invariance == Spec => []IInv
<1>1. IInv /\ [Next]_vars => IInv'
  <2>1. IInv => TypeOK
    BY DEF IInv
  <2> QED
    BY <2>1, TypeOKStep, RestStep DEF IInv, Rest
<1> QED
  BY <1>1, InitInv, PTL DEF Spec

(* Every file, bitmap and memory keeps its shape, in every step of         *)
(* migrateInner and of the snapshot calls.                                 *)
THEOREM TypeCorrect == Spec => []TypeOK
<1>1. IInv => TypeOK
  BY DEF IInv
<1> QED
  BY <1>1, Invariance, PTL

(* The image the target loads is the source's memory at the instant its    *)
(* vCPU state was saved, except on pages overwritten from stale extents of *)
(* a merged file.                                                          *)
THEOREM ImageIsIntact == Spec => []ImageIntact
<1>1. IInv => ImageIntact
  BY DEF IInv
<1> QED
  BY <1>1, Invariance, PTL

(* The base the next migration ships is right wherever the dirty maps are  *)
(* silent, or needsResync is set: what consumed dirty bits of an aborted   *)
(* migration cannot do is go unnoticed.                                    *)
THEOREM BaseIsSound == Spec => []BaseSound
<1>1. IInv => BaseSound
  BY DEF IInv
<1> QED
  BY <1>1, Invariance, PTL

(* The guest executes nothing between its final snapshot and the load on   *)
(* the target.                                                             *)
THEOREM NothingRuns == Spec => []NothingRunsAfterFreeze
<1>1. IInv => NothingRunsAfterFreeze
  BY DEF IInv
<1> QED
  BY <1>1, Invariance, PTL

(* If Firecracker starts every diff file afresh, no hand-over changes a    *)
(* single cell of guest memory, after whatever history.                    *)
THEOREM ExactHandover == ASSUME ~MergeExisting PROVE Spec => HandoverExact
<1>1. IInv /\ Finalize => mem' = frozen
  <2> SUFFICES ASSUME IInv, Finalize PROVE mem' = frozen
    OBVIOUS
  <2>1. mem' = recv[to].c /\ recv[to].c \in Memory /\ frozen \in Memory
    BY DEF Finalize, Booted, IInv, TypeOK, File
  <2>2. \A x \in Cells : recv[to].c[x] = frozen[x]
    BY DEF IInv, ImageIntact, NoStaleFiles, Finalize
  <2> QED
    BY <2>1, <2>2 DEF Memory
<1>2. IInv /\ [Next]_vars => [Finalize => mem' = frozen]_vars
  BY <1>1
<1> QED
  BY <1>2, Invariance, PTL DEF Spec, HandoverExact

(* "With the DiffLive patch the guest never stops" (migrate.go): before    *)
(* the blackout no live round leaves the vCPUs paused, a paused round and  *)
(* a resync resume them before anything is sent, and so does a rollback.   *)
THEOREM ServedBeforeBlackout == Spec => []ServedWhilePreCopying
<1>1. Init => ServedInv
  BY DEF Init, ServedInv, ServedWhilePreCopying
<1>2. ServedInv /\ [Next]_vars => ServedInv'
  <2> SUFFICES ASSUME ServedInv, [Next]_vars PROVE ServedInv'
    OBVIOUS
  <2> USE DEF ServedInv, ServedWhilePreCopying, Live, ctlVars, vmmVars, dumpVars
  <2>1. CASE GuestWrites
    BY <2>1 DEF GuestWrites, GuestStore, DeviceStore
  <2>2. CASE \E t \in Hosts : Migrate(t)
    BY <2>2 DEF Migrate
  <2>3. CASE Prepare \/ SendBase \/ SendRound \/ SendFinal \/ SendVMState
    BY <2>3 DEF Prepare, SendBase, SendRound, SendFinal, SendVMState
  <2>4. CASE ResyncPause \/ RoundPause \/ FinalPause
    BY <2>4 DEF ResyncPause, RoundPause, FinalPause, PauseVM
  <2>5. CASE ResyncDump \/ RoundDump \/ FinalDump
    BY <2>5 DEF ResyncDump, RoundDump, FinalDump, SnapshotBegin
  <2>6. CASE ResyncDone \/ RoundDone \/ FinalDone
    BY <2>6 DEF ResyncDone, RoundDone, FinalDone, SnapshotDone
  <2>7. CASE ResyncResume \/ RoundResume \/ UndoPause \/ Rollback
    BY <2>7 DEF ResyncResume, RoundResume, UndoPause, Rollback, ResumeVM
  <2>8. CASE Finalize \/ \E h \in Hosts, m \in BootImages : Reboot(h, m)
    BY <2>8 DEF Finalize, Reboot, Booted
  <2>9. CASE CopyStep
    BY <2>9 DEF CopyStep, CopyCell
  <2>10. CASE CallFails \/ StreamFails \/ DumpFails \/ RollbackDead
    BY <2>10 DEF CallFails, StreamFails, DumpFails, RollbackDead, SnapshotFails
  <2>11. CASE UNCHANGED vars
    BY <2>11 DEF vars
  <2> QED
    BY <2>1, <2>2, <2>3, <2>4, <2>5, <2>6, <2>7, <2>8, <2>9, <2>10, <2>11
       DEF Next, Steps
<1> QED
  BY <1>1, <1>2, PTL DEF Spec, ServedInv
=============================================================================
