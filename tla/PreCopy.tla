------------------------------ MODULE PreCopy -------------------------------
(***************************************************************************)
(* The data path of a migration: what migrateInner (internal/agent/        *)
(* migrate.go) does with the guest's memory image, on the snapshot calls   *)
(* of LiveSnapshot and the files each agent keeps in the VM's runtime      *)
(* directory.  One guest moves between hosts any number of times           *)
(* (ping-pong), every call to Firecracker or to the peer may fail, and the *)
(* guest writes memory whenever it runs.  Who runs the guest when calls    *)
(* fail ambiguously is the subject of Handover, not of this module.        *)
(*                                                                         *)
(*   at, to      the host the guest runs on; the current migration's target*)
(*   pc          the next call of migrateInner, "idle" between migrations  *)
(*   r           the pre-copy round                                        *)
(*   needsResync VM.needsResync                                            *)
(*   baseFile    which file VM.baseMem names: base.mem or recv.mem         *)
(*   base, recv, final, round   those files, per host                      *)
(*   frozen      history: guest memory when the final snapshot began       *)
(*   bad         history: pages of the target's image last written from an *)
(*               extent that the dump did not select (data a merged file   *)
(*               kept from an earlier snapshot)                            *)
(***************************************************************************)
EXTENDS LiveSnapshot

CONSTANTS
  Hosts,        \* agents
  MaxRounds,    \* maxRounds / maxRoundsStock
  LiveRounds,   \* the agents with Config.LiveRounds: DiffLive rounds, else
                \* paused Diff rounds
  BootImages    \* the memory contents a freshly booted guest may have

ASSUME MaxRoundsAssumption == MaxRounds \in Nat \ {0}
ASSUME LiveRoundsAssumption == LiveRounds \subseteq Hosts
ASSUME BootAssumption == BootImages \subseteq Memory

VARIABLES at, to, pc, r, needsResync, baseFile, base, recv, final, round,
          frozen, bad

diskVars == <<base, recv, final, round>>
ctlVars == <<at, to, r, needsResync, baseFile>>
vars == <<vmmVars, ctlVars, pc, diskVars, frozen, bad>>

Rounds == 1 .. MaxRounds

PCs == {"idle", "prepare", "fullPause", "fullDump", "fullDumping", "fullResume",
        "sendBase", "round", "dump", "dumping", "resume", "sendRound",
        "pause", "finalDump", "finalDumping", "sendFinal", "vmstate",
        "finalize", "undo", "failed", "dead"}

TypeOK ==
  /\ VMMTypeOK
  /\ at \in Hosts /\ to \in Hosts
  /\ pc \in PCs
  /\ r \in Rounds
  /\ needsResync \in BOOLEAN
  /\ baseFile \in {"base", "recv"}
  /\ base \in [Hosts -> File]
  /\ recv \in [Hosts -> File]
  /\ final \in [Hosts -> File]
  /\ round \in [Hosts -> [Rounds -> File]]
  /\ frozen \in Memory
  /\ bad \subseteq Pages

NoFiles == [h \in Hosts |-> NoFile]

(* Whether the source takes its rounds live.                              *)
Live == at \in LiveRounds

(* The full image vm.baseMem names.                                        *)
BaseImage == IF baseFile = "base" THEN base[at] ELSE recv[at]

(* Variant: the holes of the file overwrite the image as well.             *)
Splat_WritesHoles(image, f) == [data |-> image.data \cup f.data, c |-> f.c]

(* sparse.Send of f into sparse.Receive on an image: the data extents      *)
(* overwrite the image in place, the holes leave it alone.                 *)
Splat(image, f) ==
  [data |-> image.data \cup f.data,
   c    |-> [x \in Cells |-> IF PageOf[x] \in f.data THEN f.c[x] ELSE image.c[x]]]

(* The extents of f on pages s, what a stream that breaks off delivered.   *)
Part(f, s) == [data |-> f.data \cap s, c |-> f.c]

Init ==
  /\ mem \in BootImages
  /\ kvm = {} /\ vmm = QueuePages
  /\ vcpus = "running" /\ op = "idle"
  /\ sel = {} /\ todo = {} /\ left = {} /\ fetched = {} /\ out = NoFile
  /\ at \in Hosts /\ to = at
  /\ pc = "idle" /\ r = 1
  /\ needsResync = FALSE
  /\ baseFile = "base"
  /\ base = [NoFiles EXCEPT ![at] = [data |-> Pages, c |-> mem]]
  /\ recv = NoFiles /\ final = NoFiles
  /\ round = [h \in Hosts |-> [i \in Rounds |-> NoFile]]
  /\ frozen = mem
  /\ bad = {}

-----------------------------------------------------------------------------
(* The guest.                                                              *)

GuestWrites ==
  \E x \in Cells, v \in Values :
    /\ GuestStore(x, v) \/ DeviceStore(x, v)
    /\ UNCHANGED <<ctlVars, pc, diskVars, frozen, bad>>

-----------------------------------------------------------------------------
(* migrate and the parts of migrateInner before the rounds.                *)

Migrate(t) ==
  /\ pc = "idle"
  /\ t # at
  /\ to' = t
  /\ r' = 1
  /\ pc' = "prepare"
  /\ UNCHANGED <<vmmVars, at, needsResync, baseFile, diskVars, frozen, bad>>

(* handlePrepare opens recv.mem with O_TRUNC.                              *)
Prepare ==
  /\ pc = "prepare"
  /\ recv' = [recv EXCEPT ![to] = NoFile]
  /\ bad' = {}
  /\ pc' = IF needsResync THEN "fullPause" ELSE "sendBase"
  /\ UNCHANGED <<vmmVars, ctlVars, base, final, round, frozen>>

ResyncPause ==
  /\ pc = "fullPause"
  /\ PauseVM
  /\ pc' = "fullDump"
  /\ UNCHANGED <<ctlVars, diskVars, frozen, bad>>

ResyncDump ==
  /\ pc = "fullDump"
  /\ SnapshotBegin("Full", base[at])
  /\ pc' = "fullDumping"
  /\ UNCHANGED <<ctlVars, diskVars, frozen, bad>>

ResyncDone ==
  /\ pc = "fullDumping"
  /\ SnapshotDone
  /\ base' = [base EXCEPT ![at] = out]
  /\ pc' = "fullResume"
  /\ UNCHANGED <<ctlVars, recv, final, round, frozen, bad>>

(* Variant: the guest is not resumed after the fresh base was taken.       *)
ResyncResume_StaysPaused ==
  /\ pc = "fullResume"
  /\ baseFile' = "base"
  /\ needsResync' = FALSE
  /\ pc' = "sendBase"
  /\ UNCHANGED <<vmmVars, at, to, r, diskVars, frozen, bad>>

ResyncResume ==
  /\ pc = "fullResume"
  /\ ResumeVM
  /\ baseFile' = "base"
  /\ needsResync' = FALSE
  /\ pc' = "sendBase"
  /\ UNCHANGED <<at, to, r, diskVars, frozen, bad>>

SendBase ==
  /\ pc = "sendBase"
  /\ recv' = [recv EXCEPT ![to] = Splat(@, BaseImage)]
  /\ pc' = "round"
  /\ UNCHANGED <<vmmVars, ctlVars, base, final, round, frozen, bad>>

-----------------------------------------------------------------------------
(* The rounds: captureRound, sendMemFile, os.Remove.                       *)

RoundPause ==
  /\ pc = "round"
  /\ ~Live
  /\ PauseVM
  /\ pc' = "dump"
  /\ UNCHANGED <<ctlVars, diskVars, frozen, bad>>

RoundDump ==
  /\ pc = IF Live THEN "round" ELSE "dump"
  /\ SnapshotBegin(IF Live THEN "DiffLive" ELSE "Diff", round[at][r])
  /\ pc' = "dumping"
  /\ UNCHANGED <<ctlVars, diskVars, frozen, bad>>

RoundDone ==
  /\ pc = "dumping"
  /\ SnapshotDone
  /\ round' = [round EXCEPT ![at][r] = out]
  /\ pc' = IF Live THEN "sendRound" ELSE "resume"
  /\ UNCHANGED <<ctlVars, base, recv, final, frozen, bad>>

RoundResume ==
  /\ pc = "resume"
  /\ ResumeVM
  /\ pc' = "sendRound"
  /\ UNCHANGED <<ctlVars, diskVars, frozen, bad>>

(* A delivered diff file: the pages the dump selected are right again, the *)
(* file's other extents are stale.                                         *)
Delivered(f) ==
  /\ recv' = [recv EXCEPT ![to] = Splat(@, f)]
  /\ bad' = (bad \ sel) \cup (f.data \ sel)

(* Variant: r is not incremented.                                          *)
SendRound_Stuck ==
  /\ pc = "sendRound"
  /\ Delivered(round[at][r])
  /\ round' = [round EXCEPT ![at][r] = NoFile]
  /\ r' = r /\ pc' \in {"round", "pause"}
  /\ UNCHANGED <<vmmVars, at, to, needsResync, baseFile, base, final, frozen>>

(* Whether the loop goes on depends on sizes and clocks (Convergence): any *)
(* round may be the last, and round MaxRounds is.                          *)
SendRound ==
  /\ pc = "sendRound"
  /\ Delivered(round[at][r])
  /\ round' = [round EXCEPT ![at][r] = NoFile]
  /\ \/ r < MaxRounds /\ r' = r + 1 /\ pc' = "round"
     \/ r' = r /\ pc' = "pause"
  /\ UNCHANGED <<vmmVars, at, to, needsResync, baseFile, base, final, frozen>>

-----------------------------------------------------------------------------
(* The blackout window.                                                    *)

FinalPause ==
  /\ pc = "pause"
  /\ PauseVM
  /\ pc' = "finalDump"
  /\ UNCHANGED <<ctlVars, diskVars, frozen, bad>>

(* Variant: the last pass is budgeted, as a live round is.                 *)
FinalDump_Budgeted ==
  /\ pc = "finalDump"
  /\ SnapshotBegin("DiffLive", final[at])
  /\ frozen' = mem
  /\ pc' = "finalDumping"
  /\ UNCHANGED <<ctlVars, diskVars, bad>>

(* The vCPU and device state is saved here, so memory has to match it.     *)
FinalDump ==
  /\ pc = "finalDump"
  /\ SnapshotBegin("Diff", final[at])
  /\ frozen' = mem
  /\ pc' = "finalDumping"
  /\ UNCHANGED <<ctlVars, diskVars, bad>>

(* Variant: the final pass resumes the guest, as a stock round does.       *)
FinalDone_Resumes ==
  /\ pc = "finalDumping"
  /\ op # "idle" /\ todo = {}
  /\ op' = "idle"
  /\ vmm' = left \cup QueuePages
  /\ left' = {} /\ fetched' = {}
  /\ vcpus' = "running"
  /\ final' = [final EXCEPT ![at] = out]
  /\ pc' = "sendFinal"
  /\ out' = NoFile
  /\ UNCHANGED <<mem, kvm, sel, todo, ctlVars, base, recv, round, frozen, bad>>

FinalDone ==
  /\ pc = "finalDumping"
  /\ SnapshotDone
  /\ final' = [final EXCEPT ![at] = out]
  /\ pc' = "sendFinal"
  /\ UNCHANGED <<ctlVars, base, recv, round, frozen, bad>>

SendFinal ==
  /\ pc = "sendFinal"
  /\ Delivered(final[at])
  /\ pc' = "vmstate"
  /\ UNCHANGED <<vmmVars, ctlVars, base, final, round, frozen>>

SendVMState ==
  /\ pc = "vmstate"
  /\ pc' = "finalize"
  /\ UNCHANGED <<vmmVars, ctlVars, diskVars, frozen, bad>>

(* handleFinalize: Firecracker maps recv.mem as the guest's memory and     *)
(* runs it; the image becomes the base of the next migration.              *)
Finalize ==
  /\ pc = "finalize"
  /\ Booted(recv[to].c)
  /\ at' = to
  /\ baseFile' = "recv"
  /\ needsResync' = FALSE
  /\ pc' = "idle"
  /\ UNCHANGED <<to, r, diskVars, frozen, bad>>

-----------------------------------------------------------------------------
(* Failures.                                                               *)

CopyStep ==
  /\ \E x \in Cells : CopyCell(x)
  /\ UNCHANGED <<ctlVars, pc, diskVars, frozen, bad>>

(* A call to Firecracker or to the peer returns an error.  An error after  *)
(* the effect is the same step taken one pc later.                         *)
CallFails ==
  /\ pc \notin {"idle", "failed", "dead"}
  /\ op = "idle"
  /\ pc' = "failed"
  /\ UNCHANGED <<vmmVars, ctlVars, diskVars, frozen, bad>>

(* The stream breaks off: Receive has applied some of the extents.         *)
StreamFails ==
  /\ \/ pc = "sendBase" /\ \E s \in SUBSET Pages :
          recv' = [recv EXCEPT ![to] = Splat(@, Part(BaseImage, s))]
     \/ pc = "sendRound" /\ \E s \in SUBSET Pages :
          recv' = [recv EXCEPT ![to] = Splat(@, Part(round[at][r], s))]
     \/ pc = "sendFinal" /\ \E s \in SUBSET Pages :
          recv' = [recv EXCEPT ![to] = Splat(@, Part(final[at], s))]
  /\ pc' = "failed"
  /\ UNCHANGED <<vmmVars, ctlVars, base, final, round, frozen, bad>>

(* The snapshot call fails and leaves the file as far as it was written.   *)
DumpFails ==
  /\ SnapshotFails
  /\ \/ pc = "fullDumping" /\ base' = [base EXCEPT ![at] = out]
                           /\ UNCHANGED <<round, final>>
     \/ pc = "dumping" /\ round' = [round EXCEPT ![at][r] = out]
                       /\ UNCHANGED <<base, final>>
     \/ pc = "finalDumping" /\ final' = [final EXCEPT ![at] = out]
                            /\ UNCHANGED <<base, round>>
  /\ pc' = IF pc = "fullDumping" \/ (pc = "dumping" /\ ~Live) THEN "undo"
           ELSE "failed"
  /\ UNCHANGED <<ctlVars, recv, frozen, bad>>

(* The guest is resumed before the error of a resync or of a paused round  *)
(* is returned.                                                            *)
UndoPause ==
  /\ pc = "undo"
  /\ ResumeVM
  /\ pc' = "failed"
  /\ UNCHANGED <<ctlVars, diskVars, frozen, bad>>

(* migrate's error path.  The abort is refused or lost, or wipes the       *)
(* target's runtime directory.                                             *)
AbortTarget ==
  \/ UNCHANGED diskVars
  \/ /\ base' = [base EXCEPT ![to] = NoFile]
     /\ recv' = [recv EXCEPT ![to] = NoFile]
     /\ final' = [final EXCEPT ![to] = NoFile]
     /\ round' = [round EXCEPT ![to] = [i \in Rounds |-> NoFile]]

(* Variant: the rollback does not force a fresh base.                      *)
Rollback_KeepsBase ==
  /\ pc = "failed"
  /\ AbortTarget
  /\ ResumeVM
  /\ pc' = "idle"
  /\ UNCHANGED <<at, to, r, needsResync, baseFile, frozen, bad>>

Rollback ==
  /\ pc = "failed"
  /\ AbortTarget
  /\ needsResync' = TRUE
  /\ ResumeVM
  /\ pc' = "idle"
  /\ UNCHANGED <<at, to, r, baseFile, frozen, bad>>

(* The same, but the source does not resume: StateDead.                    *)
RollbackDead ==
  /\ pc = "failed"
  /\ AbortTarget
  /\ needsResync' = TRUE
  /\ pc' = "dead"
  /\ UNCHANGED <<vmmVars, at, to, r, baseFile, frozen, bad>>

(* Variant: a new guest whose base is still the old guest's image.         *)
Reboot_OldBase(h, m) ==
  /\ pc \in {"idle", "dead"}
  /\ Booted(m)
  /\ at' = h
  /\ needsResync' = FALSE
  /\ base' = [base EXCEPT ![h] = [data |-> Pages, c |-> m]]
  /\ pc' = "idle"
  /\ UNCHANGED <<to, r, baseFile, recv, final, round, frozen, bad>>

(* DELETE /vms/{id} and POST /vms: a new guest in the same directory, with *)
(* a provision-time Full snapshot of its memory m.                         *)
Reboot(h, m) ==
  /\ pc \in {"idle", "dead"}
  /\ Booted(m)
  /\ at' = h
  /\ baseFile' = "base"
  /\ needsResync' = FALSE
  /\ base' = [base EXCEPT ![h] = [data |-> Pages, c |-> m]]
  /\ pc' = "idle"
  /\ UNCHANGED <<to, r, recv, final, round, frozen, bad>>

-----------------------------------------------------------------------------
Steps ==
  \/ Prepare \/ ResyncPause \/ ResyncDump \/ ResyncDone \/ ResyncResume
  \/ SendBase
  \/ RoundPause \/ RoundDump \/ RoundDone \/ RoundResume \/ SendRound
  \/ FinalPause \/ FinalDump \/ FinalDone \/ SendFinal \/ SendVMState
  \/ Finalize \/ CopyStep
  \/ CallFails \/ StreamFails \/ DumpFails \/ UndoPause
  \/ Rollback \/ RollbackDead

Next ==
  \/ GuestWrites
  \/ \E t \in Hosts : Migrate(t)
  \/ Steps
  \/ \E h \in Hosts, m \in BootImages : Reboot(h, m)

(* Every call returns or times out (fcapi 30 s, peer client 10 min), so    *)
(* the migrating goroutine always gets to its next step.                   *)
Spec == Init /\ [][Next]_vars /\ WF_vars(Steps)

-----------------------------------------------------------------------------
(* What a migration promises.                                              *)

(* The image the target is about to load equals the source's memory at     *)
(* the instant its vCPU state was saved, except on pages overwritten with  *)
(* data a merged file kept from an earlier snapshot.                       *)
ImageIntact ==
  pc \in {"vmstate", "finalize"} =>
    \A x \in Cells : PageOf[x] \in bad \/ recv[to].c[x] = frozen[x]

(* The guest that resumes on the target is the guest that was stopped on   *)
(* the source, after any number of earlier migrations, failures, rollbacks *)
(* and reboots in the same directories.  This needs diff files to have     *)
(* "holes everywhere else" (sparse.go), which a merged file has not.       *)
HandoverExact == [][Finalize => mem' = frozen]_vars

(* Between the final snapshot and the hand-over the guest executes         *)
(* nothing: no instruction is run whose effect the target does not have.   *)
NothingRunsAfterFreeze ==
  pc \in {"finalDumping", "sendFinal", "vmstate", "finalize"} => vcpus = "paused"

(* The base image the next migration would ship is right wherever the      *)
(* dirty maps are silent, or the agent knows that it has to be taken       *)
(* again.  (A rollback consumed dirty bits whose pages went to the         *)
(* target's discarded image.)                                              *)
BaseSound ==
  (pc \in {"idle", "prepare", "sendBase"} /\ ~needsResync) =>
    \A x \in Cells : PageOf[x] \in Dirty \/ BaseImage.c[x] = mem[x]

(* "With the DiffLive patch the guest never stops" before the blackout,    *)
(* a forced resync apart, nor after a rollback.                            *)
ServedWhilePreCopying ==
  pc \in {"idle", "prepare", "sendBase", "sendRound", "pause"}
     \cup (IF Live THEN {"round", "dumping"} ELSE {})
    => vcpus = "running"

(* A migration ends: with the guest on one side or the other, or dead.     *)
MigrationEnds == (pc # "idle") ~> (pc \in {"idle", "dead"})

-----------------------------------------------------------------------------
(* The strengthening that makes the above inductive.                       *)

Sending == {"round", "dump", "dumping", "resume", "sendRound", "pause",
            "finalDump", "finalDumping", "sendFinal", "vmstate", "finalize"}

(* Which snapshot call is under way at which pc.                           *)
OpAtPC ==
  /\ op = "Full" <=> pc = "fullDumping"
  /\ op \in {"Diff", "DiffLive"} <=> pc \in {"dumping", "finalDumping"}
  /\ pc \in {"fullDump", "fullDumping", "finalDump"} => vcpus = "paused"
  /\ pc \notin {"idle", "dead"} => to # at
  /\ pc \in {"fullPause", "fullDump", "fullDumping", "fullResume"} => needsResync
  /\ pc \in Sending \cup {"sendBase"} => ~needsResync

(* Queue pages are written without a mark, so they must never lose theirs. *)
QueuesMarked == QueuePages \subseteq vmm

(* A dump copies nothing but what it selected.                             *)
TodoSelected == \A x \in todo : PageOf[x] \in sel

(* Images that were meant to be complete have no holes.                    *)
NoHoles ==
  /\ (pc \in {"idle", "prepare", "sendBase"} /\ ~needsResync) =>
       \A x \in Cells : PageOf[x] \in BaseImage.data
  /\ pc \in Sending => \A x \in Cells : PageOf[x] \in recv[to].data
  /\ pc = "fullResume" => \A x \in Cells : PageOf[x] \in base[at].data

ResyncSound ==
  /\ pc = "fullDumping" =>
       \A x \in Cells : /\ PageOf[x] \in sel
                        /\ x \in todo \/ (PageOf[x] \in out.data /\ out.c[x] = mem[x])
  /\ pc = "fullResume" =>
       \A x \in Cells : PageOf[x] \in Dirty \/ base[at].c[x] = mem[x]

(* The target's image during the rounds: right, or the page is dirty, or   *)
(* it is in the diff that is being dumped or sent.                         *)
ImageCovered ==
  /\ pc \in {"round", "dump", "pause", "finalDump"} =>
       \A x \in Cells : PageOf[x] \in bad \cup Dirty \/ recv[to].c[x] = mem[x]
  /\ pc = "dumping" =>
       \A x \in Cells : PageOf[x] \in bad \cup kvm \cup left \cup sel
                          \/ recv[to].c[x] = mem[x]
  /\ pc \in {"resume", "sendRound"} =>
       \A x \in Cells : PageOf[x] \in bad \cup Dirty \cup sel
                          \/ recv[to].c[x] = mem[x]

(* The diff itself: a selected page is in the file with its current value, *)
(* or dirty again.                                                         *)
DiffCovers ==
  /\ pc \in {"dumping", "finalDumping"} =>
       \A x \in Cells : (PageOf[x] \in sel /\ x \notin todo) =>
         PageOf[x] \in out.data /\ (PageOf[x] \in kvm \/ out.c[x] = mem[x])
  /\ pc \in {"resume", "sendRound"} =>
       \A x \in Cells : PageOf[x] \in sel =>
         /\ PageOf[x] \in round[at][r].data
         /\ PageOf[x] \in Dirty \/ round[at][r].c[x] = mem[x]

(* The final diff, taken of a machine that stands still.                   *)
FinalCovers ==
  /\ pc = "finalDumping" =>
       /\ mem = frozen
       /\ kvm = {} /\ left = {}
       /\ \A x \in Cells : PageOf[x] \in bad \cup sel \/ recv[to].c[x] = mem[x]
  /\ pc = "sendFinal" =>
       \A x \in Cells :
         IF PageOf[x] \in sel
         THEN PageOf[x] \in final[at].data /\ final[at].c[x] = frozen[x]
         ELSE PageOf[x] \in bad \/ recv[to].c[x] = frozen[x]

(* Without merging, a dump's file has extents only where it selected.      *)
NoStaleFiles ==
  ~MergeExisting =>
    /\ bad = {}
    /\ pc \in {"dumping", "finalDumping"} => out.data \subseteq sel
    /\ pc \in {"resume", "sendRound"} => round[at][r].data \subseteq sel
    /\ pc = "sendFinal" => final[at].data \subseteq sel

IInv ==
  /\ TypeOK
  /\ OpAtPC
  /\ QueuesMarked
  /\ TodoSelected
  /\ NoHoles
  /\ BaseSound
  /\ ResyncSound
  /\ ImageCovered
  /\ DiffCovers
  /\ FinalCovers
  /\ ImageIntact
  /\ NothingRunsAfterFreeze
  /\ NoStaleFiles

(* What makes ServedWhilePreCopying inductive: a paused round has not been *)
(* paused yet when it starts, whichever way the rounds are taken.          *)
ServedInv ==
  /\ ServedWhilePreCopying
  /\ pc = "round" => vcpus = "running"
=============================================================================
