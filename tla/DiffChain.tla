----------------------------- MODULE DiffChain ------------------------------
(***************************************************************************)
(* What the patched snapshot call promises to any client: a full image     *)
(* with every completed diff merged onto it differs from guest memory at   *)
(* most on pages that are still marked dirty somewhere.  The client here   *)
(* is arbitrary: it takes Full, Diff and DiffLive snapshots in any order,  *)
(* pauses and resumes at will, and calls may fail half-way.                *)
(*                                                                         *)
(*   image    the client's merged image (a failed call adds nothing)       *)
(*   clean    history: pages dumped by a completed call and not written    *)
(*            since that call read them                                    *)
(***************************************************************************)
EXTENDS LiveSnapshot

VARIABLES image, clean

chainVars == <<vmmVars, image, clean>>

TypeOK == VMMTypeOK /\ image \in Memory /\ clean \subseteq Pages

Init ==
  /\ mem \in Memory
  /\ image = mem
  /\ clean = {}
  /\ kvm = {}
  /\ vmm = QueuePages
  /\ vcpus = "running"
  /\ op = "idle"
  /\ sel = {}
  /\ todo = {}
  /\ left = {}
  /\ fetched = {}
  /\ out = NoFile

Store ==
  \E x \in Cells, v \in Values :
    /\ GuestStore(x, v) \/ DeviceStore(x, v)
    /\ clean' = clean \ {PageOf[x]}
    /\ UNCHANGED image

RunState == (PauseVM \/ ResumeVM) /\ UNCHANGED <<image, clean>>

Begin ==
  \E type \in {"Full", "Diff", "DiffLive"} :
    SnapshotBegin(type, NoFile) /\ UNCHANGED <<image, clean>>

Copy == \E x \in Cells : CopyCell(x) /\ UNCHANGED <<image, clean>>

Done ==
  /\ SnapshotDone
  /\ image' = [x \in Cells |-> IF PageOf[x] \in sel THEN out.c[x] ELSE image[x]]
  /\ clean' = clean \cup (IF op = "Full" THEN sel ELSE sel \ kvm)

Fails == SnapshotFails /\ UNCHANGED <<image, clean>>

Next == Store \/ RunState \/ Begin \/ Copy \/ Done \/ Fails

(* Firecracker's event loop finishes a call it has started.                *)
Spec == Init /\ [][Next]_chainVars /\ WF_chainVars(Copy) /\ WF_chainVars(Done)

-----------------------------------------------------------------------------
(* The promise, between calls: no write of a vCPU or of a device is ever   *)
(* lost track of, whichever calls ran, whichever of them failed and        *)
(* whatever the guest wrote while a live dump was reading its pages.       *)
NothingLost ==
  op = "idle" => \A x \in Cells : PageOf[x] \in Dirty \/ image[x] = mem[x]

(* Nor is a page dumped again without need: one that was dumped and not    *)
(* written since is not marked, queue pages apart.  This is what the patch *)
(* says at dump_dirty_live: the bitmap is "reset and re-marked with        *)
(* exactly that leftover", and an earlier design without the reset kept    *)
(* the backlog marked, "so every round re-dumped the same pages".  The     *)
(* patch's commit message, its trait's comment (the bitmap "is preserved   *)
(* instead of reset"), client.go and architecture.md still describe that   *)
(* design; in it this does not hold (SnapshotDone_NoReset).                *)
NoRedump == op = "idle" => clean \cap Dirty \subseteq QueuePages

(* A live call's budget bounds what it dumps, hence how long it can hold   *)
(* the event loop.                                                         *)
CallIsBounded == op = "DiffLive" => Cardinality(sel) <= Budget

(* A call that was started is over eventually, even if the guest keeps     *)
(* writing pages the dump has yet to read.                                 *)
CallEnds == (op # "idle") ~> (op = "idle")

-----------------------------------------------------------------------------
(* While a call is under way and the KVM bits are consumed, a written page *)
(* is in the call's selection, left over for the next, or dirtied again.   *)
NothingLostInCall ==
  op # "idle" =>
    \A x \in Cells :
      PageOf[x] \in kvm \cup sel \cup left \/ image[x] = mem[x]

(* A dumped page of a live round may be torn or outdated in the file, but  *)
(* then it is in KVM's fresh log ("torn pages are always re-marked dirty", *)
(* dump_dirty_live).                                                       *)
TornPagesAreDirty ==
  op # "idle" =>
    \A x \in Cells :
      (PageOf[x] \in sel /\ x \notin todo) =>
        (op # "Full" /\ PageOf[x] \in kvm) \/ out.c[x] = mem[x]

(* What a failed call must still find: it keeps the consumed bits until it *)
(* is over.                                                                *)
FailureRecovers ==
  op # "idle" =>
    \A x \in Cells :
      PageOf[x] \in kvm \cup vmm \cup fetched \/ image[x] = mem[x]

(* Queue pages are written without a mark, so they must never lose theirs. *)
QueuesMarked == QueuePages \subseteq vmm

(* A Full call dumps everything, of a machine that stands still.           *)
FullStandsStill ==
  op = "Full" => vcpus = "paused" /\ \A x \in Cells : PageOf[x] \in sel

(* The inductive invariant behind NothingLost.                             *)
IInv ==
  /\ TypeOK
  /\ NothingLost
  /\ NothingLostInCall
  /\ TornPagesAreDirty
  /\ FailureRecovers
  /\ QueuesMarked
  /\ FullStandsStill

(* The inductive invariant behind NoRedump: a clean page has no mark in    *)
(* any of the four places a mark can wait, and what a call leaves over for *)
(* the next is not what it dumps itself.                                   *)
CleanIsUnmarked ==
  /\ clean \cap (kvm \cup vmm \cup fetched \cup left) \subseteq QueuePages
  /\ op # "idle" => sel \cap left = {}

RedumpInv == TypeOK /\ CleanIsUnmarked
=============================================================================
