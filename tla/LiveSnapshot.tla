---------------------------- MODULE LiveSnapshot ----------------------------
(***************************************************************************)
(* The memory side of one Firecracker process, as patched by               *)
(* patches/0001-*.patch: guest memory, KVM's dirty log, the VMM-internal   *)
(* dirty bitmap, and PUT /snapshot/create for its three types.             *)
(*                                                                         *)
(*   mem      guest memory, one value per cell.  A cell is what a single   *)
(*            store writes; several cells share a page, and pages are      *)
(*            what the bitmaps track, so a page can be torn.               *)
(*   kvm      KVM_GET_DIRTY_LOG: pages written by vCPUs since the last     *)
(*            fetch (fetching clears it).                                  *)
(*   vmm      the VMM bitmap: pages written by device emulation, plus the  *)
(*            backlog of pages that did not fit into a live dump's budget. *)
(*   vcpus    whether the vCPU threads execute.                            *)
(*   op       the snapshot call occupying the event loop, or "idle".       *)
(*   sel      pages the current (or last) call dumps.                      *)
(*   todo     cells of them not copied to the file yet.                    *)
(*   left     dirty pages the call leaves over, for want of budget.        *)
(*   fetched  KVM bits the call consumed.                                  *)
(*   out      the memory file the call writes; afterwards the client's.    *)
(*                                                                         *)
(* vCPU stores interleave with every step.  Device emulation runs on the   *)
(* event loop, so its writes happen only while op = "idle".  The dump      *)
(* writes runs of adjacent pages with one write; which cell is copied when *)
(* is therefore left open here, within the call.                           *)
(***************************************************************************)
EXTENDS Integers, FiniteSets

CONSTANTS
  Pages,          \* page numbers, in guest-physical order
  Cells,          \* the units one store writes
  PageOf,         \* the page a cell lies in
  Values,         \* what a cell may hold
  Zero,           \* what a hole of a sparse file reads as
  QueuePages,     \* pages of activated virtio queues: written without a mark
  Budget,         \* live_max_bytes, in pages
  MergeExisting   \* does Firecracker keep the data of an existing memory
                  \* file of the right size when it writes a diff into it?

ASSUME PagesAssumption == Pages \subseteq Nat
ASSUME PageOfAssumption == PageOf \in [Cells -> Pages]
ASSUME ValuesAssumption == Zero \in Values
ASSUME QueueAssumption == QueuePages \subseteq Pages
ASSUME BudgetAssumption == Budget \in Nat
ASSUME MergeAssumption == MergeExisting \in BOOLEAN

VARIABLES mem, kvm, vmm, vcpus, op, sel, todo, left, fetched, out

dumpVars == <<op, sel, todo, left, fetched, out>>
vmmVars == <<mem, kvm, vmm, vcpus, op, sel, todo, left, fetched, out>>

Memory == [Cells -> Values]

(* A sparse memory file: the pages that have data extents, and what a read *)
(* returns.  A missing file and a file of holes are the same thing.        *)
File == [data : SUBSET Pages, c : Memory]
NoFile == [data |-> {}, c |-> [x \in Cells |-> Zero]]

(* Variant: the budget test lets one page too many through.                *)
FirstPages_OffByOne(d, n) == {p \in d : Cardinality({q \in d : q < p}) <= n}

(* The budget runs out in address order: the first n pages of d.           *)
FirstPages(d, n) == {p \in d : Cardinality({q \in d : q < p}) < n}

Dirty == kvm \cup vmm

DumpSet(type) ==
  IF type = "Full" THEN Pages
  ELSE IF type = "Diff" THEN Dirty
  ELSE FirstPages(Dirty, Budget)

VMMTypeOK ==
  /\ mem \in Memory
  /\ kvm \subseteq Pages
  /\ vmm \subseteq Pages
  /\ vcpus \in {"running", "paused"}
  /\ op \in {"idle", "Full", "Diff", "DiffLive"}
  /\ sel \subseteq Pages
  /\ todo \subseteq Cells
  /\ left \subseteq Pages
  /\ fetched \subseteq Pages
  /\ out \in File

-----------------------------------------------------------------------------
(* A freshly restored or freshly snapshotted machine: nothing written yet, *)
(* the queue pages marked.                                                 *)
Booted(m) ==
  /\ mem' = m
  /\ kvm' = {}
  /\ vmm' = QueuePages
  /\ vcpus' = "running"
  /\ op' = "idle"
  /\ sel' = {}
  /\ todo' = {}
  /\ left' = {}
  /\ fetched' = {}
  /\ out' = NoFile

(* A store by a vCPU: KVM logs the page before the store completes.        *)
GuestStore(x, v) ==
  /\ vcpus = "running"
  /\ mem' = [mem EXCEPT ![x] = v]
  /\ kvm' = kvm \cup {PageOf[x]}
  /\ UNCHANGED <<vmm, vcpus, dumpVars>>

(* A store by device emulation, on the event-loop thread: it is not        *)
(* possible during a dump.  Queue pages are written without marking them.  *)
DeviceStore(x, v) ==
  /\ op = "idle"
  /\ mem' = [mem EXCEPT ![x] = v]
  /\ vmm' = IF PageOf[x] \in QueuePages THEN vmm ELSE vmm \cup {PageOf[x]}
  /\ UNCHANGED <<kvm, vcpus, dumpVars>>

PauseVM ==
  /\ op = "idle"
  /\ vcpus' = "paused"
  /\ UNCHANGED <<mem, kvm, vmm, dumpVars>>

(* Resuming a machine that already runs succeeds and changes nothing.      *)
ResumeVM ==
  /\ op = "idle"
  /\ vcpus' = "running"
  /\ UNCHANGED <<mem, kvm, vmm, dumpVars>>

-----------------------------------------------------------------------------
(* PUT /snapshot/create, from the file open to the dirty-log fetch.  Full  *)
(* and Diff save the vCPU state first, which only a paused VM allows.      *)
SnapshotBegin(type, old) ==
  /\ op = "idle"
  /\ type \in {"Full", "Diff"} => vcpus = "paused"
  /\ op' = type
  /\ sel' = DumpSet(type)
  /\ todo' = {x \in Cells : PageOf[x] \in DumpSet(type)}
  /\ left' = IF type = "Full" THEN {} ELSE Dirty \ DumpSet(type)
  /\ fetched' = IF type = "Full" THEN {} ELSE kvm
  /\ kvm' = IF type = "Full" THEN kvm ELSE {}
  /\ out' = IF MergeExisting THEN old ELSE NoFile
  /\ UNCHANGED <<mem, vmm, vcpus>>

(* Variant: a dump that goes back for cells dirtied meanwhile.             *)
CopyCell_Rescans(x) ==
  /\ op # "idle"
  /\ x \in todo
  /\ todo' = (todo \ {x}) \cup {y \in Cells : PageOf[y] \in sel \cap kvm}
  /\ out' = [data |-> out.data \cup {PageOf[x]},
             c |-> [out.c EXCEPT ![x] = mem[x]]]
  /\ UNCHANGED <<mem, kvm, vmm, vcpus, op, sel, left, fetched>>

(* One more cell reaches the file, with the value it has at this moment.   *)
CopyCell(x) ==
  /\ op # "idle"
  /\ x \in todo
  /\ todo' = todo \ {x}
  /\ out' = [data |-> out.data \cup {PageOf[x]},
             c |-> [out.c EXCEPT ![x] = mem[x]]]
  /\ UNCHANGED <<mem, kvm, vmm, vcpus, op, sel, left, fetched>>

(* Variants of the end of a dump: the bitmap is not reset; the queues are  *)
(* not marked again.                                                       *)
SnapshotDone_Sets(newVmm) ==
  /\ op # "idle"
  /\ todo = {}
  /\ op' = "idle"
  /\ vmm' = newVmm
  /\ kvm' = IF op = "Full" THEN {} ELSE kvm
  /\ left' = {}
  /\ fetched' = {}
  /\ out' = NoFile
  /\ UNCHANGED <<mem, vcpus, sel, todo>>
SnapshotDone_NoReset == SnapshotDone_Sets(vmm \cup left \cup QueuePages)
SnapshotDone_QueuesUnmarked == SnapshotDone_Sets(left)

(* The dump is complete: the bitmap keeps exactly the leftover (Full also  *)
(* drops KVM's log), and the queue pages are marked again.                 *)
SnapshotDone ==
  /\ op # "idle"
  /\ todo = {}
  /\ op' = "idle"
  /\ vmm' = left \cup QueuePages
  /\ kvm' = IF op = "Full" THEN {} ELSE kvm
  /\ left' = {}
  /\ fetched' = {}
  /\ out' = NoFile
  /\ UNCHANGED <<mem, vcpus, sel, todo>>

(* Variant: a failed dump forgets the KVM bits it consumed.                *)
SnapshotFails_Forgets ==
  /\ op # "idle"
  /\ op' = "idle"
  /\ todo' = {}
  /\ left' = {}
  /\ fetched' = {}
  /\ out' = NoFile
  /\ UNCHANGED <<mem, kvm, vmm, vcpus, sel>>

(* The dump fails while writing: the consumed KVM bits are merged back.    *)
SnapshotFails ==
  /\ op # "idle"
  /\ op' = "idle"
  /\ vmm' = vmm \cup fetched
  /\ todo' = {}
  /\ left' = {}
  /\ fetched' = {}
  /\ out' = NoFile
  /\ UNCHANGED <<mem, kvm, vcpus, sel>>
=============================================================================
