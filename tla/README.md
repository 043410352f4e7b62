# Specifications of fc-live-migration

TLA+ models of the live migration of Firecracker microVMs in this repository:
what the patched snapshot call does to guest memory, what the agents do with
it, who runs the guest when something fails, and whether the tools that measure
all this (prober, benchmark, the guest's own memory check) can be believed. TLC checks the models on
small instances; TLAPS proves every safety property that the passing runs check, and that the
agents implement the abstract specification of ownership, for instances of any size.

## The system

| Part | Source | State | Operations |
|---|---|---|---|
| Patched Firecracker | `patches/0001-*.patch` | guest memory, KVM dirty log, VMM dirty bitmap (doubling as the backlog of a budgeted dump) | `PUT /snapshot/create` of type Full, Diff, DiffLive; pause, resume, load |
| Source side of a migration | `internal/agent/migrate.go` | VM state, `needsResync`, `baseMem`, files in the VM's directory, the loop's variables | `migrate`, `migrateInner`, `captureRound`, `sendMemFile`, rollback |
| Target side | `internal/agent/receive.go` | receiving VM, `recv.mem` | prepare, mem, vmstate, finalize, abort |
| Public API and registry | `internal/agent/server.go`, `vm.go` | `Agent.vms`, `VM.state`, processes | create, boot, delete, migrate |
| Throttle | `internal/agent/throttle.go` | one duty cycler per VM, goroutines on their way out | `SetLevel`, the SIGSTOP/SIGCONT cycle |
| Sparse stream | `internal/sparse/sparse.go` | extents, checksum, the receiving file | `WalkExtents`, `Send`, `Receive` |
| API client | `internal/fcapi/client.go` | none | one call per Firecracker request, 30 s timeout |
| Telemetry | event hub in `server.go`, `timeline.go`, `garp.go` | subscribers; none | publish, mark, one ARP frame |
| Prober | `cmd/fcprobe` | samples, shared by two loops | send, receive, `window`, `stats`, `switchoverBlackout` |
| Benchmark | `cmd/fcprobe` | where it takes the guest to be | `oneMigration`, `waitGuestStatus`, `rebootVM`, `orderAgents` |
| Guest workload | `cmd/guestd` | self-describing pages, error count | write and verify pages, UDP echo, `POST /dirty` |
| Start-up | `cmd/migrated` | none | flags |

The source agent drives everything: it calls its own Firecracker over the API
socket and the target agent over HTTP, in the order prepare, base image,
rounds, (pause) final diff, vmstate, finalize; on any error it sends abort and
resumes the guest. The operator's requests act on the same registry meanwhile.

What is hard: the guest writes memory while a live dump reads it; a budget
splits a dirty set over many calls; a failed call has already consumed dirty
bits; files of one attempt are still there in the next; a request may take
effect although its caller has given up; creates and deletes interleave with
every step; duty-cycle goroutines outlive the level they were started for; a
stream is applied before its checksum is known; a request names a VM but not
the attempt it belongs to; a probe's reply may overtake the booking of the
probe; a benchmark goes on after failures with its own idea of where the guest
is; and the guest is stopped between any two stores of its checker. `PROJECT.json` lists these
hazards at their lines.

## Modules

| Module | Models | Composed with |
|---|---|---|
| `LiveSnapshot` | memory, dirty maps and snapshot calls of one Firecracker | used by the next two |
| `DiffChain` | an arbitrary client of the snapshot calls | extends `LiveSnapshot` |
| `PreCopy` | the data path: images and files of a migration on all hosts | extends `LiveSnapshot` |
| `SparseStream` | one transfer, record by record | justifies `PreCopy`'s one-step `Splat` and `Part` |
| `GuestOwner` | abstract: one owner, stopped and then running on one host | |
| `Handover` | the control plane of the agents for one VM ID | implements `GuestOwner` |
| `Bench` | the benchmark as a client of the agents | extends `Handover` |
| `Prober` | probes, replies, one switchover, and the figures computed from them | |
| `Scribbler` | the guest's self-verifying pages under exact and faulty restores | checks end to end what `PreCopy` proves |
| `Convergence` | the pre-copy loop's exits, escalation, duty cyclers | |
| `DiffChainProofs`, `PreCopyProofs`, `ConvergenceProofs`, `ScribblerProofs`, `SparseStreamProofs`, `ProberProofs` | theorems | extend the modules they are about |
| `HandoverProofs` | theorems: one runner; survival and the refinement; the received image | extends `Handover` |
| `RegistryProofs` | theorems: registries, what is left behind, the benchmark | extends `HandoverProofs` and `Bench` |
| `MC...` | bounds, model values, symmetry for TLC | |

Operators named `X_Something`, each under a comment "Variant", are deliberate
mistakes: replacing X by the variant must break the property that
`PROJECT.json` pairs with it. No specification uses them.

**LiveSnapshot.** A cell is what one store writes; several cells share a page
and pages are what the bitmaps track, so a page can be torn. `SnapshotBegin` is
the call up to the dirty-log fetch (which clears KVM's log), `CopyCell` copies
one cell with the value it has then, `SnapshotDone` resets the VMM bitmap to
the leftover and marks the queue pages again, `SnapshotFails` merges the
consumed bits back. vCPU stores interleave with all of these; device stores
run on the event loop and do not interleave with a call. Queue pages are
written by devices without a mark. `MergeExisting` says whether a diff written
into an existing file of the right size keeps the data that is there; that code
is not in the repository, so both answers are kept.

**PreCopy.** `pc` is the next call of `migrateInner`. Each call may fail
(`CallFails`; an error after the effect is the same failure one step later),
streams may break half-way (`StreamFails`), dumps may fail (`DumpFails`, after
which a paused guest is resumed, `UndoPause`). The rollback sets `needsResync`;
whether the abort reached the target is open. `Reboot` is delete plus create in
the same directory. An agent is live or stock by its own configuration
(`LiveRounds` is the set of the live ones). `frozen` and `bad` are history.
When the loop stops is left open here; `Convergence` has the policy.

**Handover.** Requests are records that outlive their caller (`orphan`), so a
request abandoned by a timeout or a cancelled context can still be served at
any later time, in a later attempt too. Requests carry a VM ID and nothing
else, as in the code; `att` is a history variable by which `LoadedWhole` tells
which attempt a piece of a received image came from. `files` says what the VM's
directory on each host holds. An action is what a handler does under one lock,
or one request to Firecracker: finalize checks, loads, then says "running";
abort checks, kills, frees the slot, then removes the directory; DELETE
(`Deletes` of them at a time, each at its own point of `del`) looks the VM up,
kills it, says "dead", then frees the slot, of whoever is in it by then; the
source of a finished migration kills its process, then says "migrated". A load or a
resume may also succeed in Firecracker and be reported as an error, when the
answer comes after the client's 30 s (`client.go:53`). `Create` shows the
registry as `handleCreateVM` leaves it, `BootSpawn` and `Boot` are the goroutine
that starts the process afterwards. Merged are: prepare's `putVM` with the kill
of the VM it has replaced, which no registry leads to any more; handleMem's and
handleVMState's check with their writing, between which only another attempt's
prepare or abort could change anything, which `LoadedWhole` leaves aside; and
pause with the final snapshot, and the calls that configure and start a booting
machine: a kill between two of them is one before them, which fails them all. `Faults` and `Ops` select
what may go wrong and what the operator does. `trouble` records what has happened that a migration is not built
to mask; a property that does not hold unconditionally names the troubles that
excuse it, so that it still says something of every other behaviour of the
same run. Agents do not crash: they keep no durable state.

**Bench.** One sequential client. `Order` is `orderAgents` (its `log.Fatalf` is
the state "fatal"), `PostMigrate` to `GuestStatus` is `oneMigration`, the
`Reboot...` actions are `rebootVM`. The agent's side of each call is the
corresponding action of `Handover`, in the same step or, for migrate, boot and
delete, the goroutine or handler it starts, which goes on if the benchmark gives up. A guest whose kernel has died answers nothing
("panic") while its process lives; calls may fail on their way or be given up
("call"). `BenchSpec` is the benchmark with the agents alone, unbounded; the
run `handover` bounds it and lets the operator be the client instead.

**Prober.** The clock counts discrete units; `Interval`, `BadRTT` and the reach of
`recvLoop`'s scan are constants. `sendLoop` may be held up before each of its
steps and the ticker drops ticks meanwhile; a packet that is never taken out of
`air` or `back` is lost. `MarkPause` to `MarkResumed` are the agents' time
stamps and the stop and load between them. The figures are written as one pass
over the samples, as in the code; `LongestStretch` is the reference.

**Scribbler.** A page is its header and a few keystream words. All that is
assumed of splitmix64 is that different seeds differ at every position. Exact
restores need no action (the machine simply goes on). `VerifyPage` is one step:
nothing is written while a page is read, and nothing is claimed of a page that a
faulty restore replaces at that very moment; `RestoreDamaged` makes one
page torn, stale, zero or a copy of another page.

**Convergence.** Sizes are abstract; `Tick` is the clock passing
`nextEscalation`. A duty cycler whose channel is closed may still complete one
more half-cycle before it notices, as Go's `select` allows. `mishaps` holds the
failures since the throttle was last released: a round that fails leaves the cycler on, the
next attempt's loop starts at level 0 beside it, and that attempt's
`SetLevel(0)` before the blackout (`Release`) takes it away. SIGSTOP is taken to
act on the threads it is sent to, as `throttle.go` intends; Linux stops the
whole process, in which case the snapshot calls are slowed too.

**SparseStream.** Offsets count pages; on the wire they are below
`2 * SignBit`, and `int64(off)` is negative from `SignBit` on. The
checksum is ideal (the sequence of the payloads). The pipe, bufio buffers and
sockets are one bounded queue.

## Runs

| Run | Question | Outcome |
|---|---|---|
| `diff_chain` | any client, any order of calls, any failures: is a write ever lost track of, a page dumped again without need, a live call unbounded or endless? | no |
| `precopy` | two migrations and a reboot between a live and a stock agent, any failures: is the resumed guest the frozen one, is it served until then, does every migration end? | yes |
| `precopy_stale` | the same if diffs merge into files left by an earlier attempt? | violated |
| `handover` | an operator or the benchmark; up to four migrations; refused, lost, late and cancelled requests, processes that do not start or resume, answers of Firecracker that come too late, creates and deletes at any time and between any two of their steps: at most one guest, never lost, truthful registries, nothing left behind, no mixed image; migrations and benchmarks end; `GuestOwner` is implemented while there is no trouble? | yes, but for what the properties name |
| `handover_split` | a lost reply to finalize | violated: two guests run |
| `handover_cancel` | the client of POST /migrate goes away | violated: the target is not torn down |
| `handover_create` | a refused POST /vms | violated: the running VM is forgotten |
| `convergence` | does the loop end; is the throttle never raised early, the recorded level the applied one, every cycler gone at the hand-over, at most one in charge, and nobody left stopped? | yes; between a failed loop and the next release the level is not the applied one, and the leftover cycler slows the guest before the allowance |
| `convergence_leak` | the same with a round that fails | violated: the throttle stays on |
| `sparse_stream` | every file onto every image, with breaks and altered records | whole, or noticed; never oversized |
| `prober` | stalls, losses, delays, one switchover at any time: are the figures the longest runs of lost and of bad probes, and do they neither hide an outage nor charge one elsewhere? | yes; two races of an answered probe are named, and a sender's stall inside a run is charged, against `fcprobe/main.go:237` |
| `scribbler` | any interleaving of stores, checks and restores: no false alarm, and does a clean report mean complete pages? | yes |

The runs that are expected to be violated state what a comment or a document of
the repository says; `PROJECT.json` quotes it under `findings`.

What the excuses in `handover`'s properties stand for. Each was first a
counterexample to the property without it:

* a finalize whose reply is lost, or a create during a migration, may leave two
  guests (`OneRunner`); their migrations may then cross, and prepare kills
  whatever holds the ID on the target (`receive.go:54`), both of them
  (`GuestSurvives`);
* a prepare or abort that arrives late hits the guest's new process, and a
  migration to the host the guest is on kills it (`GuestSurvives`);
* an abort's `RemoveAll` may delete the directory that a newer attempt or VM has
  just made (`receive.go:157`); a late prepare and a late finalize together
  start a guest that no registry leads to (`RegistryTruthful`);
* a DELETE frees the slot of whoever is in it by then: a prepare that comes
  between its lookup and `deleteVM` (`server.go:176`, `181`) has its new VM
  dropped, which nobody can abort, delete or find afterwards, though finalize
  may just have started the guest in it ("drop": `RegistryTruthful`,
  `LeavesNothing`);
* a Firecracker that has loaded and resumed the guest but answers late makes
  finalize report an error (`client.go:53`, `receive.go:115`); the VM is still
  "receiving", so the abort kills it and the source goes on, unless that abort
  is not sent: it is the same trouble as a lost reply ("finalize": `OneRunner`);
* a DELETE that arrives before boot has started its process tears nothing down
  (`vm.go:155`), and a Firecracker that does not become ready is neither killed
  nor registered (`receive.go:41`) (`RegistryTruthful`, `LeavesNothing`);
* pieces of an abandoned attempt that arrive late mix with the next one's
  (`LoadedWhole`);
* a DELETE of `rebootVM` that is lost leaves a guest behind; the POST that
  follows answers 409, frees the slot, and the other host boots a second guest
  (`BenchOnGuest`).

Smaller disagreements seen while modelling. A live dump resets the VMM's
bitmap and marks what its budget left out again; so says the comment at
`dump_dirty_live` (patch:362-371), and `NoRedump` holds because of it. But the
patch's commit message (patch:17-18), the comment of its trait (patch:308-312),
`internal/fcapi/client.go:21-23` and `docs/architecture.md:49-53` still say that a live dump
preserves the bitmap and that only the final paused `Diff` resets it, which is the "earlier
design" that never converged. (The mutant of `NoRedump` is that design.) A probe whose reply is read before
`sendLoop` has booked it counts as lost for good (`fcprobe/main.go:133`). A
sender held up between two lost probes does lengthen the lost run, although the
comment says that it "contributes nothing" (`fcprobe/main.go:237`). The client's
figure charges one probe interval, at the end of a run, and not one "at each
end" (`docs/measurements.md:21`); `OutageIsMeasured` states what is true. A page
that was lost as a whole, so that an older complete write of it is restored,
verifies: the guest's check finds tears, not staleness, against "a single torn
or lost page" (`README.md:54`). `PreCopy` is where stale pages are excluded.

**Bounds.** Three pages, the last of them a queue's, and a budget of one page
are the least for which a live dump leaves an ordinary page in its backlog (a
queue's page is marked after every dump anyway); the first page of `diff_chain`
has two cells, so that it tears. Two values tell an old cell from a new one. Two
stores, two attempts and a reboot (three attempts for the merge case) let a
write fall before, during and after each dump of an attempt that follows a
failed one. Handover has two hosts and five VM objects: the source, a
receiving one, a stale receiving one, an orphan and a new one. Four migrations
go to and fro twice as long as nothing untoward happens, two after a lost
request (so that it can be served in the next attempt), one after a create or
delete or a cancelled request; one kind of request is lost, and the operator
issues two creates or deletes, the second while the first is served, each of
which multiplies what comes later. One DELETE is under way at a time (the
proofs are for any number); a late load is not combined with other lost
requests, but with a client that goes away, so that its abort is not sent. The
benchmark makes two runs, so that the second starts from whatever the first
left, and one of its own calls fails. The prober's six clock units with an
interval of two give three probes: one before, one during and one after an
outage, and a scan that reaches back over two shows what falls out of it. Two
pages of four words, two iterations and rates of one and two pages per
iteration let a page be overwritten between any two of its checks.
Convergence has three rounds, enough for two
plateaus, and three cyclers: one active and two on their way out. Four pages
with chunks of two give extents of one, one and a half and two chunks, at both
ends of the file; offsets of four bits wrap around.

**Fairness.** Weak fairness of the migrating goroutine and of the handlers, DELETE's included:
every call to Firecracker (30 s) and to the peer (10 min) returns or times out,
and Go schedules runnable goroutines. The guest, the operator and every fault
are under no fairness. The benchmark's client calls have timeouts (5 s, 90 s, 10 min), hence
weak fairness of its steps. In `DiffChain` the event loop finishes a call it has
started; in `Convergence` timers fire and a closed channel is eventually
selected; in `SparseStream` both ends make progress.

Deadlock checking is off where the modelled activity comes to an end: a bounded
number of requests, a transfer that is over, a VM that has migrated away.

## Proofs

For arbitrary constants: pages, cells, values, budgets, hosts, VM objects,
rounds, attempts, words, iterations, samples and runs of the benchmark, finite or not. The named assumptions on
the constants are their types, and these facts of the code:
`Convergence!DrainAssumption` (a round's budget is at most the size below which
a plateau is accepted; both are constants of `migrate.go`); `SparseStream`'s
`SizeAssumption` and `ChunkAssumption` (a file is smaller than 2^63, since
`Send` gets its size from `Seek` as an `int64`, and a chunk of 4 MiB is not larger); that the benchmark's two hosts differ (`Bench!HostSeqAssumption`); and
that there are pages in `Scribbler`, VM objects in `Handover`, and a `NoSlot`
that is none of them.

Each proof has the same shape. An inductive invariant contains the property
and what it needs; it holds initially, every action keeps it (one lemma or one
case per action), and the property follows. TLC checked every invariant on
small instances before it was proved.

| Theorem | Property | Why the property is not inductive by itself |
|---|---|---|
| `DiffChainProofs!NothingIsLost` | `NothingLost` | it speaks of the time between calls. `IInv` adds the middle of one: a written page is selected, left over, or dirty again (`NothingLostInCall`); a page copied and then written is in KVM's fresh log (`TornPagesAreDirty`); a failing call still has every consumed bit (`FailureRecovers`); queue pages keep their mark (`QueuesMarked`); a Full dump reads a machine that stands still |
| `NothingIsRedumped` | `NoRedump` | a mark may wait in four places; a clean page has none of them (`CleanIsUnmarked`) |
| `CallsAreBounded` | `CallIsBounded` | rests on `FirstPagesBounded`: how many dirty pages are below a picked one is less than n and different for each, an injection into `0 .. n - 1` |
| `PreCopyProofs!ImageIsIntact`, `BaseIsSound`, `NothingRuns`, `ExactHandover` | `ImageIntact`, `BaseSound`, `NothingRunsAfterFreeze`, `HandoverExact` | the invariant follows the image through a migration: the base is right or dirty (`BaseSound`, `ResyncSound`); then the target's image is right, or the page is dirty, or in the diff under way (`ImageCovered`), and that diff has the right value or the page is dirty again (`DiffCovers`); the final diff is taken of a machine that stands still (`FinalCovers`); images have no holes (`NoHoles`). `NoStaleFiles` adds that without merging a file has extents only where its dump selected them |
| `ServedBeforeBlackout` | `ServedWhilePreCopying` | a stock agent pauses inside a round: the round must be entered running (`ServedInv`) |
| `ConvergenceProofs!LevelIsTracked`, `FullSpeedOutsideTheLoop`, `OneCyclerInCharge` | `LevelTracked`, `FullSpeedOutside`, `OneActiveCycler` | the level is that of exactly one cycler in charge, or none (`InCharge`); `SetLevel` stops the old one first, whoever started it, so nothing survives a release |
| `NoThrottleBeforeAllowance` | `NoEarlyThrottle` | the timer is due only after the allowance (`LoopSound`), and a drain whose budget is not full is below the plateau size, so the other way to escalate is closed (`DrainAssumption`); a cycler that is on at level 0 was left by a loop that failed |
| `ScribblerProofs!NoAlarmWithoutDamage`, `VerifiedPagesAreWhole` | `NoFalseAlarm`, `CheckedPagesAreWhole` | the page being written is new up to the cursor and one old write after it (`HalfWritten`), and the header word never names a future iteration (`HeadersPast`) |
| `HandoverProofs!OneRunnerHolds` | `OneRunner` | a claim to the guest (`Claims`) is held before and between runs: by the source until the snapshot is loaded, by a boot that has not started its process. `IInv`: at most one claim (`OneClaim`); what each request in flight refers to, at each of its steps (`CallSound`, `CallsApart`); how a VM object's process, state and goroutine go together (`SlotSound`, `RegSound`), where a VM killed by a DELETE or an abort that has yet to free its slot is told apart (`Fallen`); and what a DELETE under way has found and done (`DelSound`) |
| `GuestIsNeverLost` | `GuestSurvives` | who could kill the holder: prepare and abort are the only requests that kill; they come from the one source that has not handed over, go to another host, and their sender holds the guest; while nobody moves it, a VM object has it that nothing under way can stop (`Survival`) |
| `ImplementsOwner` | safety part of `OneOwner` | step simulation of `GuestOwner!Safety`: the owner is the host of the claimant, and a claim goes to another host only in the step that loads the snapshot (`Owned`, `Follows`) |
| `ImageIsWhole` | `LoadedWhole` | what `recv.mem` holds at each point of `migrateInner` (`Stage`) and that nobody else writes to it (`ImageSound`) |
| `RegistryProofs!RegistryIsTruthful` | `RegistryTruthful` | a late request names a VM and not an attempt, so one must know what it can still meet. `Attempts`: attempts differ in their number, and each makes one finalize request, as its last but for the abort. `BootAlone`: while a VM boots nobody else has the guest and no request is under way. `Crossing`: if a lost finalize has left two runners, the first attempt has handed over to where the other one runs, and only its rollback is left. `Registry`: who holds the guest is in the registry and has a directory, a finalize loads only what the registry lists, and an abort about to free a slot or remove a directory hits nothing that has the guest or is about to get it (`Known`). A DELETE about to free a slot hits what it has killed, an empty slot, or sets "drop" |
| `NothingIsLeft` | `LeavesNothing` | speaks of the end of migrations. `Leftover`: a process that waits is in the registry or in a prepare's hands, and somebody who will load it or abort goes on (`Cared`) |
| `BenchTypeCorrect`, `BenchFindsGuest` | `BenchTypeOK`, `BenchOnGuest` | where the guest is at each of the benchmark's calls (`Whereabouts`): on its host (`At`), under way with the one request of the one migration (`Moving`), arrived, being booted (`Booted`), or, during a reboot, only on hosts that its loop has still to visit (`Ahead`) |
| `SparseStreamProofs!TransferIsWhole`, `BrokenTransferIsPart`, `NothingIsFalselyRejected` | `DeliveredWhole`, `PartOfFile`, `NoFalseReject` | a record says nothing of the pages before it. `IInv` has a witness: the page of every byte sent so far, strictly ascending, with the rest still in the extents (`Sent`). The records under way carry the bytes after those received, each for its page, as far as the faults leave that true (`Carried`); those received are in place, the rest untouched (`Placed`). At the trailer nothing is under way, so both checksums have the same length and, undamaged, are equal |
| `SparseStreamProofs!SizeIsRespected` | `SizeRespected` | needs of the invariant only that the file has its size after the header; and `FitsIsInside`: below `SignBit` the sum does not wrap |
| `ProberProofs!LossesAreReal` | `LossIsReal` | what is in the air, on its way back or answered has its sample or is about to get it; the scan's reach is the one case in which that is not enough |
| `FiguresAreExact` | `FiguresExact` | needs only that samples are in the order of sending. The code's loops are followed step by step (`ScanLoop`, by least counterexample over the window's length): after each step the open run and the longest one are those of the part read so far (`RunsExact`); `LongestExact` compares with the definition over all pairs of ends |
| `OutageMeasured`, `BrownoutNotCounted` | `OutageIsMeasured`, `BrownoutExcluded` | the agents' marks bracket the outage (`Bracketed`); the samples of an outage that nobody answered are in one lost run (`RunAround`), and the run's ends are compared with the marks as the code compares them (`BlackoutIs`) |

`ExactHandover` assumes `~MergeExisting`; the other theorems about `PreCopy` do
not, and say exactly which pages merging may spoil (`bad`). The theorems about
`Handover` are about its `Spec`, in which any operator issues any requests;
`RegistryProofs!BenchIsAClient` shows that the benchmark's behaviours are among
them (if the operator may create and delete), so they hold under the benchmark
too. None of those theorems uses fairness. `ProberProofs` holds for any
`MaxTime`, the bound on the clock.

What the proofs found out about the properties. Stated for two hosts, three of
them do not hold for more, and TLC found the traces once three were given to
it. With three hosts two guests of one name may migrate to the third and mix in
its `recv.mem`, so `LoadedWhole` excuses "create". After a lost finalize two
runners of the guest may migrate to the third host, where the abort of one
frees the slot of the other; a migration to the host the guest is on does the
same with two. `RegistryTruthful` and `LeavesNothing` excuse that by the number
of attempts (and "self"), which the bounds of the run exclude anyway. And who
owns the guest abstractly (`OwnerOf`) is now read off the one claim instead of
the two registries.

Out of the prover's reach and only model-checked: all liveness properties
(`CallEnds`, `MigrationEnds`, `MigrationSettles`, `LoopEnds`, `GuestFreed`,
`TransferEnds`, `BenchEnds`) and with them the liveness part of `OneOwner`.
Every other property of a passing run is stated by a theorem.

## Not modelled

Machine configuration during a boot (one step), the vmstate file's contents,
ARP frames and bridges (a failure to send one is part of `FinalizeRun`: none of
the request's outcome depends on it), real durations (so no claim on the length
of a blackout, only on how it is measured), the benchmark's CSV and quantiles,
`serviceMap` and other layout, the guest's TCP counter, start-up. The event hub
is telemetry that nothing reads back: `publish` sends with a `default` branch,
so a slow subscriber loses events and holds up nobody. Local I/O errors have the
effect of a failed call. Several VM IDs do not share state and are not composed.
The API socket path shared by successive processes of one VM is left out.

## Plan

Done, in this order: `LiveSnapshot` and `DiffChain`, their proofs; `PreCopy`
and its proofs; `GuestOwner` and `Handover`; `Convergence`; `SparseStream`;
`Handover` again with attempts, directories and late requests, and its client
`Bench`; `Prober`; `Scribbler`; the proofs about `Convergence`, `Scribbler`,
`Handover`, the safety part of its refinement included, `SparseStream`,
`Prober`, the registries and the benchmark.

What is left: liveness, which stays with TLC, and a proof that
`SparseStream`'s transfers are the `Splat` and `Part` steps of `PreCopy` (the
two modules are connected by `TransferIsWhole` and `BrokenTransferIsPart`, but
not by a refinement).
