------------------------------ MODULE Handover ------------------------------
(***************************************************************************)
(* The control plane: who runs the guest while one agent drives migrate    *)
(* (internal/agent/migrate.go) and the other serves its requests           *)
(* (internal/agent/receive.go), and what the public create and delete      *)
(* requests (server.go) do to the same registry meanwhile.  One VM ID.     *)
(* Memory contents are the subject of PreCopy.                             *)
(*                                                                         *)
(*   state, proc, host   VM.state, the Firecracker process and the agent   *)
(*                       of each VM object; "idle" is a process without a  *)
(*                       guest, waiting for a snapshot to load             *)
(*   reg                 Agent.vms[ID], per agent                          *)
(*   pc, target, ctx     the goroutine in migrate or boot for a VM object, *)
(*                       the peer it talks to, its request context         *)
(*   att, attempts       the migration attempt it is in, and their number  *)
(*                       (the code keeps neither: requests carry the VM's  *)
(*                       ID only)                                          *)
(*   del                 the DELETE requests under way: how far each       *)
(*                       handler is and the VM object it has found         *)
(*   calls               requests to the peer, from their sending until    *)
(*                       their reply is read.  A caller that gives up      *)
(*                       leaves its request behind as an orphan, which the *)
(*                       peer may still serve, at any later time.          *)
(*   files               per agent, what the VM's directory holds of which *)
(*                       attempt: recv.mem with the pieces received into   *)
(*                       it, and final.vmstate                             *)
(*   trouble             history: what happened that a migration is not    *)
(*                       built to mask.  Properties name what they excuse. *)
(*                                                                         *)
(* An action is what a handler does under one lock, or one request to      *)
(* Firecracker.  What is one step although the code makes several of it    *)
(* says why.                                                               *)
(*                                                                         *)
(* Not modelled: crashes of an agent (it keeps no durable state), and the  *)
(* API socket, whose path is shared by successive processes of the same VM.*)
(***************************************************************************)
EXTENDS Integers, FiniteSets

CONSTANTS
  Hosts,
  Slots,      \* VM objects: bounds how many exist at a time
  NoSlot,
  Deletes,    \* DELETE requests: bounds how many are under way at a time
  Faults,     \* which of AllFaults happen
  Ops         \* which of AllOps the operator issues beside migrate

AllFaults == {"refuse",   \* a handler or a snapshot fails (disk, load error)
              "lost",     \* a request or reply is lost: timeout, reset
              "cancel",   \* the client of POST /migrate goes away
              "late",     \* Firecracker complies after its client's timeout
              "spawn",    \* a spawned Firecracker does not become ready
              "resume"}   \* the source does not resume
AllOps == {"create", "delete", "self"}

ASSUME FaultsAssumption == Faults \subseteq AllFaults
ASSUME OpsAssumption == Ops \subseteq AllOps
ASSUME SlotsAssumption == Slots # {} /\ NoSlot \notin Slots

VARIABLES state, proc, host, reg, pc, target, ctx, att, attempts, del, calls, files, trouble

slotVars == <<state, proc, host>>
srcVars == <<pc, target, ctx, att, attempts, del>>
vars == <<slotVars, reg, srcVars, calls, files, trouble>>

States == {"new", "booting", "running", "migrating", "receiving", "migrated", "dead"}
Procs == {"none", "idle", "running", "paused", "killed"}

(* The calls of migrate, in the order of a migration that succeeds: "mem"  *)
(* stands for the base image and the rounds, "final" for the last diff.    *)
Requests == {"prepare", "mem", "final", "vmstate", "finalize", "abort"}

(* Variant: the source process is killed before the target has loaded.     *)
AfterReply_KillEarly ==
  [prepare |-> "mem", mem |-> "pause", final |-> "vmstate",
   vmstate |-> "success", finalize |-> "success", abort |-> "resume"]

AfterReply == [prepare |-> "mem", mem |-> "pause", final |-> "vmstate",
               vmstate |-> "finalize", finalize |-> "success", abort |-> "resume"]
PCs == Requests \cup {"none", "pause", "success", "resume", "spawn", "boot"}

CallStates == {"sent", "spawned", "checked", "loaded", "killed", "freed", "ok", "err"}
Call == [from : Slots, kind : Requests, to : Hosts, att : Nat, slot : Slots \cup {NoSlot},
         st : CallStates, orphan : BOOLEAN]

(* A DELETE request: none, its VM object looked up (NoSlot if there is     *)
(* none), that object's process killed, its state set.                     *)
DelStates == {"none", "found", "killed", "dead"}
DelRequest == [st : DelStates, host : Hosts, slot : Slots \cup {NoSlot}]

(* What a directory holds: itself, recv.mem as prepare creates it, the     *)
(* pieces written into that, and final.vmstate.                            *)
Dir == <<"dir", 0>>
Kinds == {"dir", "recv", "mem", "final", "vmstate"}

Troubles == Requests \cup {"cancel", "spawn", "resume", "create", "delete", "drop", "boot", "self"}

TypeOK ==
  /\ state \in [Slots -> States]
  /\ proc \in [Slots -> Procs]
  /\ host \in [Slots -> Hosts]
  /\ reg \in [Hosts -> Slots \cup {NoSlot}]
  /\ pc \in [Slots -> PCs]
  /\ target \in [Slots -> Hosts]
  /\ ctx \in [Slots -> {"live", "cancelled"}]
  /\ attempts \in Nat /\ att \in [Slots -> 0 .. attempts]
  /\ del \in [Deletes -> DelRequest]
  /\ calls \subseteq Call
  /\ \A c \in calls : c.att <= attempts
  /\ files \in [Hosts -> SUBSET (Kinds \X (0 .. attempts))]
  /\ trouble \subseteq Troubles

(* A guest has been booted on one of the hosts.                            *)
Init ==
  \E h \in Hosts :
    LET s == CHOOSE x \in Slots : TRUE IN
    /\ state = [x \in Slots |-> IF x = s THEN "running" ELSE "new"]
    /\ proc = [x \in Slots |-> IF x = s THEN "running" ELSE "none"]
    /\ host = [x \in Slots |-> h]
    /\ reg = [x \in Hosts |-> IF x = h THEN s ELSE NoSlot]
    /\ pc = [x \in Slots |-> "none"]
    /\ target = [x \in Slots |-> h]
    /\ ctx = [x \in Slots |-> "live"]
    /\ att = [x \in Slots |-> 0] /\ attempts = 0
    /\ del = [d \in Deletes |-> [st |-> "none", host |-> h, slot |-> NoSlot]]
    /\ calls = {}
    /\ files = [x \in Hosts |-> IF x = h THEN {Dir} ELSE {}]
    /\ trouble = {}

(* VM objects nothing refers to any more; one of them, no matter which,    *)
(* stands for a new one.                                                   *)
Unused == {n \in Slots :
  /\ proc[n] \in {"none", "killed"}
  /\ pc[n] = "none"
  /\ \A h \in Hosts : reg[h] # n
  /\ \A c \in calls : c.slot # n
  /\ \A d \in Deletes : del[d].slot # n}
NewSlot == CHOOSE n \in Unused : TRUE

(* Variant: the process is left alone.                                     *)
Killed_Not(p) == p

(* VM.kill: a process that is not there stays so.                          *)
Killed(p) == IF p = "none" THEN "none" ELSE "killed"

(* A file of kind k, of attempt a, in place of an older one.               *)
Replaced(f, k, a) == {x \in f : x[1] # k} \cup {<<k, a>>}

-----------------------------------------------------------------------------
(* The source: migrate and migrateInner.                                   *)

Migrate(s, t) ==
  /\ reg[host[s]] = s
  /\ state[s] = "running"
  /\ pc[s] = "none"
  /\ t = host[s] => "self" \in Ops
  /\ state' = [state EXCEPT ![s] = "migrating"]
  /\ pc' = [pc EXCEPT ![s] = "prepare"]
  /\ target' = [target EXCEPT ![s] = t]
  /\ ctx' = [ctx EXCEPT ![s] = "live"]
  /\ attempts' = attempts + 1 /\ att' = [att EXCEPT ![s] = attempts']
  /\ trouble' = IF t = host[s] THEN trouble \cup {"self"} ELSE trouble
  /\ UNCHANGED <<proc, host, reg, del, calls, files>>

Pending(s) == {c \in calls : c.from = s /\ ~c.orphan}

(* The base image of a directory that is gone cannot be opened.            *)
NoBase(s) == pc[s] = "mem" /\ Dir \notin files[host[s]]

Request(s) == [from |-> s, kind |-> pc[s], to |-> target[s], att |-> att[s],
               slot |-> NoSlot, st |-> "sent", orphan |-> FALSE]

(* Variant: a request goes out at a point where there is none to make.     *)
Send_Unguarded(s) ==
  /\ Pending(s) = {}
  /\ calls' = calls \cup {Request(s)}
  /\ UNCHANGED <<slotVars, reg, srcVars, files, trouble>>

Send(s) ==
  /\ pc[s] \in Requests
  /\ Pending(s) = {}
  /\ ctx[s] = "live"
  /\ ~NoBase(s)
  /\ calls' = calls \cup {Request(s)}
  /\ UNCHANGED <<slotVars, reg, srcVars, files, trouble>>

(* An error ends migrateInner and starts the rollback; the outcome of the  *)
(* abort request is ignored.                                               *)
AfterError(p) == IF p = "abort" THEN "resume" ELSE "abort"

ReadReply(s) ==
  \E c \in Pending(s) :
    /\ c.st \in {"ok", "err"}
    /\ pc' = [pc EXCEPT ![s] = IF c.st = "ok" THEN AfterReply[@] ELSE AfterError(@)]
    /\ calls' = calls \ {c}
    /\ UNCHANGED <<slotVars, reg, target, ctx, att, attempts, del, files, trouble>>

(* The caller stops waiting; the request lives on without it.              *)
Abandon(s) ==
  /\ pc' = [pc EXCEPT ![s] = AfterError(@)]
  /\ calls' = (calls \ Pending(s)) \cup {[c EXCEPT !.orphan = TRUE] : c \in Pending(s)}
  /\ trouble' = trouble \cup {c.kind : c \in Pending(s)}
  /\ UNCHANGED <<slotVars, reg, target, ctx, att, attempts, del, files>>

TimeOut(s) ==
  /\ "lost" \in Faults
  /\ Pending(s) # {}
  /\ Abandon(s)

Cancel(s) ==
  /\ "cancel" \in Faults
  /\ pc[s] \notin {"none", "spawn", "boot"}
  /\ ctx[s] = "live"
  /\ ctx' = [ctx EXCEPT ![s] = "cancelled"]
  /\ trouble' = trouble \cup {"cancel"}
  /\ UNCHANGED <<slotVars, reg, pc, target, att, attempts, del, calls, files>>

(* A request under a cancelled context fails at once, sent or not, and so  *)
(* does one whose file is missing.                                         *)
FailsAtOnce(s) ==
  /\ pc[s] \in Requests
  /\ ctx[s] = "cancelled" \/ NoBase(s)
  /\ Abandon(s)

(* Variant: the guest keeps running.                                       *)
Paused_Not(p) == p
Paused(p) == "paused"

(* Pause and the final Diff snapshot, with final.vmstate.                  *)
Pause(s) ==
  /\ pc[s] = "pause"
  /\ IF proc[s] = "running"
     THEN /\ proc' = [proc EXCEPT ![s] = Paused(@)]
          /\ \/ /\ Dir \in files[host[s]]
                /\ files' = [files EXCEPT ![host[s]] = Replaced(@, "vmstate", att[s])]
                /\ pc' = [pc EXCEPT ![s] = "final"]
             \/ /\ Dir \notin files[host[s]] \/ "refuse" \in Faults
                /\ pc' = [pc EXCEPT ![s] = "abort"]
                /\ UNCHANGED files
     ELSE pc' = [pc EXCEPT ![s] = "abort"] /\ UNCHANGED <<proc, files>>
  /\ UNCHANGED <<state, host, reg, target, ctx, att, attempts, del, calls, trouble>>

(* The guest has been handed over: kill the local process, ...             *)
SucceedKill(s) ==
  /\ pc[s] = "success"
  /\ proc[s] # "killed"
  /\ proc' = [proc EXCEPT ![s] = Killed(@)]
  /\ UNCHANGED <<state, host, reg, srcVars, calls, files, trouble>>

(* ... then say so.                                                        *)
Succeed(s) ==
  /\ pc[s] = "success"
  /\ proc[s] = "killed"
  /\ state' = [state EXCEPT ![s] = "migrated"]
  /\ pc' = [pc EXCEPT ![s] = "none"]
  /\ UNCHANGED <<proc, host, reg, target, ctx, att, attempts, del, calls, files, trouble>>

(* Variant: the rolled-back VM is left in StateMigrating.                  *)
Resume_ForgetsState(s) ==
  /\ pc[s] = "resume"
  /\ proc' = [proc EXCEPT ![s] = IF @ = "paused" THEN "running" ELSE @]
  /\ pc' = [pc EXCEPT ![s] = "none"]
  /\ UNCHANGED <<state, host, reg, target, ctx, att, attempts, del, calls, files, trouble>>

(* The end of the rollback.  A Firecracker that resumes the guest but      *)
(* answers late leaves it running, and the VM taken for dead.              *)
Resume(s) ==
  /\ pc[s] = "resume"
  /\ \/ /\ proc[s] \in {"running", "paused"}
        /\ proc' = [proc EXCEPT ![s] = "running"]
        /\ state' = [state EXCEPT ![s] = "running"]
        /\ UNCHANGED trouble
     \/ /\ proc[s] \notin {"running", "paused"} \/ "resume" \in Faults
        /\ state' = [state EXCEPT ![s] = "dead"]
        /\ trouble' = trouble \cup {"resume"}
        /\ UNCHANGED proc
     \/ /\ proc[s] \in {"running", "paused"} /\ "late" \in Faults
        /\ proc' = [proc EXCEPT ![s] = "running"]
        /\ state' = [state EXCEPT ![s] = "dead"]
        /\ trouble' = trouble \cup {"resume"}
  /\ pc' = [pc EXCEPT ![s] = "none"]
  /\ UNCHANGED <<host, reg, target, ctx, att, attempts, del, calls, files>>

-----------------------------------------------------------------------------
(* The target: one handler per request.  Step(c, st, n) is its progress.   *)

Step(c, st, n) == calls' = (calls \ {c}) \cup {[c EXCEPT !.st = st, !.slot = n]}

Receiving(h) == reg[h] # NoSlot /\ state[reg[h]] = "receiving"

(* handlePrepare: spawn a process (whose readiness is awaited under the    *)
(* request's context, gone with the caller), ...                           *)
PrepareSpawn(c) ==
  /\ c.kind = "prepare" /\ c.st = "sent"
  /\ Unused # {}
  /\ state' = [state EXCEPT ![NewSlot] = "receiving"]
  /\ proc' = [proc EXCEPT ![NewSlot] = "idle"]
  /\ host' = [host EXCEPT ![NewSlot] = c.to]
  /\ files' = [files EXCEPT ![c.to] = @ \cup {Dir}]
  /\ \/ Step(c, "spawned", NewSlot) /\ UNCHANGED trouble
     \/ /\ "spawn" \in Faults \/ c.orphan
        /\ Step(c, "err", NoSlot)
        /\ trouble' = trouble \cup {"spawn"}
  /\ UNCHANGED <<reg, srcVars>>

(* Variant: recv.mem is opened without O_TRUNC.                            *)
Prepared_Kept(f, a) == Replaced(f, "recv", a)

(* The directory with an empty recv.mem.                                   *)
Prepared(f, a) == {x \in f : x[1] \in {"dir", "vmstate"}} \cup {<<"recv", a>>}

(* ... then create recv.mem and take the registry's slot, or kill the      *)
(* process.  The VM object that had the slot is killed in the same step,   *)
(* although putVM returns before: the registry has lost it already.        *)
PrepareFile(c) ==
  /\ c.kind = "prepare" /\ c.st = "spawned"
  /\ \/ /\ Dir \in files[c.to]
        /\ files' = [files EXCEPT ![c.to] = Prepared(@, c.att)]
        /\ reg' = [reg EXCEPT ![c.to] = c.slot]
        /\ proc' = IF reg[c.to] = NoSlot THEN proc
                   ELSE [proc EXCEPT ![reg[c.to]] = Killed(@)]
        /\ Step(c, "ok", NoSlot)
     \/ /\ Dir \notin files[c.to] \/ "refuse" \in Faults
        /\ proc' = [proc EXCEPT ![c.slot] = Killed(@)]
        /\ Step(c, "err", NoSlot)
        /\ UNCHANGED <<reg, files>>
  /\ UNCHANGED <<state, host, srcVars, trouble>>

(* handleMem, whose file must be there, and handleVMState, which creates   *)
(* it.  The check and the writing are one step: of what could come between *)
(* them a DELETE leaves the files alone, and a prepare or an abort is that *)
(* of another attempt, which LoadedWhole leaves aside.                     *)
Writable(c) ==
  IF c.kind = "vmstate" THEN Dir \in files[c.to]
  ELSE \E x \in files[c.to] : x[1] = "recv"

Receive(c) ==
  /\ c.kind \in {"mem", "final", "vmstate"} /\ c.st = "sent"
  /\ \/ /\ Receiving(c.to) /\ Writable(c)
        /\ files' = [files EXCEPT ![c.to] =
             IF c.kind = "vmstate" THEN Replaced(@, c.kind, c.att)
             ELSE @ \cup {<<c.kind, c.att>>}]
        /\ Step(c, "ok", NoSlot)
     \/ /\ ~Receiving(c.to) \/ ~Writable(c) \/ "refuse" \in Faults
        /\ Step(c, "err", NoSlot)
        /\ UNCHANGED files
  /\ UNCHANGED <<slotVars, reg, srcVars, trouble>>

(* handleFinalize: the check, the snapshot load with resume, the new state.*)
FinalizeCheck(c) ==
  /\ c.kind = "finalize" /\ c.st = "sent"
  /\ IF Receiving(c.to) THEN Step(c, "checked", reg[c.to]) ELSE Step(c, "err", NoSlot)
  /\ UNCHANGED <<slotVars, reg, srcVars, files, trouble>>

Loadable(h) == \A k \in {"recv", "vmstate"} : \E x \in files[h] : x[1] = k

(* A Firecracker that loads the snapshot and resumes the guest but answers *)
(* after its client's timeout leaves a receiving VM that runs.             *)
FinalizeLoad(c) ==
  /\ c.kind = "finalize" /\ c.st = "checked"
  /\ \/ /\ proc[c.slot] = "idle" /\ Loadable(c.to)
        /\ proc' = [proc EXCEPT ![c.slot] = "running"]
        /\ Step(c, "loaded", c.slot)
        /\ UNCHANGED trouble
     \/ /\ proc[c.slot] # "idle" \/ ~Loadable(c.to) \/ "refuse" \in Faults
        /\ Step(c, "err", NoSlot)
        /\ UNCHANGED <<proc, trouble>>
     \/ /\ proc[c.slot] = "idle" /\ Loadable(c.to) /\ "late" \in Faults
        /\ proc' = [proc EXCEPT ![c.slot] = "running"]
        /\ Step(c, "err", NoSlot)
        /\ trouble' = trouble \cup {"finalize"}
  /\ UNCHANGED <<state, host, reg, srcVars, files>>

FinalizeRun(c) ==
  /\ c.kind = "finalize" /\ c.st = "loaded"
  /\ state' = [state EXCEPT ![c.slot] = "running"]
  /\ Step(c, "ok", NoSlot)
  /\ UNCHANGED <<proc, host, reg, srcVars, files, trouble>>

(* handleAbort: only a receiving VM is torn down, ...                      *)
AbortCheck(c) ==
  /\ c.kind = "abort" /\ c.st = "sent"
  /\ IF reg[c.to] = NoSlot THEN Step(c, "ok", NoSlot)
     ELSE IF state[reg[c.to]] # "receiving" THEN Step(c, "err", NoSlot)
     ELSE Step(c, "checked", reg[c.to])
  /\ UNCHANGED <<slotVars, reg, srcVars, files, trouble>>

(* ... its process is killed, ...                                          *)
AbortKill(c) ==
  /\ c.kind = "abort" /\ c.st = "checked"
  /\ proc' = [proc EXCEPT ![c.slot] = Killed(@)]
  /\ Step(c, "killed", c.slot)
  /\ UNCHANGED <<state, host, reg, srcVars, files, trouble>>

(* ... its slot, whoever is in it by now, is freed, ...                    *)
AbortFree(c) ==
  /\ c.kind = "abort" /\ c.st = "killed"
  /\ reg' = [reg EXCEPT ![c.to] = NoSlot]
  /\ Step(c, "freed", NoSlot)
  /\ UNCHANGED <<slotVars, srcVars, files, trouble>>

(* ... and the directory, whosever it is by now, is removed.               *)
AbortRemove(c) ==
  /\ c.kind = "abort" /\ c.st = "freed"
  /\ files' = [files EXCEPT ![c.to] = {}]
  /\ Step(c, "ok", NoSlot)
  /\ UNCHANGED <<slotVars, reg, srcVars, trouble>>

(* An orphan that never arrives, or whose answer nobody reads.             *)
Forget(c) ==
  /\ c.orphan
  /\ c.st \in {"sent", "ok", "err"}
  /\ calls' = calls \ {c}
  /\ UNCHANGED <<slotVars, reg, srcVars, files, trouble>>

-----------------------------------------------------------------------------
(* The public API: POST /vms and DELETE /vms/{id}.                         *)

Holders == {s \in Slots : proc[s] \in {"running", "paused"}}

(* Nothing is under way: no migration, no boot, no request.                *)
Quiet ==
  /\ calls = {}
  /\ \A s \in Slots : pc[s] = "none"
  /\ \A d \in Deletes : del[d].st = "none"

(* handleCreateVM installs its object before it looks at the one it        *)
(* replaced; on a conflict it deletes the slot.  Creating a guest while    *)
(* there is one, or while a migration goes on, is the caller's mistake.    *)
Conflict(h) == reg[h] # NoSlot /\ state[reg[h]] \notin {"migrated", "dead"}

Create(h) ==
  /\ Unused # {}
  /\ IF Conflict(h)
     THEN reg' = [reg EXCEPT ![h] = NoSlot] /\ UNCHANGED <<slotVars, pc>>
     ELSE /\ reg' = [reg EXCEPT ![h] = NewSlot]
          /\ state' = [state EXCEPT ![NewSlot] = "new"]
          /\ proc' = [proc EXCEPT ![NewSlot] = "none"]
          /\ host' = [host EXCEPT ![NewSlot] = h]
          /\ pc' = [pc EXCEPT ![NewSlot] = "spawn"]
  /\ trouble' = IF Holders # {} \/ ~Quiet THEN trouble \cup {"create"} ELSE trouble
  /\ UNCHANGED <<target, ctx, att, attempts, del, calls, files>>

(* boot: the state is set and the process started, whatever happened to    *)
(* the VM object in between, ...                                           *)
BootSpawn(s) ==
  /\ pc[s] = "spawn"
  /\ state' = [state EXCEPT ![s] = "booting"]
  /\ proc' = [proc EXCEPT ![s] = "running"]
  /\ files' = [files EXCEPT ![host[s]] = @ \cup {Dir}]
  /\ pc' = [pc EXCEPT ![s] = "boot"]
  /\ UNCHANGED <<host, reg, target, ctx, att, attempts, del, calls, trouble>>

(* ... and it returns, with the base snapshot or with an error.            *)
Boot(s) ==
  /\ pc[s] = "boot"
  /\ \/ /\ proc[s] = "running" /\ Dir \in files[host[s]]
        /\ state' = [state EXCEPT ![s] = "running"]
        /\ UNCHANGED proc
     \/ /\ state' = [state EXCEPT ![s] = "dead"]
        /\ proc' = [proc EXCEPT ![s] = Killed(@)]
  /\ pc' = [pc EXCEPT ![s] = "none"]
  /\ UNCHANGED <<host, reg, target, ctx, att, attempts, del, calls, files, trouble>>

(* handleDeleteVM: the VM object is looked up, ...                         *)
DeleteLook(d, h) ==
  /\ del[d].st = "none"
  /\ del' = [del EXCEPT ![d] = [st |-> "found", host |-> h, slot |-> reg[h]]]
  /\ trouble' = IF reg[h] = NoSlot THEN trouble ELSE trouble \cup {"delete"}
  /\ UNCHANGED <<slotVars, reg, pc, target, ctx, att, attempts, calls, files>>

(* Variant: the process is left alone.                                     *)
DeleteKill_Not(d) ==
  /\ del[d].st = "found" /\ del[d].slot # NoSlot
  /\ del' = [del EXCEPT ![d].st = "killed"]
  /\ UNCHANGED <<slotVars, reg, pc, target, ctx, att, attempts, calls, files, trouble>>

(* ... if there is one its process is killed (a boot that has not started  *)
(* its process yet will do so none the less), ...                          *)
DeleteKill(d) ==
  /\ del[d].st = "found" /\ del[d].slot # NoSlot
  /\ proc' = [proc EXCEPT ![del[d].slot] = Killed(@)]
  /\ del' = [del EXCEPT ![d].st = "killed"]
  /\ trouble' = IF proc[del[d].slot] = "none" THEN trouble \cup {"boot"} ELSE trouble
  /\ UNCHANGED <<state, host, reg, pc, target, ctx, att, attempts, calls, files>>

(* ... and its state set; ...                                              *)
DeleteState(d) ==
  /\ del[d].st = "killed"
  /\ state' = [state EXCEPT ![del[d].slot] = "dead"]
  /\ del' = [del EXCEPT ![d].st = "dead"]
  /\ UNCHANGED <<proc, host, reg, pc, target, ctx, att, attempts, calls, files, trouble>>

(* ... the registry's slot is freed in any case, of whoever is in it by    *)
(* now.  The directory stays.                                              *)
DeleteFree(d) ==
  /\ del[d].st = "dead" \/ (del[d].st = "found" /\ del[d].slot = NoSlot)
  /\ reg' = [reg EXCEPT ![del[d].host] = NoSlot]
  /\ del' = [del EXCEPT ![d].st = "none", ![d].slot = NoSlot]
  /\ trouble' = IF reg[del[d].host] \in {NoSlot, del[d].slot} THEN trouble
                ELSE trouble \cup {"drop"}
  /\ UNCHANGED <<slotVars, pc, target, ctx, att, attempts, calls, files>>

-----------------------------------------------------------------------------
Source(s) ==
  \/ Send(s) \/ ReadReply(s) \/ FailsAtOnce(s)
  \/ Pause(s) \/ SucceedKill(s) \/ Succeed(s) \/ Resume(s)

Handle(c) ==
  \/ PrepareSpawn(c) \/ PrepareFile(c) \/ Receive(c)
  \/ FinalizeCheck(c) \/ FinalizeLoad(c) \/ FinalizeRun(c)
  \/ AbortCheck(c) \/ AbortKill(c) \/ AbortFree(c) \/ AbortRemove(c)

Booting(s) == BootSpawn(s) \/ Boot(s)

Deleting(d) == DeleteKill(d) \/ DeleteState(d) \/ DeleteFree(d)

(* What goes on without lost requests and without the public ones.         *)
Serve ==
  \/ \E s \in Slots : Source(s) \/ Booting(s)
  \/ \E c \in calls : Handle(c) \/ Forget(c)
  \/ \E d \in Deletes : Deleting(d)

Operate ==
  \/ \E s \in Slots, t \in Hosts : Migrate(s, t)
  \/ \E s \in Slots : Cancel(s)
  \/ \E h \in Hosts : "create" \in Ops /\ Create(h)
  \/ \E d \in Deletes, h \in Hosts : "delete" \in Ops /\ DeleteLook(d, h)

Next == Serve \/ (\E s \in Slots : TimeOut(s)) \/ Operate

(* Handlers run to their end and a caller reads the reply that arrives.    *)
(* (TimeOut, which ends a wait for 10 minutes, need not happen.)           *)
Fairness ==
  /\ \A s \in Slots : WF_vars(Source(s)) /\ WF_vars(Booting(s))
  /\ WF_vars(\E c \in calls : Handle(c))
  /\ \A d \in Deletes : WF_vars(Deleting(d))

Spec == Init /\ [][Next]_vars /\ Fairness

-----------------------------------------------------------------------------
Runners == {s \in Slots : proc[s] = "running"}

Excuses(t) == trouble \cap t # {}

(* At most one process executes the guest: a source that rolls back does   *)
(* not resume a guest that the target has resumed already.                 *)
NoSplitBrain == \A s, t \in Runners : s = t

(* That holds through any number of lost, late and refused requests but    *)
(* for those to finalize, whose effect the source cannot know: it gave up  *)
(* on the request, or the target on its Firecracker.                       *)
OneRunner == NoSplitBrain \/ Excuses({"finalize", "create"})

(* No failure loses the guest: some process holds it, running or paused,   *)
(* unless it was deleted, was sent to the host it is on, an abandoned      *)
(* prepare or abort came late and hit the guest's new process, or there    *)
(* were two guests whose migrations crossed.                               *)
GuestSurvives ==
  \/ Holders # {}
  \/ Excuses({"delete", "boot", "self", "prepare", "abort"})
  \/ Excuses({"finalize", "create"}) /\ attempts > 1

(* A VM object on its way out: a DELETE or an abort has killed its process *)
(* and goes on to free the registry's slot.                                *)
Doomed(s) ==
  \/ \E d \in Deletes : del[d].slot = s /\ del[d].st \in {"killed", "dead"}
  \/ \E c \in calls : c.kind = "abort" /\ c.st = "killed" /\ c.slot = s

(* A VM that its agent lists as running or migrating has a process, and    *)
(* that process has the guest: no create, delete, re-prepare, abort or     *)
(* rollback leaves the registry pointing at a corpse, but for the moment   *)
(* in which the DELETE, the abort or the migration that killed the process *)
(* has yet to say so.  Conversely a guest that runs is the one its agent   *)
(* knows under its ID, with its directory, so that it can be migrated and  *)
(* deleted, unless an abort came late, a DELETE freed the slot of a VM     *)
(* that is not the one it had killed, or the migrations of two runners of  *)
(* the guest crossed at a third host.                                      *)
RegistryTruthful ==
  /\ \A h \in Hosts :
       (reg[h] # NoSlot /\ state[reg[h]] \in {"running", "migrating"}) =>
         reg[h] \in Holders \/ Doomed(reg[h]) \/ pc[reg[h]] = "success"
  /\ \/ \A s \in Runners : reg[host[s]] = s /\ Dir \in files[host[s]]
     \/ Excuses({"create", "boot", "abort", "drop"})
     \/ Excuses({"finalize"}) /\ (Excuses({"prepare"}) \/ attempts > 2)

(* A migration that is over, either way, leaves no half-received VM on the *)
(* target: "an abandoned request aborts cleanly via migrate()'s rollback   *)
(* path" (server.go).                                                      *)
CleanAbort ==
  Quiet => \A h \in Hosts : ~(Receiving(h) /\ proc[reg[h]] = "idle")

(* Nor does it leave a process that no registry leads to ("abort -> tear   *)
(* everything down", receive.go).  Both hold unless the abort itself was   *)
(* not sent or not waited for, a process was not ready in time, a DELETE   *)
(* freed the slot of a VM it had not killed, or the migrations of two      *)
(* runners of the guest crossed at one host.                               *)
LeavesNothing ==
  \/ /\ CleanAbort
     /\ Quiet => \A s \in Slots :
          proc[s] \in {"idle", "running", "paused"} => reg[host[s]] = s
  \/ Excuses({"prepare", "abort", "cancel", "spawn", "create", "boot", "drop"})
  \/ Excuses({"finalize"}) /\ (Excuses({"self"}) \/ attempts > 2)

(* What a received image must be: all pieces of one attempt, no others.    *)
Whole(h) ==
  \E a \in 1 .. attempts : files[h] = {Dir} \cup ({"recv", "mem", "final", "vmstate"} \X {a})

(* The target resumes no image that is mixed from several attempts or that *)
(* lacks a piece, however often a migration was tried before, unless an    *)
(* abandoned request was served late or two guests of the same name were   *)
(* on their way to it: requests name no attempt.                           *)
LoadedWhole ==
  [][\A s \in Slots : (proc[s] = "idle" /\ proc'[s] = "running") =>
       Whole(host[s]) \/ Excuses(Requests \cup {"create"})]_vars

(* POST /vms for a guest that lives answers 409 and leaves it in place     *)
(* ("POST /vms would 409 forever", server.go).                             *)
ConflictChangesNothing ==
  [][\A h \in Hosts :
       (reg[h] # NoSlot /\ state[reg[h]] = "running" /\ Create(h)) => reg' = reg]_vars

(* Every migration comes to an end: migrated, rolled back or dead.         *)
MigrationSettles ==
  \A s \in Slots : (state[s] = "migrating") ~> (state[s] # "migrating")

-----------------------------------------------------------------------------
(* A migration whose snapshot the target has loaded, whether the source    *)
(* knows it or not.                                                        *)
HandedOver(s) ==
  \/ pc[s] = "success"
  \/ \E c \in Pending(s) : c.kind = "finalize" /\ c.st \in {"loaded", "ok"}

(* Who has a claim to the guest: the VM object that runs it or is about to *)
(* boot it, and the source of a migration that has not handed it over.     *)
Claims ==
  {s \in Slots : \/ proc[s] = "running"
                 \/ pc[s] = "spawn"
                 \/ pc[s] \in Requests \cup {"pause", "resume"} /\ ~HandedOver(s)}

(* Where the guest is, abstractly: with the one that has a claim to it.    *)
OwnerOf ==
  IF Claims = {} THEN CHOOSE h \in Hosts : TRUE ELSE host[CHOOSE s \in Claims : TRUE]

Owner == INSTANCE GuestOwner WITH
  owner <- OwnerOf,
  running <- {host[s] : s \in Runners},
  excused <- trouble # {}

(* Handover implements GuestOwner.                                         *)
OneOwner == Owner!Spec
=============================================================================
