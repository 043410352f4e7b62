--------------------------- MODULE RegistryProofs ---------------------------
(***************************************************************************)
(* What the registries and the hosts are left with, for any number of      *)
(* agents, VM objects and migrations: a guest that runs is the one its     *)
(* agent knows, and a migration that is over leaves no process behind.     *)
(* And that the benchmark, for any number of runs, starts each of them     *)
(* from the host that the guest is on.                                     *)
(***************************************************************************)
EXTENDS HandoverProofs, Bench

(* Points of migrateInner before the finalize request.                     *)
PreFinalize == {"prepare", "mem", "pause", "final", "vmstate"}

(* What a request says of its attempt.                                     *)
AttSound(c) ==
  /\ c.att >= 1
  /\ c.orphan => c.kind \in trouble
  /\ ~c.orphan => c.att = att[c.from]
  /\ c.st = "freed" => c.slot = NoSlot /\ c.kind = "abort"
  /\ \A s \in Slots : (pc[s] \in MigPCs /\ c.att = att[s]) =>
       /\ c.from = s /\ c.to = target[s]
       /\ c.kind = "finalize" => pc[s] \notin PreFinalize
       /\ (c.kind = "finalize" /\ c.orphan) => pc[s] \in {"abort", "resume"}

(* Attempts are told apart by their numbers; each makes one finalize       *)
(* request, as its last but for the abort.                                 *)
Attempts ==
  /\ \A c \in calls : AttSound(c)
  /\ \A c, d \in calls : (c.kind = "finalize" /\ d.kind = "finalize" /\ c.att = d.att) => c = d
  /\ \A s \in Slots : pc[s] \in MigPCs => att[s] >= 1
  /\ \A s, t \in Slots : (pc[s] \in MigPCs /\ pc[t] \in MigPCs /\ att[s] = att[t]) => s = t
  /\ "cancel" \notin trouble => \A s \in Slots : ctx[s] = "live"
  /\ "self" \notin trouble => \A s \in Slots : pc[s] \in MigPCs => target[s] # host[s]
  /\ attempts = 0 => /\ calls = {} /\ ~Excuses(Requests)
                     /\ \A s \in Slots : pc[s] \notin MigPCs

(* Whatever is in a VM's directory, the directory is there.                *)
FilesInDir == \A h \in Hosts : files[h] # {} => Dir \in files[h]

-----------------------------------------------------------------------------
(* Attempts.                                                               *)

(* The progress of a handler.                                              *)
LEMMA AttemptsHandler ==
  ASSUME IInv, Attempts, NEW c \in calls,
         NEW st \in CallStates,
         NEW n \in Slots \cup {NoSlot}, Step(c, st, n), UNCHANGED srcVars,
         trouble \subseteq trouble',
         \A s \in Slots : pc[s] \in MigPCs => host'[s] = host[s],
         st = "freed" => n = NoSlot /\ c.kind = "abort"
  PROVE  Attempts'
<1>1. PICK d \in Call :
        /\ calls' = (calls \ {c}) \cup {d}
        /\ d.st = st /\ d.slot = n
        /\ d.from = c.from /\ d.kind = c.kind /\ d.to = c.to /\ d.att = c.att
        /\ d.orphan = c.orphan
  BY StepReplaces, CallsTyped
<1>2. attempts # 0
  BY DEF Attempts
<1>3. \A e \in calls : AttSound(e)
  BY DEF Attempts
<1>4. AttSound(d)'
  BY <1>1, <1>3 DEF AttSound, srcVars
<1>5. \A e \in calls : AttSound(e)'
  BY <1>3 DEF AttSound, srcVars
<1>6. \A e, f \in calls' : (e.kind = "finalize" /\ f.kind = "finalize" /\ e.att = f.att) => e = f
  BY <1>1 DEF Attempts
<1> QED
  BY <1>1, <1>2, <1>4, <1>5, <1>6 DEF Attempts, srcVars

(* Steps of a VM object's own goroutine, and of the operator on it.        *)
LEMMA AttemptsOwn ==
  ASSUME IInv, Attempts, UNCHANGED <<target, att, attempts, calls>>,
         trouble \subseteq trouble', Excuses(Requests)' => Excuses(Requests),
         "cancel" \notin trouble' => ctx' = ctx,
         \A s \in Slots : pc'[s] \in MigPCs =>
           /\ pc[s] \in MigPCs /\ host'[s] = host[s]
           /\ pc'[s] \in PreFinalize => pc[s] \in PreFinalize
           /\ pc'[s] \notin {"abort", "resume"} => pc[s] \notin {"abort", "resume"}
  PROVE  Attempts'
<1>1. \A e \in calls : AttSound(e)'
  BY DEF Attempts, AttSound
<1> QED
  BY <1>1 DEF Attempts

(* A new attempt has a new number.                                         *)
LEMMA AttemptsMigrate ==
  ASSUME IInv, Attempts, NEW s \in Slots, NEW t \in Hosts, Migrate(s, t)
  PROVE  Attempts'
<1>1. /\ pc[s] = "none" /\ pc' = [pc EXCEPT ![s] = "prepare"]
      /\ target' = [target EXCEPT ![s] = t]
      /\ ctx' = [ctx EXCEPT ![s] = "live"]
      /\ attempts' = attempts + 1 /\ att' = [att EXCEPT ![s] = attempts + 1]
      /\ trouble \subseteq trouble' /\ (t = host[s] => "self" \in trouble')
      /\ UNCHANGED <<calls, host>>
  BY DEF Migrate
<1>2. attempts \in Nat /\ \A c \in calls : c.att \in Nat /\ c.att <= attempts
  BY DEF IInv, TypeOK, Call
<1>3. \A x \in Slots : att[x] \in Nat /\ att[x] <= attempts
  BY DEF IInv, TypeOK
<1>4. /\ att'[s] = attempts + 1 /\ pc'[s] = "prepare" /\ target'[s] = t /\ ctx'[s] = "live"
      /\ \A x \in Slots : x # s => /\ att'[x] = att[x] /\ pc'[x] = pc[x]
                                   /\ target'[x] = target[x] /\ ctx'[x] = ctx[x]
  BY <1>1 DEF IInv, TypeOK
<1>5. \A c \in calls : AttSound(c)'
  <2> TAKE c \in calls
  <2>1. AttSound(c) /\ (~c.orphan => c.kind = pc[c.from]) /\ c.from \in Slots
        /\ c.kind \in Requests
    BY DEF Attempts, IInv, CallSound, TypeOK, Call
  <2>2. ~c.orphan => c.from # s
    BY <2>1, <1>1 DEF Requests
  <2> QED
    BY <1>1, <1>2, <1>3, <1>4, <2>1, <2>2 DEF AttSound
<1>6. \A x \in Slots : pc'[x] \in MigPCs => att'[x] >= 1
  BY <1>2, <1>4 DEF Attempts
<1>7. \A x, y \in Slots : (pc'[x] \in MigPCs /\ pc'[y] \in MigPCs /\ att'[x] = att'[y]) => x = y
  BY <1>2, <1>3, <1>4 DEF Attempts
<1>8. "self" \notin trouble' => \A x \in Slots : pc'[x] \in MigPCs => target'[x] # host'[x]
  BY <1>1, <1>4 DEF Attempts
<1> QED
  BY <1>1, <1>2, <1>4, <1>5, <1>6, <1>7, <1>8 DEF Attempts

(* What Send adds.                                                         *)
LEMMA SendAdds ==
  ASSUME NEW s \in Slots, Send(s)
  PROVE  \E d : /\ calls' = calls \cup {d}
               /\ d.from = s /\ d.kind = pc[s] /\ d.to = target[s] /\ d.att = att[s]
               /\ d.slot = NoSlot /\ d.st = "sent" /\ ~d.orphan
<1>1. calls' = calls \cup {Request(s)}
  BY DEF Send
<1>2. /\ Request(s).from = s /\ Request(s).kind = pc[s] /\ Request(s).to = target[s]
      /\ Request(s).att = att[s]
      /\ Request(s).slot = NoSlot /\ Request(s).st = "sent" /\ ~Request(s).orphan
  BY DEF Request
<1> QED
  BY <1>1, <1>2

(* A request carries the number of the attempt it is sent in.              *)
LEMMA AttemptsSend ==
  ASSUME IInv, Attempts, NEW s \in Slots, Send(s)
  PROVE  Attempts'
<1>0. PICK d : /\ calls' = calls \cup {d}
               /\ d.from = s /\ d.kind = pc[s] /\ d.to = target[s] /\ d.att = att[s]
               /\ d.slot = NoSlot /\ d.st = "sent" /\ ~d.orphan
  BY SendAdds
<1>1. /\ pc[s] \in Requests /\ Pending(s) = {}
      /\ UNCHANGED <<state, proc, host, pc, target, ctx, att, attempts, del, trouble>>
  BY DEF Send, slotVars, srcVars
<1>2. pc[s] \in MigPCs
  BY <1>1 DEF MigPCs
<1>3. \A c \in calls : AttSound(c)'
  BY <1>1 DEF Attempts, AttSound
<1>4. AttSound(d)'
  BY <1>0, <1>1, <1>2 DEF Attempts, AttSound, PreFinalize
<1>5. \A c \in calls : (c.kind = "finalize" /\ pc[s] = "finalize") => c.att # att[s]
  <2> SUFFICES ASSUME NEW c \in calls, c.kind = "finalize", pc[s] = "finalize", c.att = att[s]
               PROVE  FALSE
    OBVIOUS
  <2>1. c.from = s /\ ~c.orphan
    BY <1>2 DEF Attempts, AttSound
  <2> QED
    BY <1>1, <2>1 DEF Pending
<1>6. \A c, e \in calls' : (c.kind = "finalize" /\ e.kind = "finalize" /\ c.att = e.att) => c = e
  BY <1>0, <1>5 DEF Attempts
<1>7. attempts # 0
  BY <1>2 DEF Attempts
<1> QED
  BY <1>0, <1>1, <1>3, <1>4, <1>6, <1>7 DEF Attempts

(* migrateInner only moves on.                                             *)
LEMMA AttemptsReadReply ==
  ASSUME IInv, Attempts, NEW s \in Slots, ReadReply(s)
  PROVE  Attempts'
<1>1. PICK c \in Pending(s) :
        /\ c.st \in {"ok", "err"}
        /\ pc' = [pc EXCEPT ![s] = IF c.st = "ok" THEN AfterReply[@] ELSE AfterError(@)]
        /\ calls' = calls \ {c}
        /\ UNCHANGED <<slotVars, target, ctx, att, attempts, del, trouble>>
  BY DEF ReadReply
<1>2. c \in calls /\ c.from = s /\ ~c.orphan /\ c.kind = pc[s] /\ pc[s] \in Requests
  BY DEF Pending, IInv, CallSound, TypeOK, Call
<1>3. \A x \in Slots : x # s => pc'[x] = pc[x]
  BY <1>1 DEF IInv, TypeOK
<1>4. /\ pc[s] \in MigPCs /\ pc'[s] \in MigPCs
      /\ pc'[s] \in PreFinalize => pc[s] \in PreFinalize
      /\ pc'[s] \notin {"abort", "resume"} => pc[s] \notin {"abort", "resume"}
      /\ pc'[s] \notin {"abort", "resume"} =>
           (pc'[s] = "finalize" /\ pc[s] = "vmstate") \/ pc[s] # "vmstate"
  BY <1>1, <1>2 DEF IInv, TypeOK, AfterReply, AfterError, Requests, MigPCs, PreFinalize
<1>5. \A e \in calls' : AttSound(e)'
  BY <1>1, <1>3, <1>4 DEF Attempts, AttSound
<1>6. attempts # 0
  BY <1>2 DEF Attempts
<1> QED
  BY <1>1, <1>3, <1>4, <1>5, <1>6 DEF Attempts, slotVars

(* A request that is given up belongs to an attempt that rolls back.       *)
LEMMA AttemptsAbandon ==
  ASSUME IInv, Attempts, NEW s \in Slots, pc[s] \in Requests, Abandon(s)
  PROVE  Attempts'
<1>1. /\ \A c \in Pending(s) : c \in calls /\ c \in Call /\ c.from = s /\ ~c.orphan
      /\ calls' = (calls \ Pending(s)) \cup {Orphaned(c) : c \in Pending(s)}
  BY AbandonOrphans DEF IInv, TypeOK
<1>2. /\ pc' = [pc EXCEPT ![s] = AfterError(@)]
      /\ trouble' = trouble \cup {c.kind : c \in Pending(s)}
      /\ UNCHANGED <<slotVars, target, ctx, att, attempts, del>>
  BY DEF Abandon
<1>3. /\ pc[s] \in MigPCs /\ pc'[s] \in {"abort", "resume"} /\ pc'[s] \in MigPCs
      /\ \A x \in Slots : x # s => pc'[x] = pc[x]
  BY <1>2 DEF IInv, TypeOK, AfterError, MigPCs, Requests
<1>4. \A c \in calls : AttSound(c)
  BY DEF Attempts
<1>5. \A c \in calls : c \notin Pending(s) => AttSound(c)'
  BY <1>2, <1>3, <1>4 DEF AttSound, PreFinalize
<1>6. \A c \in Pending(s) : AttSound(Orphaned(c))'
  <2> TAKE c \in Pending(s)
  <2>1. AttSound(c) /\ c.kind \in trouble' /\ c.att = att[s] /\ c.from = s
    BY <1>1, <1>2, <1>4 DEF AttSound
  <2>2. /\ Orphaned(c).orphan
        /\ Orphaned(c).st = c.st /\ Orphaned(c).slot = c.slot
        /\ Orphaned(c).from = c.from /\ Orphaned(c).kind = c.kind
        /\ Orphaned(c).to = c.to /\ Orphaned(c).att = c.att
    BY <1>1, OrphanedIsCall
  <2>3. \A x \in Slots : (pc'[x] \in MigPCs /\ c.att = att[x]) => x = s
    BY <2>1, <1>3 DEF Attempts
  <2> QED
    BY <1>2, <1>3, <2>1, <2>2, <2>3 DEF AttSound, PreFinalize
<1>7. \A c, d \in calls' : (c.kind = "finalize" /\ d.kind = "finalize" /\ c.att = d.att) => c = d
  <2>1. \A c \in calls' : \E e \in calls :
          /\ e.kind = c.kind /\ e.att = c.att
          /\ c = e \/ (e \in Pending(s) /\ c = Orphaned(e))
          /\ e \in Pending(s) => c = Orphaned(e)
    BY <1>1, OrphanedIsCall
  <2> QED
    BY <2>1 DEF Attempts
<1>8. attempts # 0
  BY <1>3 DEF Attempts
<1>9. \A e \in calls' : AttSound(e)'
  BY <1>1, <1>5, <1>6
<1> QED
  BY <1>2, <1>3, <1>7, <1>8, <1>9 DEF Attempts, slotVars

(* A handler serves its request and leaves the sources alone.              *)
LEMMA HandlerServes ==
  ASSUME IInv, NEW c \in calls, Handle(c)
  PROVE  \E st \in CallStates,
            n \in Slots \cup {NoSlot} :
           /\ Step(c, st, n) /\ UNCHANGED srcVars
           /\ trouble \subseteq trouble'
           /\ \A s \in Slots : pc[s] # "none" => host'[s] = host[s]
           /\ st = "freed" => n = NoSlot /\ c.kind = "abort"
<1> DEFINE STs == CallStates
           P(st, n) == /\ Step(c, st, n) /\ UNCHANGED srcVars
                       /\ trouble \subseteq trouble'
                       /\ \A s \in Slots : pc[s] # "none" => host'[s] = host[s]
                       /\ st = "freed" => n = NoSlot /\ c.kind = "abort"
<1>0. c \in Call /\ c.slot \in Slots \cup {NoSlot} /\ NoSlot \in Slots \cup {NoSlot}
  BY DEF IInv, TypeOK, Call
<1> USE DEF CallStates
<1>1. CASE PrepareSpawn(c)
  <2>1. NewSlot \in Slots /\ pc[NewSlot] = "none"
    BY <1>1, NewSlotIsUnused DEF PrepareSpawn
  <2>2. \A s \in Slots : pc[s] # "none" => host'[s] = host[s]
    BY <1>1, <2>1 DEF PrepareSpawn, IInv, TypeOK
  <2>3. P("spawned", NewSlot) \/ P("err", NoSlot)
    BY <1>1, <2>2 DEF PrepareSpawn
  <2>4. CASE P("spawned", NewSlot)
    BY <2>4, <2>1
  <2>5. CASE P("err", NoSlot)
    BY <2>5
  <2> QED
    BY <2>3, <2>4, <2>5
<1>2. CASE PrepareFile(c)
  <2>1. P("ok", NoSlot) \/ P("err", NoSlot)
    BY <1>2 DEF PrepareFile
  <2> QED
    BY <2>1
<1>3. CASE Receive(c)
  <2>1. P("ok", NoSlot) \/ P("err", NoSlot)
    BY <1>3 DEF Receive, slotVars
  <2> QED
    BY <2>1
<1>4. CASE FinalizeCheck(c)
  <2>1. P("checked", reg[c.to]) \/ P("err", NoSlot)
    BY <1>4 DEF FinalizeCheck, slotVars
  <2>2. reg[c.to] \in Slots \cup {NoSlot}
    BY <1>0 DEF IInv, TypeOK, Call
  <2>3. CASE P("checked", reg[c.to])
    BY <2>2, <2>3
  <2>4. CASE P("err", NoSlot)
    BY <2>4
  <2> QED
    BY <2>1, <2>3, <2>4
<1>5. CASE FinalizeLoad(c)
  <2>1. P("loaded", c.slot) \/ P("err", NoSlot)
    BY <1>5 DEF FinalizeLoad
  <2>3. CASE P("loaded", c.slot)
    BY <1>0, <2>3
  <2>4. CASE P("err", NoSlot)
    BY <2>4
  <2> QED
    BY <2>1, <2>3, <2>4
<1>6. CASE FinalizeRun(c)
  <2>1. P("ok", NoSlot)
    BY <1>6 DEF FinalizeRun
  <2> QED
    BY <2>1
<1>7. CASE AbortCheck(c)
  <2>1. P("checked", reg[c.to]) \/ P("err", NoSlot) \/ P("ok", NoSlot)
    BY <1>7 DEF AbortCheck, slotVars
  <2>2. reg[c.to] \in Slots \cup {NoSlot}
    BY <1>0 DEF IInv, TypeOK, Call
  <2>3. CASE P("checked", reg[c.to])
    BY <2>2, <2>3
  <2>4. CASE P("err", NoSlot) \/ P("ok", NoSlot)
    BY <2>4
  <2> QED
    BY <2>1, <2>3, <2>4
<1>8. CASE AbortKill(c)
  <2>1. P("killed", c.slot)
    BY <1>8 DEF AbortKill
  <2> QED
    BY <1>0, <2>1
<1>9. CASE AbortFree(c)
  <2>1. P("freed", NoSlot)
    BY <1>9 DEF AbortFree, slotVars
  <2> QED
    BY <2>1
<1>10. CASE AbortRemove(c)
  <2>1. P("ok", NoSlot)
    BY <1>10 DEF AbortRemove, slotVars
  <2> QED
    BY <2>1
<1> QED
  BY <1>1, <1>2, <1>3, <1>4, <1>5, <1>6, <1>7, <1>8, <1>9, <1>10 DEF Handle

(* Initially there is no attempt.                                          *)
LEMMA AttemptsInit == Init => Attempts /\ FilesInDir
<1> SUFFICES ASSUME Init PROVE Attempts /\ FilesInDir
  OBVIOUS
<1>1. /\ calls = {} /\ attempts = 0 /\ trouble = {}
      /\ \A s \in Slots : pc[s] = "none" /\ ctx[s] = "live"
      /\ \A h \in Hosts : files[h] \in {{}, {Dir}}
  BY DEF Init
<1> QED
  BY <1>1 DEF Attempts, FilesInDir, MigPCs, Requests, Excuses

(* Every step keeps the attempts apart.                                    *)
LEMMA AttemptsStep ==
  ASSUME IInv, Attempts, [Next]_vars
  PROVE  Attempts'
<1>1. CASE \E s \in Slots : Source(s)
  <2> PICK s \in Slots : Source(s)
    BY <1>1
  <2>1. CASE Send(s)
    BY <2>1, AttemptsSend
  <2>2. CASE ReadReply(s)
    BY <2>2, AttemptsReadReply
  <2>3. CASE FailsAtOnce(s)
    BY <2>3, AttemptsAbandon DEF FailsAtOnce
  <2>4. CASE Pause(s)
    <3>1. /\ UNCHANGED <<host, target, ctx, att, attempts, del, calls, trouble>>
          /\ pc[s] = "pause" /\ pc'[s] \in {"final", "abort"}
          /\ \A x \in Slots : x # s => pc'[x] = pc[x]
      BY <2>4 DEF Pause, IInv, TypeOK
    <3> QED
      BY <3>1, AttemptsOwn DEF MigPCs, PreFinalize, Excuses
  <2>5. CASE SucceedKill(s) \/ Succeed(s)
    <3>1. /\ UNCHANGED <<host, target, ctx, att, attempts, del, calls, trouble>>
          /\ pc'[s] \in {pc[s], "none"}
          /\ \A x \in Slots : x # s => pc'[x] = pc[x]
      BY <2>5 DEF SucceedKill, Succeed, srcVars, IInv, TypeOK
    <3> QED
      BY <3>1, AttemptsOwn DEF MigPCs, Requests, PreFinalize, Excuses
  <2>6. CASE Resume(s)
    <3>1. /\ UNCHANGED <<host, target, ctx, att, attempts, del, calls>>
          /\ pc'[s] = "none"
          /\ \A x \in Slots : x # s => pc'[x] = pc[x]
          /\ trouble \subseteq trouble' /\ trouble' \subseteq trouble \cup {"resume"}
      BY <2>6 DEF Resume, IInv, TypeOK
    <3> QED
      BY <3>1, AttemptsOwn DEF MigPCs, Requests, PreFinalize, Excuses
  <2> QED
    BY <2>1, <2>2, <2>3, <2>4, <2>5, <2>6 DEF Source
<1>2. CASE \E s \in Slots : Booting(s)
  <2> PICK s \in Slots : Booting(s)
    BY <1>2
  <2>1. /\ UNCHANGED <<host, target, ctx, att, attempts, del, calls, trouble>>
        /\ pc'[s] \in {"boot", "none"}
        /\ \A x \in Slots : x # s => pc'[x] = pc[x]
    BY DEF Booting, BootSpawn, Boot, IInv, TypeOK
  <2> QED
    BY <2>1, AttemptsOwn DEF MigPCs, Requests, PreFinalize, Excuses
<1>3. CASE \E c \in calls : Handle(c)
  <2> PICK c \in calls : Handle(c)
    BY <1>3
  <2>1. PICK st \in CallStates,
             n \in Slots \cup {NoSlot} :
           /\ Step(c, st, n) /\ UNCHANGED srcVars
           /\ trouble \subseteq trouble'
           /\ \A s \in Slots : pc[s] # "none" => host'[s] = host[s]
           /\ st = "freed" => n = NoSlot /\ c.kind = "abort"
    BY HandlerServes
  <2>2. \A s \in Slots : pc[s] \in MigPCs => host'[s] = host[s]
    BY <2>1 DEF MigPCs, Requests
  <2> QED
    BY <2>1, <2>2, AttemptsHandler
<1>4. CASE \E c \in calls : Forget(c)
  <2>1. calls' \subseteq calls /\ UNCHANGED <<slotVars, srcVars, trouble>>
    BY <1>4 DEF Forget
  <2>2. \A e \in calls' : AttSound(e)'
    BY <2>1 DEF Attempts, AttSound, srcVars
  <2>3. calls = {} => calls' = {}
    BY <2>1
  <2> QED
    BY <2>1, <2>2, <2>3 DEF Attempts, srcVars, slotVars, Excuses
<1>5. CASE \E s \in Slots : TimeOut(s)
  <2> PICK s \in Slots : TimeOut(s)
    BY <1>5
  <2>1. pc[s] \in Requests
    BY DEF TimeOut, Pending, IInv, CallSound, TypeOK, Call
  <2> QED
    BY <2>1, AttemptsAbandon DEF TimeOut
<1>6. CASE \E s \in Slots, t \in Hosts : Migrate(s, t)
  BY <1>6, AttemptsMigrate
<1>7. CASE \E s \in Slots : Cancel(s)
  <2>1. /\ UNCHANGED <<host, pc, target, att, attempts, del, calls>>
        /\ trouble' = trouble \cup {"cancel"}
    BY <1>7 DEF Cancel, slotVars
  <2> QED
    BY <2>1, AttemptsOwn DEF Excuses, Requests
<1>8. CASE \E h \in Hosts : Create(h)
  <2> PICK h \in Hosts : Create(h)
    BY <1>8
  <2>1. /\ UNCHANGED <<target, ctx, att, attempts, del, calls>>
        /\ trouble \subseteq trouble' /\ trouble' \subseteq trouble \cup {"create"}
        /\ \A x \in Slots : (x # NewSlot => pc'[x] = pc[x] /\ host'[x] = host[x])
        /\ pc'[NewSlot] = "spawn" \/ (pc' = pc /\ host' = host)
    <3>1. NewSlot \in Slots
      BY NewSlotIsUnused DEF Create
    <3> QED
      BY <3>1 DEF Create, IInv, TypeOK, slotVars
  <2> QED
    BY <2>1, AttemptsOwn DEF MigPCs, Requests, PreFinalize, Excuses
<1>9. CASE \E d \in Deletes : (\E h \in Hosts : DeleteLook(d, h)) \/ Deleting(d)
  <2>1. /\ UNCHANGED <<host, pc, target, ctx, att, attempts, calls>>
        /\ trouble \subseteq trouble'
        /\ trouble' \subseteq trouble \cup {"delete", "boot", "drop"}
    BY <1>9 DEF Deleting, DeleteLook, DeleteKill, DeleteState, DeleteFree, slotVars
  <2> QED
    BY <2>1, AttemptsOwn DEF Excuses, Requests
<1>10. CASE UNCHANGED vars
  <2>1. UNCHANGED <<host, pc, target, ctx, att, attempts, del, calls, trouble>>
    BY <1>10 DEF vars, slotVars, srcVars
  <2> QED
    BY <2>1, AttemptsOwn DEF Excuses
<1> QED
  BY <1>1, <1>2, <1>3, <1>4, <1>5, <1>6, <1>7, <1>8, <1>9, <1>10 DEF Next, Serve, Operate

(* Every step that leaves something in a directory leaves the directory.   *)
LEMMA FilesInDirStep ==
  ASSUME IInv, FilesInDir, [Next]_vars
  PROVE  FilesInDir'
<1> USE DEF FilesInDir
<1>0. files \in [Hosts -> SUBSET (Kinds \X (0 .. attempts))]
      /\ \A c \in calls : c.to \in Hosts /\ c.kind \in Requests
      /\ host \in [Slots -> Hosts]
  BY DEF IInv, TypeOK, Call
<1>1. ASSUME NEW h \in Hosts, NEW f, files' = [files EXCEPT ![h] = f], f # {} => Dir \in f
      PROVE  FilesInDir'
  BY <1>0, <1>1
<1>2. ASSUME NEW h \in Hosts, NEW a, Dir \in files[h]
      PROVE  /\ Dir \in Replaced(files[h], "vmstate", a) /\ Dir \in Prepared(files[h], a)
  <2>1. Dir[1] = "dir"
    BY DEF Dir
  <2> QED
    BY <1>2, <2>1 DEF Replaced, Prepared
<1>3. ASSUME NEW s \in Slots, Pause(s) PROVE FilesInDir'
  <2>1. CASE UNCHANGED files
    BY <2>1
  <2>2. CASE Dir \in files[host[s]]
             /\ files' = [files EXCEPT ![host[s]] = Replaced(files[host[s]], "vmstate", att[s])]
    BY <2>2, <1>0, <1>1, <1>2
  <2> QED
    BY <2>1, <2>2, <1>3 DEF Pause
<1>4. ASSUME NEW s \in Slots, BootSpawn(s) PROVE FilesInDir'
  BY <1>4, <1>0, <1>1 DEF BootSpawn
<1>5. ASSUME NEW c \in calls, PrepareSpawn(c) PROVE FilesInDir'
  BY <1>5, <1>0, <1>1 DEF PrepareSpawn
<1>6. ASSUME NEW c \in calls, PrepareFile(c) PROVE FilesInDir'
  <2>1. CASE UNCHANGED files
    BY <2>1
  <2>2. CASE Dir \in files[c.to]
             /\ files' = [files EXCEPT ![c.to] = Prepared(files[c.to], c.att)]
    BY <2>2, <1>0, <1>1, <1>2
  <2> QED
    BY <2>1, <2>2, <1>6 DEF PrepareFile
<1>7. ASSUME NEW c \in calls, Receive(c) PROVE FilesInDir'
  <2>1. CASE UNCHANGED files
    BY <2>1
  <2>2. CASE Writable(c) /\ files' = [files EXCEPT ![c.to] =
               IF c.kind = "vmstate" THEN Replaced(files[c.to], c.kind, c.att)
               ELSE files[c.to] \cup {<<c.kind, c.att>>}]
    <3>1. Dir \in files[c.to]
      BY <2>2, <1>0 DEF Writable
    <3> QED
      BY <2>2, <3>1, <1>0, <1>1, <1>2
  <2> QED
    BY <2>1, <2>2, <1>7 DEF Receive
<1>8. ASSUME NEW c \in calls, AbortRemove(c) PROVE FilesInDir'
  BY <1>8, <1>0 DEF AbortRemove
<1>9. ASSUME UNCHANGED files PROVE FilesInDir'
  BY <1>9
<1>10. ASSUME NEW s \in Slots, Source(s) \/ Booting(s) PROVE FilesInDir'
  BY <1>3, <1>4, <1>9, <1>10
     DEF Source, Booting, Send, ReadReply, FailsAtOnce, Abandon, SucceedKill, Succeed, Resume,
         Boot
<1>11. ASSUME NEW c \in calls, Handle(c) \/ Forget(c) PROVE FilesInDir'
  BY <1>5, <1>6, <1>7, <1>8, <1>9, <1>11
     DEF Handle, Forget, FinalizeCheck, FinalizeLoad, FinalizeRun, AbortCheck, AbortKill,
         AbortFree
<1>12. ASSUME \/ (\E s \in Slots : TimeOut(s)) \/ Operate \/ UNCHANGED vars
              \/ \E d \in Deletes : Deleting(d)
       PROVE  FilesInDir'
  BY <1>9, <1>12 DEF TimeOut, Abandon, Operate, Migrate, Cancel, Create, vars, Deleting,
                     DeleteLook, DeleteKill, DeleteState, DeleteFree
<1> QED
  BY <1>10, <1>11, <1>12 DEF Next, Serve
-----------------------------------------------------------------------------
(* Boots.  A guest that was created when there was none is alone until its *)
(* boot is over, and in the registry, unless it was deleted meanwhile.     *)

BootAlone ==
  "create" \notin trouble =>
    \A s \in Slots : pc[s] \in {"spawn", "boot"} =>
      /\ calls = {}
      /\ \A t \in Slots \ {s} : pc[t] = "none" /\ t \notin Holders /\ t \notin Eligible
      /\ (pc[s] = "spawn" /\ ~Excuses({"boot", "drop"})) => reg[host[s]] = s

(* When nothing is under way only a holder is listed as running.           *)
LEMMA QuietEligible ==
  ASSUME IInv, Quiet
  PROVE  Eligible \subseteq Holders
<1>1. Fallen = {}
  BY DEF Fallen, Doomed, Quiet
<1> QED
  BY <1>1, SlotsAssumption DEF Eligible, Holders, IInv, RegSound, TypeOK

(* Every step leaves a boot alone.                                         *)
LEMMA BootAloneStep ==
  ASSUME IInv, BootAlone, [Next]_vars
  PROVE  BootAlone'
<1>0. trouble \subseteq trouble'
  BY TroubleGrows
<1> SUFFICES ASSUME "create" \notin trouble', "create" \notin trouble,
                    NEW b \in Slots, pc'[b] \in {"spawn", "boot"}
             PROVE  /\ calls' = {}
                    /\ \A t \in Slots \ {b} :
                         pc'[t] = "none" /\ t \notin Holders' /\ t \notin Eligible'
                    /\ (pc'[b] = "spawn" /\ ~Excuses({"boot", "drop"})') => reg'[host'[b]] = b
  BY <1>0 DEF BootAlone
<1>t. /\ pc \in [Slots -> PCs] /\ proc \in [Slots -> Procs] /\ host \in [Slots -> Hosts]
      /\ reg \in [Hosts -> Slots \cup {NoSlot}] /\ state \in [Slots -> States]
      /\ del \in [Deletes -> DelRequest]
  BY DEF IInv, TypeOK
<1>1. CASE pc[b] \in {"spawn", "boot"}
  <2>1. /\ calls = {}
        /\ \A t \in Slots \ {b} : pc[t] = "none" /\ t \notin Holders /\ t \notin Eligible
        /\ (pc[b] = "spawn" /\ ~Excuses({"boot", "drop"})) => reg[host[b]] = b
    BY <1>1 DEF BootAlone
  <2>2. \A s \in Slots : ~Source(s) /\ ~Cancel(s) /\ ~TimeOut(s)
    <3>1. \A s \in Slots : Pending(s) = {} /\ pc[s] \in {"none", "spawn", "boot"}
      BY <1>1, <2>1 DEF Pending
    <3> QED
      BY <3>1 DEF Source, Send, ReadReply, FailsAtOnce, Pause, SucceedKill, Succeed, Resume,
                  Cancel, TimeOut, Requests
  <2>3. ~(\E c \in calls : Handle(c) \/ Forget(c))
    BY <2>1
  <2>4. \A s \in Slots, t \in Hosts : ~Migrate(s, t)
    <3> SUFFICES ASSUME NEW s \in Slots, NEW t \in Hosts, Migrate(s, t) PROVE FALSE
      OBVIOUS
    <3>1. pc[s] = "none" /\ s \in Eligible
      BY DEF Migrate, Eligible
    <3> QED
      BY <1>1, <2>1, <3>1
  <2>5. \A h \in Hosts : ~Create(h)
    BY <1>1 DEF Create, Quiet
  <2>6. CASE \E s \in Slots : Booting(s)
    <3> PICK s \in Slots : Booting(s)
      BY <2>6
    <3>1. s = b
      BY <1>1, <2>1 DEF Booting, BootSpawn, Boot
    <3>2. /\ calls' = calls /\ pc'[b] \in {"boot", "none"} /\ UNCHANGED <<host, reg>>
          /\ \A t \in Slots \ {b} : pc'[t] = pc[t] /\ proc'[t] = proc[t] /\ state'[t] = state[t]
      BY <1>t, <3>1 DEF Booting, BootSpawn, Boot
    <3> QED
      BY <2>1, <3>2 DEF Holders, Eligible
  <2>7. CASE \E d \in Deletes : (\E h \in Hosts : DeleteLook(d, h)) \/ Deleting(d)
    <3> PICK d \in Deletes : (\E h \in Hosts : DeleteLook(d, h)) \/ Deleting(d)
      BY <2>7
    <3>0. UNCHANGED <<pc, host, calls>> /\ del[d].slot \in Slots \cup {NoSlot}
      BY <1>t DEF Deleting, DeleteLook, DeleteKill, DeleteState, DeleteFree, slotVars, DelRequest
    <3>1. /\ \A t \in Slots : proc'[t] \in {proc[t], "none", "killed"}
          /\ \A t \in Slots : state'[t] \in {state[t], "dead"}
          /\ \A h \in Hosts : reg'[h] \in {reg[h], NoSlot}
      BY <1>t DEF Deleting, DeleteLook, DeleteKill, DeleteState, DeleteFree, slotVars, Killed
    <3>2. \A t \in Slots \ {b} : t \notin Holders' /\ t \notin Eligible'
      BY <1>t, <2>1, <3>0, <3>1, SlotsAssumption DEF Holders, Eligible
    <3>3. ASSUME pc'[b] = "spawn", ~Excuses({"boot", "drop"})' PROVE reg'[host'[b]] = b
      <4>1. reg[host[b]] = b
        BY <1>0, <2>1, <3>0, <3>3 DEF Excuses
      <4>2. CASE reg' = reg
        BY <3>0, <4>1, <4>2
      <4>3. CASE DeleteFree(d) /\ del[d].host = host[b]
        <5>1. reg[del[d].host] = del[d].slot
          BY <3>3, <4>1, <4>3, SlotsAssumption DEF DeleteFree, Excuses
        <5>2. del[d].slot = b /\ del[d].st = "dead"
          BY <4>1, <4>3, <5>1, SlotsAssumption DEF DeleteFree
        <5>3. DelSound(d) /\ SlotSound(b)
          BY DEF IInv
        <5>4. "boot" \in trouble
          BY <3>0, <3>3, <5>2, <5>3 DEF DelSound, SlotSound
        <5> QED
          BY <1>0, <3>3, <5>4 DEF Excuses
      <4>4. CASE DeleteFree(d) /\ del[d].host # host[b]
        BY <1>t, <3>0, <4>1, <4>4 DEF DeleteFree
      <4> QED
        BY <4>2, <4>3, <4>4
           DEF Deleting, DeleteLook, DeleteKill, DeleteState, slotVars
    <3> QED
      BY <2>1, <3>0, <3>2, <3>3
  <2>8. CASE UNCHANGED vars
    BY <2>1, <2>8 DEF vars, slotVars, srcVars, Holders, Eligible, Excuses
  <2> QED
    BY <2>2, <2>3, <2>4, <2>5, <2>6, <2>7, <2>8 DEF Next, Serve, Operate
<1>2. CASE pc[b] \notin {"spawn", "boot"}
  <2>1. PICK h \in Hosts : Create(h)
    <3>1. ASSUME NEW s \in Slots, Source(s) \/ TimeOut(s) PROVE FALSE
      <4>1. pc'[s] \notin {"spawn", "boot"} /\ \A x \in Slots : x # s => pc'[x] = pc[x]
        <5>1. CASE Send(s)
          BY <1>t, <5>1 DEF Send, srcVars, Requests
        <5>2. CASE ReadReply(s)
          <6>1. PICK c \in Pending(s) :
                  pc' = [pc EXCEPT ![s] = IF c.st = "ok" THEN AfterReply[@] ELSE AfterError(@)]
            BY <5>2 DEF ReadReply
          <6>2. pc[s] \in Requests
            BY DEF Pending, IInv, CallSound, TypeOK, Call
          <6> QED
            BY <1>t, <6>1, <6>2 DEF AfterReply, AfterError, Requests
        <5>3. CASE Abandon(s)
          BY <1>t, <5>3 DEF Abandon, AfterError
        <5>4. CASE Pause(s) \/ SucceedKill(s) \/ Succeed(s) \/ Resume(s)
          BY <1>t, <5>4 DEF Pause, SucceedKill, Succeed, Resume, srcVars
        <5> QED
          BY <3>1, <5>1, <5>2, <5>3, <5>4 DEF Source, TimeOut, FailsAtOnce
      <4> QED
        BY <1>2, <4>1
    <3>2. ASSUME NEW s \in Slots, Booting(s) PROVE FALSE
      BY <1>2, <1>t, <3>2 DEF Booting, BootSpawn, Boot
    <3>3. ASSUME NEW c \in calls, Handle(c) \/ Forget(c) PROVE FALSE
      <4>1. UNCHANGED pc
        BY <3>3, HandlerServes DEF Forget, srcVars
      <4> QED
        BY <4>1, <1>2
    <3>4. ASSUME NEW s \in Slots, NEW t \in Hosts, Migrate(s, t) PROVE FALSE
      BY <1>2, <1>t, <3>4 DEF Migrate
    <3>5. ASSUME UNCHANGED pc PROVE FALSE
      BY <1>2, <3>5
    <3> QED
      BY <3>1, <3>2, <3>3, <3>4, <3>5
         DEF Next, Serve, Operate, Cancel, Deleting, DeleteLook, DeleteKill, DeleteState,
             DeleteFree, vars, srcVars
  <2>2. Holders = {} /\ Quiet /\ ~Conflict(h) /\ calls' = calls
    BY <1>2, <2>1 DEF Create
  <2>3. NewSlot \in Slots
    BY <2>1, NewSlotIsUnused DEF Create
  <2>4. /\ reg' = [reg EXCEPT ![h] = NewSlot]
        /\ proc' = [proc EXCEPT ![NewSlot] = "none"]
        /\ host' = [host EXCEPT ![NewSlot] = h]
        /\ pc' = [pc EXCEPT ![NewSlot] = "spawn"]
        /\ state' = [state EXCEPT ![NewSlot] = "new"]
    BY <2>1, <2>2 DEF Create
  <2>5. b = NewSlot
    BY <1>2, <1>t, <2>3, <2>4
  <2>6. Eligible = {}
    BY <2>2, QuietEligible
  <2>7. Eligible' = {}
    BY <1>t, <2>3, <2>4, <2>6 DEF Eligible
  <2> QED
    BY <1>t, <2>2, <2>3, <2>4, <2>5, <2>7 DEF Quiet, Holders
<1> QED
  BY <1>1, <1>2

-----------------------------------------------------------------------------
(* Crossing migrations.  If a lost finalize has left two runners of the    *)
(* guest, the first attempt's target is where the other one runs, and what *)
(* is left of that attempt is its rollback.                                *)

Active(s) == pc[s] \in Requests \cup {"pause", "resume"}

(* The peer has tried to do what s waits for.                              *)
Tried(s) == \E c \in Pending(s) : c.st \notin {"sent", "checked"}

(* What is left of the attempt of s once x has the guest.                  *)
Left(s, x) ==
  /\ host[x] = target[s]
  /\ pc[s] \in {"finalize", "abort", "resume"}
  /\ pc[s] = "finalize" => Tried(s)
  /\ \A c \in calls : (c.kind = "finalize" /\ c.att = 1) => c.st \notin {"sent", "checked"}

(* Who runs the guest or is taken to run it.                               *)
Heirs == Runners \cup Eligible \cup Loaded

Crossing ==
  ("create" \notin trouble /\ attempts <= 2) =>
    \A s, x \in Slots :
      (s # x /\ Active(s) /\ att[s] = 1 /\ (Active(x) \/ (attempts = 1 /\ x \in Heirs)))
        => Left(s, x)

(* Steps by which no heir and no attempt comes up.                         *)
LEMMA CrossingKept ==
  ASSUME Crossing, trouble \subseteq trouble', UNCHANGED <<attempts, att, target>>,
         \A s \in Slots : Active(s)' =>
           /\ Active(s) /\ host'[s] = host[s]
           /\ pc'[s] = pc[s] \/ pc'[s] \in {"abort", "resume"} \/ pc[s] \in PreFinalize
           /\ (Tried(s) /\ pc[s] = "finalize" /\ pc'[s] = "finalize") => Tried(s)',
         \A x \in Slots : x \in Heirs' => (x \in Heirs \/ Active(x)) /\ host'[x] = host[x],
         \A c \in calls' : (c.kind = "finalize" /\ c.att = 1 /\ c.st \in {"sent", "checked"}) =>
           \E d \in calls : d.kind = "finalize" /\ d.att = 1 /\ d.st \in {"sent", "checked"}
  PROVE  Crossing'
<1> SUFFICES ASSUME "create" \notin trouble, attempts <= 2,
                    NEW s \in Slots, NEW x \in Slots, s # x, Active(s)', att'[s] = 1,
                    Active(x)' \/ (attempts = 1 /\ x \in Heirs')
             PROVE  Left(s, x)'
  BY DEF Crossing
<1>1. Left(s, x)
  BY DEF Crossing
<1>2. host'[x] = host[x]
  OBVIOUS
<1>3. pc'[s] = pc[s] \/ pc'[s] \in {"abort", "resume"}
  BY <1>1 DEF Left, PreFinalize
<1> QED
  BY <1>1, <1>2, <1>3 DEF Left

(* The second attempt is of the runner that the first one left.            *)
LEMMA CrossingMigrate ==
  ASSUME IInv, Attempts, Crossing, NEW s \in Slots, NEW t \in Hosts, Migrate(s, t)
  PROVE  Crossing'
<1>1. /\ pc[s] = "none" /\ s \in Eligible /\ pc' = [pc EXCEPT ![s] = "prepare"]
      /\ state' = [state EXCEPT ![s] = "migrating"]
      /\ target' = [target EXCEPT ![s] = t]
      /\ attempts' = attempts + 1 /\ att' = [att EXCEPT ![s] = attempts + 1]
      /\ trouble \subseteq trouble'
      /\ trouble' \subseteq trouble \cup {"self"}
      /\ UNCHANGED <<calls, host, proc, reg>>
  BY DEF Migrate, Eligible
<1>2. attempts \in Nat /\ \A x \in Slots : att[x] \in Nat /\ att[x] <= attempts
  BY DEF IInv, TypeOK
<1>3. /\ att'[s] = attempts + 1 /\ pc'[s] = "prepare"
      /\ \A x \in Slots : x # s => att'[x] = att[x] /\ pc'[x] = pc[x] /\ target'[x] = target[x]
  BY <1>1 DEF IInv, TypeOK
<1>h. Heirs' \subseteq Heirs
  BY <1>1 DEF Heirs, Runners, Eligible, Loaded, IInv, TypeOK
<1> SUFFICES ASSUME "create" \notin trouble, attempts + 1 <= 2,
                    NEW y \in Slots, NEW x \in Slots, y # x, Active(y)', att'[y] = 1,
                    Active(x)' \/ (attempts + 1 = 1 /\ x \in Heirs')
             PROVE  Left(y, x)'
  BY <1>1 DEF Crossing
<1>4. CASE y = s
  <2>1. attempts = 0
    BY <1>2, <1>3, <1>4
  <2>2. ~Excuses(Requests) /\ pc[x] \notin MigPCs
    BY <2>1 DEF Attempts
  <2>3. x \in Heirs
    BY <1>h, <1>3, <1>4, <2>2 DEF Active, MigPCs
  <2>4. x \in Claimants /\ s \in Claimants
    BY <1>1, <2>3 DEF Claimants, Heirs, Claims, Runners
  <2>5. ~Excuses({"finalize", "create"})
    BY <2>2 DEF Excuses, Requests
  <2> QED
    BY <1>4, <2>4, <2>5 DEF IInv, OneClaim
<1>5. CASE y # s
  <2>1. Active(y) /\ att[y] = 1 /\ attempts = 1
    BY <1>2, <1>3, <1>5 DEF Active, Attempts, MigPCs
  <2>2. Active(x) \/ x \in Heirs
    BY <1>1, <1>2, <1>3, <2>1 DEF Active, Heirs
  <2>3. Left(y, x)
    BY <2>1, <2>2 DEF Crossing
  <2>4. Tried(y) => Tried(y)'
    BY <1>1 DEF Tried, Pending
  <2> QED
    BY <1>1, <1>3, <1>5, <2>3, <2>4 DEF Left
<1> QED
  BY <1>4, <1>5

(* The first attempt's finalize request is not sent again.                 *)
LEMMA CrossingSend ==
  ASSUME IInv, Attempts, Crossing, NEW s \in Slots, Send(s)
  PROVE  Crossing'
<1>0. PICK d : /\ calls' = calls \cup {d}
               /\ d.from = s /\ d.kind = pc[s] /\ d.to = target[s] /\ d.att = att[s]
               /\ d.slot = NoSlot /\ d.st = "sent" /\ ~d.orphan
  BY SendAdds
<1>1. /\ pc[s] \in Requests /\ Pending(s) = {}
      /\ UNCHANGED <<state, proc, host, reg, pc, target, ctx, att, attempts, del, trouble>>
  BY DEF Send, slotVars, srcVars
<1>2. ~Tried(s)
  BY <1>1 DEF Tried
<1>3. \A x \in Slots : Tried(x) => Tried(x)'
  BY <1>0 DEF Tried, Pending
<1>h. Heirs' = Heirs
  BY <1>0, <1>1 DEF Heirs, Runners, Eligible, Loaded
<1> SUFFICES ASSUME "create" \notin trouble, attempts <= 2,
                    NEW y \in Slots, NEW x \in Slots, y # x, Active(y), att[y] = 1,
                    Active(x) \/ (attempts = 1 /\ x \in Heirs)
             PROVE  Left(y, x)'
  BY <1>1, <1>h DEF Crossing, Active
<1>4. Left(y, x)
  BY DEF Crossing
<1>5. ~(pc[s] = "finalize" /\ att[s] = 1)
  <2> SUFFICES ASSUME pc[s] = "finalize", att[s] = 1 PROVE FALSE
    OBVIOUS
  <2>1. y = s
    BY DEF Attempts, Active, MigPCs, Requests
  <2> QED
    BY <1>2, <1>4, <2>1 DEF Left
<1> QED
  BY <1>0, <1>1, <1>3, <1>4, <1>5 DEF Left

(* While there was one attempt, a load ends what could be left of it, its  *)
(* answer late or not.                                                     *)
LEMMA CrossingLoad ==
  ASSUME IInv, Attempts, Crossing, NEW c \in calls, c.kind = "finalize", c.st = "checked",
         proc' = [proc EXCEPT ![c.slot] = "running"],
         NEW st \in {"loaded", "err"}, NEW n \in Slots \cup {NoSlot}, Step(c, st, n),
         st = "loaded" => n = c.slot,
         trouble \subseteq trouble', UNCHANGED <<state, host, reg, srcVars>>
  PROVE  Crossing'
<1>0. c \in Call /\ c.slot \in Slots /\ host[c.slot] = c.to /\ c.att \in Nat /\ c.att <= attempts
      /\ c.att >= 1
  BY DEF IInv, TypeOK, Call, CallSound, Attempts, AttSound
<1>1. PICK d \in Call :
        /\ calls' = (calls \ {c}) \cup {d}
        /\ d.st = st /\ d.slot = n
        /\ d.from = c.from /\ d.kind = c.kind /\ d.to = c.to /\ d.att = c.att
        /\ d.orphan = c.orphan
  BY StepReplaces, CallsTyped DEF CallStates
<1>2. UNCHANGED <<pc, target, att, attempts, del>>
  BY DEF srcVars
<1>3. \A s \in Slots : Tried(s) => Tried(s)'
  BY <1>1 DEF Tried, Pending
<1>4. Heirs' \subseteq Heirs \cup {c.slot}
  <2>1. Runners' \subseteq Runners \cup {c.slot}
    BY <1>0 DEF Runners, IInv, TypeOK
  <2>2. Eligible' = Eligible /\ Loaded' \subseteq Loaded \cup {c.slot}
    BY <1>1 DEF Eligible, Loaded
  <2> QED
    BY <2>1, <2>2 DEF Heirs
<1> SUFFICES ASSUME "create" \notin trouble, attempts <= 2,
                    NEW s \in Slots, NEW x \in Slots, s # x, Active(s), att[s] = 1,
                    Active(x) \/ (attempts = 1 /\ x \in Heirs')
             PROVE  Left(s, x)'
  BY <1>2 DEF Crossing, Active
<1>5. CASE Active(x) \/ (attempts = 1 /\ x \in Heirs)
  <2>1. Left(s, x)
    BY <1>5 DEF Crossing
  <2> QED
    BY <1>1, <1>2, <1>3, <2>1 DEF Left
<1>6. CASE attempts = 1 /\ x = c.slot
  <2>1. c.att = att[s] /\ pc[s] \in MigPCs
    BY <1>0, <1>6 DEF Active, MigPCs
  <2>2. /\ c.from = s /\ c.to = target[s] /\ pc[s] \notin PreFinalize
        /\ c.orphan => pc[s] \in {"abort", "resume"}
    BY <2>1 DEF Attempts, AttSound
  <2>3. pc[s] \in {"finalize", "abort", "resume"}
    BY <2>2 DEF Active, Requests, PreFinalize
  <2>4. pc[s] = "finalize" => Tried(s)'
    BY <1>1, <2>2 DEF Tried, Pending
  <2>5. \A e \in calls' : (e.kind = "finalize" /\ e.att = 1) => e.st = st
    BY <1>1, <2>1 DEF Attempts
  <2> QED
    BY <1>0, <1>2, <1>6, <2>2, <2>3, <2>4, <2>5 DEF Left
<1> QED
  BY <1>4, <1>5, <1>6

(* Handlers short of a load.                                               *)
LEMMA CrossingHandler ==
  ASSUME IInv, Crossing, NEW c \in calls,
         NEW st \in CallStates, st # "loaded",
         NEW n \in Slots \cup {NoSlot}, Step(c, st, n), UNCHANGED srcVars,
         trouble \subseteq trouble',
         \/ c.kind # "finalize"
         \/ c.st \in {"sent", "checked"} /\ st \in {"checked", "err"}
         \/ c.st = "loaded" /\ st = "ok",
         Runners' \subseteq Runners, Eligible' \subseteq Heirs,
         \A s \in Slots : Active(s) \/ s \in Heirs => host'[s] = host[s]
  PROVE  Crossing'
<1>1. PICK d \in Call :
        /\ calls' = (calls \ {c}) \cup {d}
        /\ d.st = st /\ d.slot = n
        /\ d.from = c.from /\ d.kind = c.kind /\ d.to = c.to /\ d.att = c.att
        /\ d.orphan = c.orphan
  BY StepReplaces, CallsTyped
<1>2. UNCHANGED <<pc, target, att, attempts, del>>
  BY DEF srcVars
<1>3. \A s \in Slots : (Tried(s) /\ pc[s] = "finalize") => Tried(s)'
  <2> SUFFICES ASSUME NEW s \in Slots, NEW e \in Pending(s), e.st \notin {"sent", "checked"},
                      pc[s] = "finalize"
               PROVE  Tried(s)'
    BY DEF Tried
  <2>1. e.kind = "finalize" /\ e \in calls /\ e.from = s /\ ~e.orphan
    BY DEF IInv, CallSound, Pending
  <2> QED
    BY <1>1, <2>1 DEF Tried, Pending
<1>4. \A s \in Slots : Active(s)' => Active(s)
  BY <1>2 DEF Active
<1>5. \A e \in calls' : (e.kind = "finalize" /\ e.att = 1 /\ e.st \in {"sent", "checked"}) =>
        \E f \in calls : f.kind = "finalize" /\ f.att = 1 /\ f.st \in {"sent", "checked"}
  BY <1>1
<1>6. Heirs' \subseteq Heirs
  <2>1. Loaded' \subseteq Loaded
    BY <1>1 DEF Loaded
  <2> QED
    BY <2>1 DEF Heirs
<1> QED
  BY <1>2, <1>3, <1>4, <1>5, <1>6, CrossingKept

(* A reply moves its source on.                                            *)
LEMMA CrossingReadReply ==
  ASSUME IInv, Crossing, NEW s \in Slots, ReadReply(s)
  PROVE  Crossing'
<1>1. PICK c \in Pending(s) :
        /\ c.st \in {"ok", "err"}
        /\ pc' = [pc EXCEPT ![s] = IF c.st = "ok" THEN AfterReply[@] ELSE AfterError(@)]
        /\ calls' = calls \ {c}
        /\ UNCHANGED <<slotVars, reg, target, ctx, att, attempts, del, trouble>>
  BY DEF ReadReply
<1>2. c \in calls /\ c.from = s /\ ~c.orphan /\ c.kind = pc[s] /\ pc[s] \in Requests
  BY DEF Pending, IInv, CallSound, TypeOK, Call
<1>3. \A x \in Slots : x # s => pc'[x] = pc[x] /\ Pending(x)' = Pending(x)
  BY <1>1, <1>2 DEF IInv, TypeOK, Pending
<1>4. pc'[s] \in {"abort", "resume", "success"} \/ pc[s] \in PreFinalize
  BY <1>1, <1>2 DEF IInv, TypeOK, AfterReply, AfterError, Requests, PreFinalize
<1>5. \A x \in Slots : x # s => (Tried(x)' <=> Tried(x))
  BY <1>3 DEF Tried
<1>6. Active(s)' => pc'[s] # "success"
  BY DEF Active, Requests
<1>7. \A x \in Slots : Active(x)' =>
        /\ Active(x) /\ host'[x] = host[x]
        /\ pc'[x] = pc[x] \/ pc'[x] \in {"abort", "resume"} \/ pc[x] \in PreFinalize
        /\ (Tried(x) /\ pc[x] = "finalize" /\ pc'[x] = "finalize") => Tried(x)'
  BY <1>1, <1>2, <1>3, <1>4, <1>5, <1>6 DEF Active, slotVars, PreFinalize
<1>8. Heirs' \subseteq Heirs /\ host' = host
  BY <1>1 DEF Heirs, Runners, Eligible, Loaded, slotVars
<1> QED
  BY <1>1, <1>7, <1>8, CrossingKept

(* A source that gives up rolls back.                                      *)
LEMMA CrossingAbandon ==
  ASSUME IInv, Crossing, NEW s \in Slots, pc[s] \in Requests, Abandon(s)
  PROVE  Crossing'
<1>1. /\ \A c \in Pending(s) : c \in calls /\ c \in Call /\ c.from = s /\ ~c.orphan
      /\ calls' = (calls \ Pending(s)) \cup {Orphaned(c) : c \in Pending(s)}
  BY AbandonOrphans DEF IInv, TypeOK
<1>2. /\ pc' = [pc EXCEPT ![s] = AfterError(@)]
      /\ trouble' = trouble \cup {c.kind : c \in Pending(s)}
      /\ UNCHANGED <<slotVars, reg, target, ctx, att, attempts, del>>
  BY DEF Abandon
<1>3. /\ pc'[s] \in {"abort", "resume"}
      /\ \A x \in Slots : x # s => pc'[x] = pc[x]
  BY <1>2 DEF IInv, TypeOK, AfterError
<1>4. \A x \in Slots : x # s => Pending(x)' = Pending(x)
  BY <1>1, OrphanedIsCall DEF Pending
<1>5. \A x \in Slots : x # s => (Tried(x)' <=> Tried(x))
  BY <1>4 DEF Tried
<1>6. \A e \in calls' : \E f \in calls :
        f.kind = e.kind /\ f.att = e.att /\ f.st = e.st /\ f.slot = e.slot
  BY <1>1, OrphanedIsCall
<1>7. \A x \in Slots : Active(x)' =>
        /\ Active(x) /\ host'[x] = host[x]
        /\ pc'[x] = pc[x] \/ pc'[x] \in {"abort", "resume"} \/ pc[x] \in PreFinalize
        /\ (Tried(x) /\ pc[x] = "finalize" /\ pc'[x] = "finalize") => Tried(x)'
  BY <1>2, <1>3, <1>5 DEF Active, slotVars
<1>8. \A e \in calls' : (e.kind = "finalize" /\ e.att = 1 /\ e.st \in {"sent", "checked"}) =>
        \E f \in calls : f.kind = "finalize" /\ f.att = 1 /\ f.st \in {"sent", "checked"}
  BY <1>6
<1>9. Heirs' \subseteq Heirs /\ host' = host
  <2>1. Loaded' \subseteq Loaded
    BY <1>6 DEF Loaded
  <2> QED
    BY <1>2, <2>1 DEF Heirs, Runners, Eligible, slotVars
<1> QED
  BY <1>2, <1>7, <1>8, <1>9, CrossingKept

(* Steps of a VM object's own goroutine, and of the operator on it.        *)
LEMMA CrossingOwn ==
  ASSUME Crossing, trouble \subseteq trouble', UNCHANGED <<attempts, att, target, calls, host>>,
         \A s \in Slots : pc'[s] = pc[s] \/ ~Active(s)' \/ pc[s] = "pause",
         \A x \in Slots : x \in Runners' => x \in Runners \/ Active(x),
         \A x \in Slots : x \in Eligible' => x \in Eligible \/ Active(x)
  PROVE  Crossing'
<1>1. \A s \in Slots : Active(s)' => Active(s)
  BY DEF Active
<1>2. \A s \in Slots : Tried(s)' <=> Tried(s)
  BY DEF Tried, Pending
<1>3. \A x \in Slots : x \in Heirs' => x \in Heirs \/ Active(x)
  BY DEF Heirs, Loaded
<1> QED
  BY <1>1, <1>2, <1>3, CrossingKept DEF PreFinalize

(* Every step.                                                             *)
LEMMA CrossingStep ==
  ASSUME IInv, Attempts, BootAlone, Crossing, [Next]_vars
  PROVE  Crossing'
<1>t. /\ pc \in [Slots -> PCs] /\ proc \in [Slots -> Procs] /\ host \in [Slots -> Hosts]
      /\ reg \in [Hosts -> Slots \cup {NoSlot}] /\ calls \subseteq Call
      /\ state \in [Slots -> States] /\ NoSlot \notin Slots
  BY SlotsAssumption DEF IInv, TypeOK
<1>0. trouble \subseteq trouble'
  BY TroubleGrows
<1>1. CASE \E s \in Slots : Source(s)
  <2> PICK s \in Slots : Source(s)
    BY <1>1
  <2>1. CASE Send(s)
    BY <2>1, CrossingSend
  <2>2. CASE ReadReply(s)
    BY <2>2, CrossingReadReply
  <2>3. CASE FailsAtOnce(s)
    BY <2>3, CrossingAbandon DEF FailsAtOnce
  <2>4. CASE Pause(s)
    <3>1. /\ UNCHANGED <<host, target, att, attempts, calls>> /\ Eligible' = Eligible
          /\ pc[s] = "pause"
          /\ \A x \in Slots : x # s => pc'[x] = pc[x]
          /\ Runners' \subseteq Runners
      BY <1>t, <2>4 DEF Pause, Runners, Paused, Eligible
    <3> QED
      BY <1>0, <3>1, CrossingOwn
  <2>5. CASE SucceedKill(s)
    <3>1. /\ UNCHANGED <<host, pc, target, att, attempts, calls>> /\ Eligible' = Eligible
          /\ Runners' \subseteq Runners
      BY <1>t, <2>5 DEF SucceedKill, Runners, Killed, srcVars, Eligible
    <3> QED
      BY <1>0, <3>1, CrossingOwn
  <2>6. CASE Succeed(s)
    <3>1. /\ UNCHANGED <<host, target, att, attempts, calls>> /\ Runners' = Runners
          /\ pc'[s] = "none" /\ Eligible' \subseteq Eligible
          /\ \A x \in Slots : x # s => pc'[x] = pc[x]
      BY <1>t, <2>6 DEF Succeed, Runners, Eligible
    <3> QED
      BY <1>0, <3>1, CrossingOwn DEF Active, Requests
  <2>7. CASE Resume(s)
    <3>1. /\ UNCHANGED <<host, reg, target, att, attempts, calls>>
          /\ pc[s] = "resume" /\ pc'[s] = "none"
          /\ \A x \in Slots : x # s => /\ pc'[x] = pc[x] /\ proc'[x] = proc[x]
                                       /\ state'[x] = state[x]
      BY <1>t, <2>7 DEF Resume
    <3>2. /\ \A x \in Slots : x \in Runners' => x \in Runners \/ x = s
          /\ \A x \in Slots : x \in Eligible' => x \in Eligible \/ x = s
      BY <3>1 DEF Runners, Eligible
    <3> QED
      BY <1>0, <3>1, <3>2, CrossingOwn DEF Active, Requests
  <2> QED
    BY <2>1, <2>2, <2>3, <2>4, <2>5, <2>6, <2>7 DEF Source
<1>2. CASE \E s \in Slots : Booting(s)
  <2> PICK s \in Slots : Booting(s)
    BY <1>2
  <2>1. /\ pc[s] \in {"spawn", "boot"} /\ pc'[s] \in {"boot", "none"}
        /\ \A x \in Slots : x # s => pc'[x] = pc[x]
    BY <1>t DEF Booting, BootSpawn, Boot
  <2>2. "create" \notin trouble' => \A x \in Slots : ~Active(x)'
    BY <1>0, <2>1 DEF BootAlone, Active, Requests
  <2> QED
    BY <2>2 DEF Crossing
<1>3. CASE \E c \in calls : Handle(c)
  <2> PICK c \in calls : Handle(c)
    BY <1>3
  <2>0. /\ c.slot \in Slots \cup {NoSlot} /\ NoSlot \in Slots \cup {NoSlot}
        /\ reg[c.to] \in Slots \cup {NoSlot} /\ c.to \in Hosts /\ CallSound(c)
    BY <1>t DEF Call, IInv
  <2> USE DEF CallStates
  <2>1. CASE PrepareSpawn(c)
    <3>1. /\ NewSlot \in Slots /\ proc[NewSlot] \in {"none", "killed"} /\ pc[NewSlot] = "none"
          /\ \A h \in Hosts : reg[h] # NewSlot
          /\ \A e \in calls : e.slot # NewSlot
      BY <2>1, NewSlotIsUnused DEF PrepareSpawn
    <3>2. /\ UNCHANGED <<reg, srcVars>> /\ c.kind # "finalize"
          /\ \A s \in Slots : s # NewSlot => /\ host'[s] = host[s] /\ proc'[s] = proc[s]
                                             /\ state'[s] = state[s]
          /\ proc'[NewSlot] = "idle" /\ state'[NewSlot] = "receiving"
      BY <1>t, <2>1, <3>1 DEF PrepareSpawn
    <3>3. Runners' \subseteq Runners /\ Eligible' \subseteq Heirs
      BY <3>2 DEF Runners, Eligible, Heirs
    <3>4. NewSlot \notin Heirs /\ ~Active(NewSlot)
      BY <1>t, <3>1 DEF Heirs, Runners, Eligible, Loaded, Active, Requests
    <3>5. Step(c, "spawned", NewSlot) \/ Step(c, "err", NoSlot)
      BY <2>1 DEF PrepareSpawn
    <3>6. CASE Step(c, "spawned", NewSlot)
      BY <1>0, <3>1, <3>2, <3>3, <3>4, <3>6, CrossingHandler
    <3>7. CASE Step(c, "err", NoSlot)
      BY <1>0, <2>0, <3>2, <3>3, <3>4, <3>7, CrossingHandler
    <3> QED
      BY <3>5, <3>6, <3>7
  <2>2. CASE PrepareFile(c)
    <3>1. /\ Runners' \subseteq Runners /\ UNCHANGED <<state, host, srcVars>>
          /\ c.kind # "finalize" /\ c.st = "spawned"
          /\ Step(c, "ok", NoSlot) \/ Step(c, "err", NoSlot)
          /\ reg' = reg \/ reg' = [reg EXCEPT ![c.to] = c.slot]
      BY <1>t, <2>2 DEF PrepareFile, Runners, Killed
    <3>2. c.slot \in Slots /\ state[c.slot] = "receiving"
      BY <2>0, <3>1 DEF CallSound, IInv, SlotSound
    <3>3. Eligible' \subseteq Heirs
      BY <1>t, <3>1, <3>2 DEF Eligible, Heirs
    <3> QED
      BY <1>0, <2>0, <3>1, <3>3, CrossingHandler
  <2>3. CASE Receive(c)
    <3>1. /\ Runners' = Runners /\ Eligible' = Eligible /\ UNCHANGED <<host, srcVars>>
          /\ c.kind # "finalize"
          /\ Step(c, "ok", NoSlot) \/ Step(c, "err", NoSlot)
      BY <1>t, <2>3 DEF Receive, Runners, Eligible, slotVars
    <3> QED
      BY <1>0, <2>0, <3>1, CrossingHandler DEF Heirs
  <2>4. CASE FinalizeCheck(c)
    <3>1. /\ Runners' = Runners /\ Eligible' = Eligible /\ UNCHANGED <<host, srcVars>>
          /\ c.st = "sent"
          /\ Step(c, "checked", reg[c.to]) \/ Step(c, "err", NoSlot)
      BY <2>4 DEF FinalizeCheck, Runners, Eligible, slotVars
    <3> QED
      BY <1>0, <2>0, <3>1, CrossingHandler DEF Heirs
  <2>5. CASE FinalizeLoad(c)
    <3>0. c.kind = "finalize" /\ c.st = "checked" /\ UNCHANGED <<state, host, reg, srcVars>>
      BY <2>5 DEF FinalizeLoad
    <3>1. CASE proc' = [proc EXCEPT ![c.slot] = "running"] /\ Step(c, "loaded", c.slot)
      BY <1>0, <2>0, <3>0, <3>1, CrossingLoad
    <3>2. CASE proc' = [proc EXCEPT ![c.slot] = "running"] /\ Step(c, "err", NoSlot)
      BY <1>0, <2>0, <3>0, <3>2, CrossingLoad
    <3>3. CASE UNCHANGED proc /\ Step(c, "err", NoSlot)
      <4>1. Runners' = Runners /\ Eligible' = Eligible
        BY <3>0, <3>3 DEF Runners, Eligible
      <4> QED
        BY <1>0, <2>0, <3>0, <3>3, <4>1, CrossingHandler DEF Heirs
    <3> QED
      BY <2>5, <3>1, <3>2, <3>3 DEF FinalizeLoad
  <2>6. CASE FinalizeRun(c)
    <3>1. /\ Runners' = Runners /\ UNCHANGED <<host, reg, srcVars>> /\ c.st = "loaded"
          /\ state' = [state EXCEPT ![c.slot] = "running"]
          /\ Step(c, "ok", NoSlot)
      BY <2>6 DEF FinalizeRun, Runners
    <3>2. c.slot \in Loaded
      BY <2>0, <3>1 DEF CallSound, Loaded
    <3>3. Eligible' \subseteq Heirs
      BY <1>t, <3>1, <3>2 DEF Eligible, Heirs
    <3> QED
      BY <1>0, <2>0, <3>1, <3>3, CrossingHandler
  <2>7. CASE AbortCheck(c)
    <3>1. /\ Runners' = Runners /\ Eligible' = Eligible /\ UNCHANGED <<host, srcVars>>
          /\ c.kind # "finalize"
          /\ Step(c, "checked", reg[c.to]) \/ Step(c, "err", NoSlot) \/ Step(c, "ok", NoSlot)
      BY <2>7 DEF AbortCheck, Runners, Eligible, slotVars
    <3> QED
      BY <1>0, <2>0, <3>1, CrossingHandler DEF Heirs
  <2>8. CASE AbortKill(c)
    <3>1. /\ Runners' \subseteq Runners /\ Eligible' = Eligible /\ UNCHANGED <<host, srcVars>>
          /\ c.kind # "finalize"
          /\ Step(c, "killed", c.slot)
      BY <1>t, <2>8 DEF AbortKill, Runners, Eligible, Killed
    <3> QED
      BY <1>0, <2>0, <3>1, CrossingHandler DEF Heirs
  <2>9. CASE AbortFree(c)
    <3>1. /\ Runners' = Runners /\ UNCHANGED <<state, host, srcVars>>
          /\ c.kind # "finalize" /\ reg' = [reg EXCEPT ![c.to] = NoSlot]
          /\ Step(c, "freed", NoSlot)
      BY <2>9 DEF AbortFree, Runners, slotVars
    <3>2. Eligible' \subseteq Heirs
      BY <1>t, <3>1 DEF Eligible, Heirs
    <3> QED
      BY <1>0, <2>0, <3>1, <3>2, CrossingHandler
  <2>10. CASE AbortRemove(c)
    <3>1. /\ Runners' = Runners /\ Eligible' = Eligible /\ UNCHANGED <<host, srcVars>>
          /\ c.kind # "finalize"
          /\ Step(c, "ok", NoSlot)
      BY <2>10 DEF AbortRemove, Runners, Eligible, slotVars
    <3> QED
      BY <1>0, <2>0, <3>1, CrossingHandler DEF Heirs
  <2> QED
    BY <2>1, <2>2, <2>3, <2>4, <2>5, <2>6, <2>7, <2>8, <2>9, <2>10 DEF Handle
<1>4. CASE \E c \in calls : Forget(c)
  <2> PICK c \in calls : Forget(c)
    BY <1>4
  <2>1. /\ calls' = calls \ {c} /\ c.orphan
        /\ UNCHANGED <<state, proc, host, reg, pc, target, att, attempts, del>>
    BY DEF Forget, slotVars, srcVars
  <2>2. \A s \in Slots : Tried(s)' <=> Tried(s)
    BY <2>1 DEF Tried, Pending
  <2>3. Heirs' \subseteq Heirs
    BY <2>1 DEF Heirs, Runners, Eligible, Loaded
  <2> QED
    BY <1>0, <2>1, <2>2, <2>3, CrossingKept DEF Active
<1>5. CASE \E s \in Slots : TimeOut(s)
  <2> PICK s \in Slots : TimeOut(s)
    BY <1>5
  <2>1. pc[s] \in Requests
    BY DEF TimeOut, Pending, IInv, CallSound, TypeOK, Call
  <2> QED
    BY <2>1, CrossingAbandon DEF TimeOut
<1>6. CASE \E s \in Slots, t \in Hosts : Migrate(s, t)
  BY <1>6, CrossingMigrate
<1>7. CASE \E s \in Slots : Cancel(s)
  <2>1. /\ UNCHANGED <<host, pc, target, att, attempts, calls>>
        /\ Runners' = Runners /\ Eligible' = Eligible
    BY <1>7 DEF Cancel, slotVars, Runners, Eligible
  <2> QED
    BY <1>0, <2>1, CrossingOwn
<1>8. CASE \E h \in Hosts : Create(h)
  <2> PICK h \in Hosts : Create(h)
    BY <1>8
  <2>1. NewSlot \in Slots
    BY NewSlotIsUnused DEF Create
  <2>2. "create" \notin trouble' => \A x \in Slots : pc'[x] \in {"none", "spawn"}
    BY <1>t, <2>1 DEF Create, Quiet
  <2> QED
    BY <2>2 DEF Crossing, Active, Requests
<1>9. CASE \E d \in Deletes : (\E h \in Hosts : DeleteLook(d, h)) \/ Deleting(d)
  <2> PICK d \in Deletes : (\E h \in Hosts : DeleteLook(d, h)) \/ Deleting(d)
    BY <1>9
  <2>1. UNCHANGED <<host, pc, target, att, attempts, calls>>
    BY DEF Deleting, DeleteLook, DeleteKill, DeleteState, DeleteFree, slotVars
  <2>2. /\ \A x \in Slots : proc'[x] \in {proc[x], "none", "killed"}
        /\ \A x \in Slots : state'[x] \in {state[x], "dead"}
        /\ \A h \in Hosts : reg'[h] \in {reg[h], NoSlot}
    BY <1>t DEF Deleting, DeleteLook, DeleteKill, DeleteState, DeleteFree, slotVars, Killed
  <2>3. Runners' \subseteq Runners /\ Eligible' \subseteq Eligible
    BY <1>t, <2>1, <2>2 DEF Runners, Eligible
  <2> QED
    BY <1>0, <2>1, <2>3, CrossingOwn
<1>10. CASE UNCHANGED vars
  <2>1. /\ UNCHANGED <<host, pc, target, att, attempts, calls>>
        /\ Runners' = Runners /\ Eligible' = Eligible
    BY <1>10 DEF vars, slotVars, srcVars, Runners, Eligible
  <2> QED
    BY <1>0, <2>1, CrossingOwn
<1> QED
  BY <1>1, <1>2, <1>3, <1>4, <1>5, <1>6, <1>7, <1>8, <1>9, <1>10 DEF Next, Serve, Operate
-----------------------------------------------------------------------------
(* The registry.                                                           *)

(* What has happened does not excuse a guest that its agent does not know. *)
Unspoilt ==
  /\ ~Excuses({"create", "boot", "abort", "drop"})
  /\ Excuses({"finalize"}) => ~Excuses({"prepare"}) /\ attempts <= 2

(* A migration to the host the guest is on kills it, and gets no further   *)
(* than the pause.                                                         *)
SelfMove(s) ==
  target[s] = host[s] =>
    /\ (pc[s] \in {"mem", "pause"} \/ (pc[s] = "prepare" /\ Served(s))) => s \notin Holders
    /\ pc[s] \notin {"final", "vmstate", "finalize", "success"}

(* A finalize that is about to load a process.                             *)
Loads(d) == d.kind = "finalize" /\ d.st = "checked" /\ proc[d.slot] = "idle"

(* A finalize that will find a process to load.                            *)
WillLoad(d) ==
  /\ d.kind = "finalize" /\ d.st = "sent"
  /\ reg[d.to] # NoSlot /\ proc[reg[d.to]] = "idle"

(* An abort that is about to free a slot and to remove the directory hits  *)
(* nothing that has the guest or will get it.                              *)
Teardown(c) == c.kind = "abort" /\ c.st \in {"checked", "killed", "freed"}
TeardownSound(c) ==
  /\ reg[c.to] \in Holders => reg[c.to] = c.slot
  /\ \A d \in calls : d.to = c.to =>
       (Loads(d) => d.slot = c.slot) /\ (WillLoad(d) => reg[c.to] = c.slot)

Known ==
  /\ \A s \in Holders : reg[host[s]] = s /\ Dir \in files[host[s]]
  /\ \A d \in calls : Loads(d) => reg[d.to] = d.slot
  /\ \A c \in calls : Teardown(c) => TeardownSound(c)

Registry == Unspoilt => Known /\ \A s \in Slots : SelfMove(s)

(* Two requests that their handlers treat alike.                           *)
Like(c, d) == c.kind = d.kind /\ c.to = d.to /\ c.st = d.st /\ c.slot = d.slot

(* What is not excused now was not excused before.                         *)
LEMMA UnspoiltBefore ==
  ASSUME IInv, IInv', trouble \subseteq trouble', attempts <= attempts', Unspoilt'
  PROVE  Unspoilt
BY DEF Unspoilt, Excuses, IInv, TypeOK

(* Attempts only grow.                                                     *)
LEMMA AttemptsGrow ==
  ASSUME IInv, [Next]_vars
  PROVE  attempts' \in Nat /\ attempts <= attempts'
<1>1. attempts' = attempts \/ attempts' = attempts + 1
  BY HandlerServes DEF Next, Serve, Operate, Source, Booting, Forget, Send, ReadReply, FailsAtOnce,
     Abandon, Pause, SucceedKill, Succeed, Resume, BootSpawn, Boot, TimeOut, Migrate, Cancel,
     Create, Deleting, DeleteLook, DeleteKill, DeleteState, DeleteFree, vars, srcVars
<1> QED
  BY <1>1 DEF IInv, TypeOK

(* Steps by which no process, no load and no abort comes up.               *)
LEMMA KnownKept ==
  ASSUME IInv, IInv', Known, UNCHANGED reg,
         \A s \in Slots : s \in Holders' => s \in Holders /\ host'[s] = host[s],
         \A s \in Slots : proc'[s] = "idle" /\ proc[s] # "idle" =>
            (\A h \in Hosts : reg[h] # s) /\ \A c \in calls : c.slot # s,
         \A h \in Hosts : (Dir \in files[h] /\ reg[h] \in Holders) => Dir \in files'[h],
         \A e \in calls' : (Teardown(e) \/ (e.kind = "finalize" /\ e.st \in {"sent", "checked"}))
            => \E d \in calls : Like(e, d)
  PROVE  Known'
<1>1. \A s \in Holders' : reg'[host'[s]] = s /\ Dir \in files'[host'[s]]
  BY DEF Known, Holders, IInv, TypeOK
<1>2. \A e \in calls' : Loads(e)' => \E d \in calls : Like(e, d) /\ Loads(d)
  <2> SUFFICES ASSUME NEW e \in calls', Loads(e)' PROVE \E d \in calls : Like(e, d) /\ Loads(d)
    OBVIOUS
  <2>1. PICK d \in calls : Like(e, d)
    BY DEF Loads
  <2>2. e.slot \in Slots
    BY DEF IInv, CallSound, Loads
  <2>3. proc[e.slot] = "idle"
    BY <2>1, <2>2 DEF Like, Loads
  <2> QED
    BY <2>1, <2>3 DEF Like, Loads
<1>3. \A e \in calls' : WillLoad(e)' => \E d \in calls : Like(e, d) /\ WillLoad(d)
  <2> SUFFICES ASSUME NEW e \in calls', WillLoad(e)' PROVE \E d \in calls : Like(e, d) /\ WillLoad(d)
    OBVIOUS
  <2>1. PICK d \in calls : Like(e, d)
    BY DEF WillLoad
  <2>2. e.to \in Hosts /\ reg[e.to] \in Slots
    BY DEF IInv, TypeOK, Call, WillLoad
  <2>3. proc[reg[e.to]] = "idle"
    BY <2>2 DEF WillLoad
  <2> QED
    BY <2>1, <2>3 DEF Like, WillLoad
<1>4. \A e \in calls' : Teardown(e) => TeardownSound(e)'
  <2> SUFFICES ASSUME NEW e \in calls', Teardown(e) PROVE TeardownSound(e)'
    OBVIOUS
  <2>1. PICK c \in calls : Like(e, c)
    OBVIOUS
  <2>2. TeardownSound(c)
    BY <2>1 DEF Known, Teardown, Like
  <2>3. reg'[e.to] \in Holders' => reg'[e.to] = e.slot
    BY <2>1, <2>2 DEF TeardownSound, Like, Holders
  <2> QED
    BY <1>2, <1>3, <2>1, <2>2, <2>3 DEF TeardownSound, Like
<1>5. \A e \in calls' : Loads(e)' => reg'[e.to] = e.slot
  BY <1>2 DEF Known, Like
<1> QED
  BY <1>1, <1>4, <1>5 DEF Known, Teardown

(* A source that is left alone, and perhaps killed.                        *)
LEMMA SelfKept ==
  ASSUME NEW s \in Slots, SelfMove(s),
         pc'[s] \in MigPCs => UNCHANGED <<pc[s], target[s], host[s]>>,
         s \in Holders' /\ pc'[s] \in MigPCs => s \in Holders,
         pc'[s] = "prepare" /\ Served(s)' => Served(s)
  PROVE  SelfMove(s)'
BY DEF SelfMove, MigPCs, Requests

(* What a source has been answered is as it was unless it was answered.    *)
LEMMA StepServes ==
  ASSUME NEW c \in calls, NEW d, calls' = (calls \ {c}) \cup {d},
         d.from = c.from, d.orphan = c.orphan, NEW s \in Slots,
         d.st # "ok" \/ c.orphan \/ c.from # s \/ c.st = "ok", Served(s)'
  PROVE  Served(s)
BY DEF Served, Pending

-----------------------------------------------------------------------------
(* The registry: sources.                                                  *)

(* handleMigrate.                                                          *)
LEMMA RegistryMigrate ==
  ASSUME IInv, IInv', Registry, NEW s \in Slots, NEW t \in Hosts, Migrate(s, t)
  PROVE  Registry'
<1>1. /\ pc[s] = "none" /\ pc' = [pc EXCEPT ![s] = "prepare"]
      /\ target' = [target EXCEPT ![s] = t]
      /\ attempts' = attempts + 1
      /\ trouble \subseteq trouble'
      /\ UNCHANGED <<calls, host, proc, reg, files>>
  BY DEF Migrate
<1>2. Unspoilt' => Unspoilt
  BY <1>1, UnspoiltBefore DEF IInv, TypeOK
<1>3. Holders' = Holders
  BY <1>1 DEF Holders
<1>4. Known => Known'
  BY <1>1, <1>3, KnownKept DEF Like
<1>5. \A x \in Slots : x # s => pc'[x] = pc[x] /\ target'[x] = target[x]
  BY <1>1 DEF IInv, TypeOK
<1>6. \A x \in Slots : Served(x)' => Served(x)
  BY <1>1 DEF Served, Pending
<1>7. ~Served(s)
  BY <1>1 DEF Served, Pending, IInv, CallSound, TypeOK, Call, Requests
<1>8. SelfMove(s)'
  BY <1>1, <1>6, <1>7 DEF SelfMove, IInv, TypeOK
<1>9. \A x \in Slots : (x # s /\ SelfMove(x)) => SelfMove(x)'
  BY <1>1, <1>3, <1>5, <1>6, SelfKept
<1> QED
  BY <1>2, <1>4, <1>8, <1>9 DEF Registry

(* Two sources that move to one host, one of them rolling back: the        *)
(* finalize of the latter was lost, and the other one is the runner that   *)
(* it left, migrating to the host it is on.                                *)
LEMMA TwoMovers ==
  ASSUME IInv, Attempts, Crossing, "create" \notin trouble,
         Excuses({"finalize"}) => attempts <= 2,
         NEW m \in Slots, NEW x \in Slots, pc[x] = "abort",
         pc[m] \in PreFinalize \cup {"finalize"}, ~HandedOver(m), pc[m] = "finalize" => ~Tried(m), target[m] = target[x]
  PROVE  Excuses({"finalize"}) /\ att[m] = 2 /\ host[m] = target[m] /\ Left(x, m)
<1>1. m # x
  BY DEF PreFinalize
<1>2. ~HandedOver(x)
  BY HandoverAtFinalize
<1>3. m \in Claimants /\ x \in Claimants
  BY <1>2 DEF Claimants, Claims, PreFinalize, Requests
<1>4. Excuses({"finalize"})
  BY <1>1, <1>3 DEF IInv, OneClaim, Excuses
<1>5. Active(m) /\ Active(x) /\ pc[m] \in MigPCs /\ pc[x] \in MigPCs
  BY DEF Active, MigPCs, PreFinalize, Requests
<1>6. att[m] \in 1 .. 2 /\ att[x] \in 1 .. 2 /\ att[m] # att[x]
  <2>1. att[m] >= 1 /\ att[x] >= 1 /\ att[m] # att[x]
    BY <1>1, <1>5 DEF Attempts
  <2>2. att[m] \in 0 .. attempts /\ att[x] \in 0 .. attempts /\ attempts \in Nat
    BY DEF IInv, TypeOK
  <2>3. attempts <= 2
    BY <1>4
  <2> QED
    BY <2>1, <2>2, <2>3
<1>7. att[m] # 1
  <2> SUFFICES ASSUME att[m] = 1 PROVE FALSE
    OBVIOUS
  <2>1. Left(m, x)
    BY <1>1, <1>4, <1>5 DEF Crossing
  <2> QED
    BY <2>1 DEF Left, PreFinalize
<1>8. Left(x, m)
  BY <1>1, <1>4, <1>5, <1>6, <1>7 DEF Crossing
<1> QED
  BY <1>4, <1>6, <1>7, <1>8 DEF Left

(* A finalize that is sent goes to where no other attempt is torn down.    *)
LEMMA RegistrySend ==
  ASSUME IInv, IInv', Attempts, Crossing, Registry, NEW s \in Slots, Send(s)
  PROVE  Registry'
<1>0. PICK d : /\ calls' = calls \cup {d}
               /\ d.from = s /\ d.kind = pc[s] /\ d.to = target[s] /\ d.att = att[s]
               /\ d.slot = NoSlot /\ d.st = "sent" /\ ~d.orphan
  BY SendAdds
<1>1. /\ pc[s] \in Requests /\ Pending(s) = {}
      /\ UNCHANGED <<state, proc, host, reg, pc, target, ctx, att, attempts, del, files, trouble>>
  BY DEF Send, slotVars, srcVars
<1>2. Holders' = Holders /\ (Unspoilt' => Unspoilt)
  BY <1>1 DEF Holders, Unspoilt, Excuses
<1>3. \A x \in Slots : Served(x)' => Served(x)
  BY <1>0, <1>1 DEF Served, Pending
<1>4. \A x \in Slots : SelfMove(x) => SelfMove(x)'
  BY <1>1, <1>2, <1>3, SelfKept
<1> SUFFICES ASSUME Unspoilt, Known, \A x \in Slots : SelfMove(x) PROVE Known'
  BY <1>2, <1>4 DEF Registry
<1>5. CASE pc[s] # "finalize"
  <2>1. \A e \in calls' : (Teardown(e) \/ (e.kind = "finalize" /\ e.st \in {"sent", "checked"}))
            => \E f \in calls : Like(e, f)
    BY <1>0, <1>5 DEF Teardown, Like
  <2> QED
    BY <1>1, <1>2, <2>1, KnownKept
<1>6. CASE pc[s] = "finalize"
  <2>1. \A c \in calls : Teardown(c) => c.to # d.to
    <3> SUFFICES ASSUME NEW c \in calls, Teardown(c), c.to = d.to PROVE FALSE
      OBVIOUS
    <3>1. ~c.orphan
      BY DEF Attempts, AttSound, Unspoilt, Excuses, Teardown
    <3>2. c.from \in Slots /\ pc[c.from] = "abort" /\ target[c.from] = target[s]
      BY <1>0, <3>1 DEF IInv, CallSound, TypeOK, Call, Teardown
    <3>3. ~HandedOver(s) /\ ~Tried(s)
      BY <1>1, <1>6 DEF HandedOver, Tried
    <3>4. host[s] = target[s]
      BY <1>6, <3>2, <3>3, TwoMovers DEF Unspoilt, Excuses
    <3> QED
      BY <1>6, <3>4 DEF SelfMove
  <2>2. \A c \in calls : Teardown(c) => TeardownSound(c)'
    <3> SUFFICES ASSUME NEW c \in calls, Teardown(c) PROVE TeardownSound(c)'
      OBVIOUS
    <3>1. TeardownSound(c)
      BY DEF Known
    <3> QED
      BY <1>0, <1>1, <1>2, <2>1, <3>1 DEF TeardownSound, Loads, WillLoad
  <2>3. \A e \in calls' : Loads(e)' => e \in calls /\ Loads(e)
    BY <1>0, <1>1 DEF Loads
  <2>4. \A e \in calls' : Teardown(e) => e \in calls
    BY <1>0, <1>6 DEF Teardown
  <2> QED
    BY <1>1, <1>2, <2>2, <2>3, <2>4 DEF Known, Teardown
<1> QED
  BY <1>5, <1>6

(* A reply.                                                                *)
LEMMA RegistryReadReply ==
  ASSUME IInv, IInv', Registry, NEW s \in Slots, ReadReply(s)
  PROVE  Registry'
<1>1. PICK c \in Pending(s) :
        /\ c.st \in {"ok", "err"}
        /\ pc' = [pc EXCEPT ![s] = IF c.st = "ok" THEN AfterReply[@] ELSE AfterError(@)]
        /\ calls' = calls \ {c}
        /\ UNCHANGED <<slotVars, reg, target, ctx, att, attempts, del, files, trouble>>
  BY DEF ReadReply
<1>2. c \in calls /\ c.from = s /\ ~c.orphan /\ c.kind = pc[s] /\ pc[s] \in Requests
  BY DEF Pending, IInv, CallSound, TypeOK, Call
<1>3. \A x \in Slots : x # s => pc'[x] = pc[x] /\ Pending(x)' = Pending(x)
  BY <1>1, <1>2 DEF IInv, TypeOK, Pending
<1>4. Holders' = Holders /\ (Unspoilt' => Unspoilt)
  BY <1>1 DEF Holders, Unspoilt, Excuses, slotVars
<1>5. Known => Known'
  BY <1>1, <1>4, KnownKept DEF Like, slotVars
<1>6. \A x \in Slots : (x # s /\ SelfMove(x)) => SelfMove(x)'
  BY <1>1, <1>3, <1>4 DEF SelfMove, Served, slotVars
<1>7. SelfMove(s) => SelfMove(s)'
  <2>1. Served(s) \/ pc'[s] \in {"abort", "resume"}
    BY <1>1, <1>2 DEF Served, IInv, TypeOK, AfterError
  <2>2. pc'[s] = "mem" => (pc[s] = "prepare" /\ Served(s))
    BY <1>1, <1>2, <2>1 DEF IInv, TypeOK, AfterReply, AfterError, Requests
  <2>3. /\ pc'[s] # "prepare" /\ (pc'[s] = "pause" => pc[s] = "mem")
        /\ pc'[s] \in {"final", "vmstate", "finalize", "success"} =>
             pc[s] \in {"final", "vmstate", "finalize", "success"}
    BY <1>1, <1>2 DEF IInv, TypeOK, AfterReply, AfterError, Requests
  <2> QED
    BY <1>1, <1>4, <2>2, <2>3 DEF SelfMove, slotVars
<1> QED
  BY <1>4, <1>5, <1>6, <1>7 DEF Registry

(* A source that gives up.                                                 *)
LEMMA RegistryAbandon ==
  ASSUME IInv, IInv', Registry, NEW s \in Slots, pc[s] \in Requests, Abandon(s)
  PROVE  Registry'
<1>1. /\ \A c \in Pending(s) : c \in calls /\ c \in Call /\ c.from = s /\ ~c.orphan
      /\ calls' = (calls \ Pending(s)) \cup {Orphaned(c) : c \in Pending(s)}
  BY AbandonOrphans DEF IInv, TypeOK
<1>2. /\ pc' = [pc EXCEPT ![s] = AfterError(@)]
      /\ trouble \subseteq trouble'
      /\ UNCHANGED <<slotVars, reg, target, ctx, att, attempts, del, files>>
  BY DEF Abandon
<1>3. /\ pc'[s] \in {"abort", "resume"}
      /\ \A x \in Slots : x # s => pc'[x] = pc[x] /\ Pending(x)' = Pending(x)
  BY <1>1, <1>2, OrphanedIsCall DEF IInv, TypeOK, AfterError, Pending
<1>4. Holders' = Holders /\ (Unspoilt' => Unspoilt)
  BY <1>2 DEF Holders, Unspoilt, Excuses, slotVars
<1>5. \A e \in calls' : \E f \in calls : Like(e, f)
  BY <1>1, OrphanedIsCall DEF Like
<1>6. Known => Known'
  BY <1>2, <1>4, <1>5, KnownKept DEF slotVars
<1>7. \A x \in Slots : (x # s /\ SelfMove(x)) => SelfMove(x)'
  BY <1>2, <1>3, <1>4 DEF SelfMove, Served, slotVars
<1>8. SelfMove(s)'
  BY <1>3 DEF SelfMove
<1> QED
  BY <1>4, <1>6, <1>7, <1>8 DEF Registry

(* A self-migration has no process to pause.                               *)
LEMMA RegistryPause ==
  ASSUME IInv, IInv', Registry, NEW s \in Slots, Pause(s)
  PROVE  Registry'
<1>1. /\ pc[s] = "pause" /\ UNCHANGED <<host, reg, target, attempts, calls, trouble>>
      /\ pc'[s] \in {"final", "abort"} /\ (proc[s] # "running" => pc'[s] = "abort")
      /\ \A x \in Slots : x # s => pc'[x] = pc[x] /\ proc'[x] = proc[x]
      /\ proc'[s] = proc[s] \/ (proc[s] = "running" /\ proc'[s] = "paused")
  BY DEF Pause, Paused, IInv, TypeOK
<1>2. Holders' = Holders /\ (Unspoilt' => Unspoilt)
  BY <1>1 DEF Holders, Unspoilt, Excuses
<1>3. \A h \in Hosts : Dir \in files[h] => Dir \in files'[h]
  <2>1. Dir[1] = "dir"
    BY DEF Dir
  <2>2. CASE UNCHANGED files
    BY <2>2
  <2>3. CASE files' = [files EXCEPT ![host[s]] = Replaced(@, "vmstate", att[s])]
    BY <2>1, <2>3 DEF Replaced, IInv, TypeOK
  <2> QED
    BY <2>2, <2>3 DEF Pause
<1>4. Known => Known'
  <2>1. \A x \in Slots : proc'[x] = "idle" => proc[x] = "idle"
    BY <1>1
  <2> QED
    BY <1>1, <1>2, <1>3, <2>1, KnownKept DEF Like
<1>5. \A x \in Slots : (x # s /\ SelfMove(x)) => SelfMove(x)'
  BY <1>1, <1>2 DEF SelfMove, Served, Pending
<1>6. SelfMove(s) => SelfMove(s)'
  BY <1>1 DEF SelfMove, Holders
<1> QED
  BY <1>2, <1>4, <1>5, <1>6 DEF Registry

(* The end of a migration or a boot, and a deletion: no process is         *)
(* started.                                                                *)
LEMMA RegistryEnds ==
  ASSUME IInv, IInv', Registry, trouble \subseteq trouble',
         UNCHANGED <<host, reg, target, attempts, calls, files>>,
         \A x \in Slots : pc'[x] = pc[x] \/ pc'[x] = "none",
         \A x \in Slots : x \in Holders' => x \in Holders,
         \A x \in Slots : proc'[x] = "idle" => proc[x] = "idle"
  PROVE  Registry'
<1>1. Unspoilt' => Unspoilt
  BY DEF Unspoilt, Excuses
<1>2. Known => Known'
  BY KnownKept DEF Like
<1>3. \A x \in Slots : SelfMove(x) => SelfMove(x)'
  BY DEF SelfMove, Served, Pending
<1> QED
  BY <1>1, <1>2, <1>3 DEF Registry
-----------------------------------------------------------------------------
(* The registry: handlers.                                                 *)

(* What a handler's progress does to the sources: nothing, but for the     *)
(* answer to prepare.                                                      *)
LEMMA SelfHandler ==
  ASSUME IInv, NEW c \in calls,
         NEW st \in CallStates,
         NEW n \in Slots \cup {NoSlot}, Step(c, st, n), UNCHANGED srcVars,
         c.kind # "prepare" \/ st # "ok",
         \A s \in Slots : pc[s] # "none" =>
           host'[s] = host[s] /\ (s \in Holders' => s \in Holders)
  PROVE  \A s \in Slots : SelfMove(s) => SelfMove(s)'
<1>1. PICK d \in Call :
        /\ calls' = (calls \ {c}) \cup {d}
        /\ d.st = st /\ d.slot = n
        /\ d.from = c.from /\ d.kind = c.kind /\ d.to = c.to /\ d.att = c.att
        /\ d.orphan = c.orphan
  BY StepReplaces, CallsTyped
<1>2. UNCHANGED <<pc, target>>
  BY DEF srcVars
<1>3. \A s \in Slots : (pc[s] = "prepare" /\ Served(s)') => Served(s)
  <2> SUFFICES ASSUME NEW s \in Slots, pc[s] = "prepare", Served(s)' PROVE Served(s)
    OBVIOUS
  <2>1. ~c.orphan /\ c.from = s => c.kind = "prepare"
    BY DEF IInv, CallSound
  <2> QED
    BY <1>1, <2>1, StepServes
<1>4. \A s \in Slots : pc[s] \in MigPCs => pc[s] # "none"
  BY DEF MigPCs, Requests
<1> QED
  BY <1>2, <1>3, <1>4, SelfKept

(* A handler that is done, and has started and freed nothing.              *)
LEMMA RegistryDone ==
  ASSUME IInv, IInv', Registry, NEW c \in calls, NEW st \in {"ok", "err"}, Step(c, st, NoSlot),
         c.kind # "prepare" \/ st # "ok", UNCHANGED <<host, reg, srcVars>>,
         trouble \subseteq trouble',
         \A x \in Slots : x \in Holders' => x \in Holders,
         \A x \in Slots : proc'[x] = "idle" => proc[x] = "idle",
         \A h \in Hosts : (Dir \in files[h] /\ reg[h] \in Holders) => Dir \in files'[h]
  PROVE  Registry'
<1>1. PICK d \in Call :
        /\ calls' = (calls \ {c}) \cup {d}
        /\ d.st = st /\ d.slot = NoSlot
        /\ d.from = c.from /\ d.kind = c.kind /\ d.to = c.to /\ d.att = c.att
        /\ d.orphan = c.orphan
  BY StepReplaces, CallsTyped DEF CallStates
<1>2. Unspoilt' => Unspoilt
  BY DEF Unspoilt, Excuses, srcVars
<1>3. \A e \in calls' : (Teardown(e) \/ (e.kind = "finalize" /\ e.st \in {"sent", "checked"}))
            => \E f \in calls : Like(e, f)
  BY <1>1 DEF Teardown, Like
<1>4. Known => Known'
  BY <1>3, KnownKept
<1>5. \A s \in Slots : SelfMove(s) => SelfMove(s)'
  BY SelfHandler DEF CallStates
<1> QED
  BY <1>2, <1>4, <1>5 DEF Registry

(* handlePrepare: the process is not known to anybody yet, ...             *)
LEMMA RegistryPrepareSpawn ==
  ASSUME IInv, IInv', Registry, NEW c \in calls, PrepareSpawn(c)
  PROVE  Registry'
<1>1. /\ NewSlot \in Slots /\ proc[NewSlot] \in {"none", "killed"} /\ pc[NewSlot] = "none"
      /\ \A h \in Hosts : reg[h] # NewSlot
      /\ \A e \in calls : e.slot # NewSlot
  BY NewSlotIsUnused DEF PrepareSpawn
<1>2. /\ c.kind = "prepare" /\ c.to \in Hosts
      /\ proc' = [proc EXCEPT ![NewSlot] = "idle"]
      /\ host' = [host EXCEPT ![NewSlot] = c.to]
      /\ files' = [files EXCEPT ![c.to] = @ \cup {Dir}]
      /\ trouble \subseteq trouble' /\ UNCHANGED <<reg, srcVars>>
      /\ Step(c, "spawned", NewSlot) \/ Step(c, "err", NoSlot)
  BY DEF PrepareSpawn, IInv, TypeOK, Call
<1>3. PICK st \in {"spawned", "err"}, n \in Slots \cup {NoSlot} : Step(c, st, n)
  BY <1>1, <1>2
<1>4. PICK d \in Call :
        /\ calls' = (calls \ {c}) \cup {d}
        /\ d.st = st /\ d.slot = n
        /\ d.from = c.from /\ d.kind = c.kind /\ d.to = c.to /\ d.att = c.att
        /\ d.orphan = c.orphan
  <2>1. st \in CallStates
    BY DEF CallStates
  <2> QED
    BY <1>3, <2>1, StepReplaces, CallsTyped
<1>5. /\ \A x \in Slots : x # NewSlot => proc'[x] = proc[x] /\ host'[x] = host[x]
      /\ proc'[NewSlot] = "idle"
      /\ \A h \in Hosts : Dir \in files[h] => Dir \in files'[h]
  BY <1>1, <1>2 DEF IInv, TypeOK
<1>6. \A x \in Slots : x \in Holders' => x \in Holders /\ host'[x] = host[x]
  BY <1>5 DEF Holders
<1>7. Unspoilt' => Unspoilt
  BY <1>2 DEF Unspoilt, Excuses, srcVars
<1>8. \A e \in calls' : (Teardown(e) \/ (e.kind = "finalize" /\ e.st \in {"sent", "checked"}))
            => \E f \in calls : Like(e, f)
  BY <1>2, <1>4 DEF Teardown, Like
<1>9. Known => Known'
  BY <1>1, <1>2, <1>5, <1>6, <1>8, KnownKept
<1>10. \A s \in Slots : SelfMove(s) => SelfMove(s)'
  <2>1. \A s \in Slots : pc[s] # "none" =>
          host'[s] = host[s] /\ (s \in Holders' => s \in Holders)
    BY <1>1, <1>5, <1>6
  <2>2. st \in CallStates /\ st # "ok"
    BY DEF CallStates
  <2> QED
    BY <1>2, <1>3, <2>1, <2>2, SelfHandler
<1> QED
  BY <1>7, <1>9, <1>10 DEF Registry

(* No finalize is on its way to where a prepare meets an abort.            *)
LEMMA PrepareMeetsNoLoad ==
  ASSUME IInv, Attempts, Crossing, Unspoilt,
         NEW e \in calls, e.kind = "prepare", e.st = "spawned",
         NEW c \in calls, Teardown(c), c.to = e.to,
         NEW d \in calls, d.kind = "finalize", d.st = "sent", d.to = e.to
  PROVE  FALSE
<1>1. ~c.orphan
  BY DEF Attempts, AttSound, Unspoilt, Excuses, Teardown
<1>2. c.from \in Slots /\ pc[c.from] = "abort" /\ target[c.from] = e.to
  BY <1>1 DEF IInv, CallSound, TypeOK, Call, Teardown
<1>3. "create" \notin trouble /\ (Excuses({"finalize"}) => attempts <= 2)
  BY DEF Unspoilt, Excuses
<1>4. CASE ~Excuses({"finalize"})
  <2>1. ~d.orphan
    BY <1>3, <1>4 DEF IInv, OneClaim, Excuses
  <2>2. d.from \in Slots /\ pc[d.from] = "finalize" /\ target[d.from] = e.to
    BY <2>1 DEF IInv, CallSound, TypeOK, Call
  <2>3. ~HandedOver(d.from) /\ ~Tried(d.from)
    BY <2>1, <2>2 DEF HandedOver, Tried, Pending, IInv, CallsApart
  <2> QED
    BY <1>2, <1>3, <1>4, <2>2, <2>3, TwoMovers
<1>5. CASE Excuses({"finalize"})
  <2>1. ~e.orphan
    BY <1>5 DEF Attempts, AttSound, Unspoilt, Excuses
  <2>2. e.from \in Slots /\ pc[e.from] = "prepare" /\ target[e.from] = e.to
    BY <2>1 DEF IInv, CallSound, TypeOK, Call
  <2>3. ~HandedOver(e.from)
    BY <2>2, HandoverAtFinalize
  <2>4. att[e.from] = 2 /\ Left(c.from, e.from)
    BY <1>2, <1>3, <2>2, <2>3, TwoMovers DEF PreFinalize
  <2>5. d.att # 1
    BY <2>4 DEF Left
  <2>6. d.att = 2
    <3>1. attempts \in Nat /\ d.att \in 0 .. attempts
      BY DEF IInv, TypeOK, Call
    <3>2. d.att >= 1
      BY DEF Attempts, AttSound
    <3> QED
      BY <1>3, <1>5, <2>5, <3>1, <3>2
  <2> QED
    BY <2>2, <2>4, <2>6 DEF Attempts, AttSound, PreFinalize, MigPCs, Requests
<1> QED
  BY <1>4, <1>5

(* ... then takes the slot and kills whoever was in it.                    *)
LEMMA RegistryPrepareFile ==
  ASSUME IInv, IInv', Attempts, Crossing, Registry, NEW c \in calls, PrepareFile(c)
  PROVE  Registry'
<1>t. /\ proc \in [Slots -> Procs] /\ host \in [Slots -> Hosts] /\ pc \in [Slots -> PCs]
      /\ reg \in [Hosts -> Slots \cup {NoSlot}] /\ calls \subseteq Call
      /\ files \in [Hosts -> SUBSET (Kinds \X (0 .. attempts))]
  BY DEF IInv, TypeOK
<1>0. /\ c.kind = "prepare" /\ c.st = "spawned" /\ c.to \in Hosts /\ c.slot \in Slots
      /\ proc[c.slot] = "idle" /\ reg[c.to] # c.slot /\ host[c.slot] = c.to
      /\ UNCHANGED <<host, srcVars, trouble>>
  BY <1>t DEF PrepareFile, IInv, CallSound, Call
<1>1. CASE /\ Dir \in files[c.to]
           /\ files' = [files EXCEPT ![c.to] = Prepared(@, c.att)]
           /\ reg' = [reg EXCEPT ![c.to] = c.slot]
           /\ proc' = IF reg[c.to] = NoSlot THEN proc
                      ELSE [proc EXCEPT ![reg[c.to]] = Killed(@)]
           /\ Step(c, "ok", NoSlot)
  <2>1. PICK d \in Call :
          /\ calls' = (calls \ {c}) \cup {d}
          /\ d.st = "ok" /\ d.slot = NoSlot
          /\ d.from = c.from /\ d.kind = c.kind /\ d.to = c.to /\ d.att = c.att
          /\ d.orphan = c.orphan
    <3>1. NoSlot \in Slots \cup {NoSlot} /\ Step(c, "ok", NoSlot)
      BY <1>1
    <3> QED
      BY <1>t, <3>1, StepReplaces DEF CallStates
  <2>2. /\ proc'[c.slot] = "idle"
        /\ \A x \in Slots : proc'[x] = proc[x] \/ (x = reg[c.to] /\ proc'[x] \in {"none", "killed"})
        /\ \A x \in Slots : x = reg[c.to] => proc'[x] \in {"none", "killed"}
    BY <1>t, <1>0, <1>1, SlotsAssumption DEF Killed
  <2>3. Unspoilt' => Unspoilt
    BY <1>0 DEF Unspoilt, Excuses, srcVars
  <2> SUFFICES ASSUME Unspoilt, Known, \A s \in Slots : SelfMove(s)
               PROVE  Known' /\ \A s \in Slots : SelfMove(s)'
    BY <2>3 DEF Registry
  <2>4. \A s \in Slots : s \in Holders' => s \in Holders /\ s # reg[c.to]
    BY <2>2 DEF Holders
  <2>5. \A s \in Slots : s \in Holders' => host[s] # c.to
    BY <2>4 DEF Known
  <2>6. \A s \in Holders' : reg'[host'[s]] = s /\ Dir \in files'[host'[s]]
    BY <1>t, <1>0, <1>1, <2>4, <2>5 DEF Known, Holders
  <2>7. \A e \in calls' : Loads(e)' => e \in calls /\ Loads(e) /\ e.slot # reg[c.to] /\ e.to # c.to
    <3> SUFFICES ASSUME NEW e \in calls', Loads(e)'
                 PROVE  e \in calls /\ Loads(e) /\ e.slot # reg[c.to] /\ e.to # c.to
      OBVIOUS
    <3>1. e \in calls /\ e.slot \in Slots
      BY <1>0, <2>1 DEF Loads, IInv, CallSound
    <3>2. Loads(e) /\ e.slot # reg[c.to]
      BY <3>1, <2>2 DEF Loads
    <3> QED
      BY <3>1, <3>2 DEF Known
  <2>8. \A e \in calls' : Loads(e)' => reg'[e.to] = e.slot
    BY <1>t, <1>1, <2>7 DEF Known, Call
  <2>9. \A a \in calls' : Teardown(a)' => TeardownSound(a)'
    <3> SUFFICES ASSUME NEW a \in calls', Teardown(a) PROVE TeardownSound(a)'
      BY DEF Teardown
    <3>1. a \in calls /\ a.to \in Hosts /\ TeardownSound(a)
      BY <1>t, <2>1 DEF Teardown, Known, Call
    <3>2. CASE a.to = c.to
      <4>1. reg'[a.to] = c.slot /\ c.slot \notin Holders'
        BY <1>t, <1>0, <1>1, <2>2, <3>2 DEF Holders
      <4>2. \A e \in calls' : e.to = a.to => ~Loads(e)'
        BY <2>7, <3>2
      <4>3. \A e \in calls' : e.to = a.to => ~WillLoad(e)'
        <5> SUFFICES ASSUME NEW e \in calls', e.to = a.to, WillLoad(e)' PROVE FALSE
          OBVIOUS
        <5>1. e \in calls /\ e.kind = "finalize" /\ e.st = "sent"
          BY <1>0, <2>1 DEF WillLoad
        <5> QED
          BY <1>0, <3>1, <3>2, <5>1, PrepareMeetsNoLoad
      <4> QED
        BY <4>1, <4>2, <4>3 DEF TeardownSound
    <3>3. CASE a.to # c.to
      <4>1. reg'[a.to] = reg[a.to]
        BY <1>t, <1>0, <1>1, <3>1, <3>3
      <4>2. \A e \in calls' : (e.to = a.to /\ WillLoad(e)') => e \in calls /\ WillLoad(e)
        <5> SUFFICES ASSUME NEW e \in calls', e.to = a.to, WillLoad(e)' PROVE e \in calls /\ WillLoad(e)
          OBVIOUS
        <5>1. e \in calls
          BY <1>0, <2>1 DEF WillLoad
        <5>2. reg[e.to] \in Slots /\ proc'[reg[e.to]] = "idle"
          BY <1>t, <3>1, <4>1 DEF WillLoad
        <5> QED
          BY <2>2, <4>1, <5>1, <5>2 DEF WillLoad
      <4>3. reg'[a.to] \in Holders' => reg[a.to] \in Holders
        BY <2>4, <4>1 DEF Holders
      <4> QED
        BY <2>7, <3>1, <4>1, <4>2, <4>3 DEF TeardownSound
    <3> QED
      BY <3>2, <3>3
  <2>10. \A s \in Slots : SelfMove(s)'
    <3> SUFFICES ASSUME NEW s \in Slots PROVE SelfMove(s)'
      OBVIOUS
    <3>0. SelfMove(s) /\ UNCHANGED <<pc, target, host>>
      BY <1>0 DEF srcVars
    <3>1. CASE ~c.orphan /\ c.from = s /\ target[s] = host[s]
      <4>1. c.to = host[s] /\ pc[s] = "prepare"
        BY <1>0, <3>1 DEF IInv, CallSound
      <4>2. s \notin Holders'
        BY <2>5, <4>1
      <4> QED
        BY <3>0, <4>1, <4>2 DEF SelfMove
    <3>2. CASE ~(~c.orphan /\ c.from = s)
      <4>1. Served(s)' => Served(s)
        BY <2>1, <3>2, StepServes
      <4> QED
        BY <3>0, <4>1, <2>4, SelfKept
    <3>3. CASE target[s] # host[s]
      BY <3>0, <3>3 DEF SelfMove
    <3> QED
      BY <3>1, <3>2, <3>3
  <2> QED
    BY <2>6, <2>8, <2>9, <2>10 DEF Known
<1>2. CASE proc' = [proc EXCEPT ![c.slot] = Killed(@)] /\ Step(c, "err", NoSlot)
           /\ UNCHANGED <<reg, files>>
  <2>1. /\ \A x \in Slots : x \in Holders' => x \in Holders
        /\ \A x \in Slots : proc'[x] = "idle" => proc[x] = "idle"
    BY <1>t, <1>0, <1>2 DEF Holders, Killed
  <2> QED
    BY <1>0, <1>2, <2>1, RegistryDone
<1> QED
  BY <1>1, <1>2 DEF PrepareFile
(* A slot that is freed leads to nothing that is loaded or holds the guest.*)
LEMMA KnownFreed ==
  ASSUME IInv, IInv', Known, NEW h \in Hosts, reg' = [reg EXCEPT ![h] = NoSlot],
         UNCHANGED <<host, files>>,
         \A s \in Slots : s \in Holders' => s \in Holders /\ host[s] # h,
         \A s \in Slots : proc'[s] = "idle" => proc[s] = "idle",
         \A e \in calls' : Loads(e)' => e \in calls /\ e.to # h,
         \A e \in calls' : e \in calls \/ e.to = h
  PROVE  Known'
<1>t. /\ reg \in [Hosts -> Slots \cup {NoSlot}] /\ host \in [Slots -> Hosts]
      /\ calls \subseteq Call /\ calls' \subseteq Call
  BY DEF IInv, TypeOK
<1>1. reg'[h] = NoSlot /\ \A x \in Hosts : x # h => reg'[x] = reg[x]
  BY <1>t
<1>2. \A s \in Holders' : reg'[host'[s]] = s /\ Dir \in files'[host'[s]]
  BY <1>t, <1>1 DEF Known, Holders
<1>3. \A e \in calls' : Loads(e)' => Loads(e)
  <2> SUFFICES ASSUME NEW e \in calls', Loads(e)' PROVE Loads(e)
    OBVIOUS
  <2>1. e.slot \in Slots
    BY DEF Loads, IInv, CallSound
  <2> QED
    BY <2>1 DEF Loads
<1>4. \A e \in calls' : WillLoad(e)' => e \in calls /\ e.to # h /\ WillLoad(e)
  <2> SUFFICES ASSUME NEW e \in calls', WillLoad(e)' PROVE e \in calls /\ e.to # h /\ WillLoad(e)
    OBVIOUS
  <2>1. e.to \in Hosts /\ e.to # h
    BY <1>t, <1>1 DEF WillLoad, Call
  <2>2. reg[e.to] \in Slots /\ reg'[e.to] = reg[e.to]
    BY <1>t, <1>1, <2>1 DEF WillLoad
  <2> QED
    BY <2>1, <2>2 DEF WillLoad
<1>5. \A e \in calls' : Loads(e)' => reg'[e.to] = e.slot
  BY <1>t, <1>1, <1>3 DEF Known, Call
<1>6. \A a \in calls' : Teardown(a) => TeardownSound(a)'
  <2> SUFFICES ASSUME NEW a \in calls', Teardown(a) PROVE TeardownSound(a)'
    OBVIOUS
  <2>1. CASE a.to = h
    <3>1. reg'[a.to] \notin Holders'
      BY <1>1, <2>1, SlotsAssumption DEF Holders
    <3> QED
      BY <1>4, <2>1, <3>1 DEF TeardownSound
  <2>2. CASE a.to # h
    <3>1. a \in calls /\ TeardownSound(a) /\ reg'[a.to] = reg[a.to]
      BY <1>t, <1>1, <2>2 DEF Known, Call
    <3>2. reg'[a.to] \in Holders' => reg[a.to] \in Holders
      BY <3>1 DEF Holders
    <3> QED
      BY <1>3, <1>4, <3>1, <3>2 DEF TeardownSound
  <2> QED
    BY <2>1, <2>2
<1> QED
  BY <1>2, <1>5, <1>6 DEF Known, Teardown

(* handleFinalize: the check, ...                                          *)
LEMMA RegistryFinalizeCheck ==
  ASSUME IInv, IInv', Registry, NEW c \in calls, FinalizeCheck(c)
  PROVE  Registry'
<1>0. /\ c.kind = "finalize" /\ c.st = "sent" /\ c.to \in Hosts
      /\ UNCHANGED <<proc, host, reg, srcVars, files, trouble>>
      /\ reg[c.to] \in Slots \cup {NoSlot}
  BY DEF FinalizeCheck, slotVars, IInv, TypeOK, Call
<1>h. Holders' = Holders /\ (Unspoilt' => Unspoilt)
  BY <1>0 DEF Holders, Unspoilt, Excuses, srcVars
<1>1. CASE Receiving(c.to) /\ Step(c, "checked", reg[c.to])
  <2>1. PICK d \in Call :
          /\ calls' = (calls \ {c}) \cup {d}
          /\ d.st = "checked" /\ d.slot = reg[c.to]
          /\ d.from = c.from /\ d.kind = c.kind /\ d.to = c.to /\ d.att = c.att
          /\ d.orphan = c.orphan
    BY <1>0, <1>1, StepReplaces, CallsTyped DEF CallStates
  <2>2. \A s \in Slots : SelfMove(s) => SelfMove(s)'
    BY <1>0, <1>1, <1>h, SelfHandler DEF CallStates
  <2>3. Loads(d)' => WillLoad(c)
    BY <1>0, <1>1, <2>1 DEF Loads, WillLoad, Receiving
  <2>4. \A e \in calls : Loads(e)' <=> Loads(e)
    BY <1>0 DEF Loads
  <2>5. \A e \in calls : WillLoad(e)' <=> WillLoad(e)
    BY <1>0 DEF WillLoad
  <2>6. ~WillLoad(d)'
    BY <2>1 DEF WillLoad
  <2>7. ASSUME Known PROVE Known'
    <3>1. \A s \in Holders' : reg'[host'[s]] = s /\ Dir \in files'[host'[s]]
      BY <1>0, <1>h, <2>7 DEF Known
    <3>2. \A e \in calls' : Loads(e)' => reg'[e.to] = e.slot
      BY <1>0, <2>1, <2>4, <2>7 DEF Known
    <3>3. \A a \in calls' : Teardown(a) => TeardownSound(a)'
      <4> SUFFICES ASSUME NEW a \in calls', Teardown(a) PROVE TeardownSound(a)'
        OBVIOUS
      <4>1. a \in calls /\ TeardownSound(a)
        BY <1>0, <2>1, <2>7 DEF Known, Teardown
      <4> QED
        BY <1>0, <1>h, <2>1, <2>3, <2>4, <2>5, <2>6, <4>1 DEF TeardownSound
    <3> QED
      BY <3>1, <3>2, <3>3 DEF Known, Teardown
  <2> QED
    BY <1>h, <2>2, <2>7 DEF Registry
<1>2. CASE Step(c, "err", NoSlot)
  <2>1. \A x \in Slots : proc'[x] = "idle" => proc[x] = "idle"
    BY <1>0
  <2> QED
    BY <1>0, <1>h, <1>2, <2>1, RegistryDone
<1> QED
  BY <1>1, <1>2 DEF FinalizeCheck

(* ... and the load.                                                       *)
LEMMA RegistryFinalizeLoad ==
  ASSUME IInv, IInv', FilesInDir, Registry, NEW c \in calls, FinalizeLoad(c)
  PROVE  Registry'
<1>0. /\ c.kind = "finalize" /\ c.st = "checked" /\ c.to \in Hosts
      /\ c.slot \in Slots /\ host[c.slot] = c.to
      /\ UNCHANGED <<host, reg, srcVars, files>> /\ trouble \subseteq trouble'
      /\ proc \in [Slots -> Procs]
  BY DEF FinalizeLoad, IInv, TypeOK, Call, CallSound
<1>h. Unspoilt' => Unspoilt
  BY <1>0 DEF Unspoilt, Excuses, srcVars
<1>1. CASE /\ proc[c.slot] = "idle" /\ Loadable(c.to)
           /\ proc' = [proc EXCEPT ![c.slot] = "running"]
           /\ Step(c, "loaded", c.slot) \/ Step(c, "err", NoSlot)
  <2>0. PICK st \in {"loaded", "err"}, n \in Slots \cup {NoSlot} : Step(c, st, n)
    BY <1>0, <1>1
  <2>s. st \in CallStates
    BY DEF CallStates
  <2>1. PICK d \in Call :
          /\ calls' = (calls \ {c}) \cup {d}
          /\ d.st = st
          /\ d.from = c.from /\ d.kind = c.kind /\ d.to = c.to /\ d.att = c.att
          /\ d.orphan = c.orphan
    BY <2>0, <2>s, StepReplaces, CallsTyped
  <2>2. /\ proc'[c.slot] = "running" /\ \A s \in Slots : s # c.slot => proc'[s] = proc[s]
        /\ pc[c.slot] = "none"
    BY <1>0, <1>1 DEF IInv, SlotSound
  <2>3. Holders' = Holders \cup {c.slot}
    BY <1>0, <2>2 DEF Holders
  <2>4. \A s \in Slots : SelfMove(s) => SelfMove(s)'
    <3>1. \A s \in Slots : pc[s] # "none" =>
            host'[s] = host[s] /\ (s \in Holders' => s \in Holders)
      BY <1>0, <2>2, <2>3
    <3> QED
      BY <1>0, <2>0, <2>s, <3>1, SelfHandler
  <2>5. Loads(c) /\ Dir \in files[c.to]
    BY <1>0, <1>1 DEF Loads, Loadable, FilesInDir
  <2>6. \A e \in calls' : Loads(e)' => e \in calls /\ Loads(e)
    <3> SUFFICES ASSUME NEW e \in calls', Loads(e)' PROVE e \in calls /\ Loads(e)
      OBVIOUS
    <3>1. e \in calls /\ e.slot \in Slots
      BY <2>1 DEF Loads, IInv, CallSound
    <3> QED
      BY <2>2, <3>1 DEF Loads
  <2>7. \A e \in calls' : WillLoad(e)' => e \in calls /\ WillLoad(e)
    <3> SUFFICES ASSUME NEW e \in calls', WillLoad(e)' PROVE e \in calls /\ WillLoad(e)
      OBVIOUS
    <3>1. e \in calls
      BY <2>1 DEF WillLoad
    <3>2. reg[e.to] \in Slots
      BY <1>0, <3>1 DEF WillLoad, IInv, TypeOK, Call
    <3> QED
      BY <1>0, <2>2, <3>1, <3>2 DEF WillLoad
  <2>8. ASSUME Known PROVE Known'
    <3>0. reg[c.to] = c.slot
      BY <2>5, <2>8 DEF Known
    <3>1. \A s \in Holders' : reg'[host'[s]] = s /\ Dir \in files'[host'[s]]
      BY <1>0, <2>3, <2>5, <2>8, <3>0 DEF Known
    <3>2. \A e \in calls' : Loads(e)' => reg'[e.to] = e.slot
      BY <1>0, <2>6, <2>8 DEF Known
    <3>3. \A a \in calls' : Teardown(a) => TeardownSound(a)'
      <4> SUFFICES ASSUME NEW a \in calls', Teardown(a) PROVE TeardownSound(a)'
        OBVIOUS
      <4>1. a \in calls /\ TeardownSound(a) /\ a.to \in Hosts
        BY <1>0, <2>1, <2>8 DEF Known, Teardown, IInv, TypeOK, Call
      <4>2. reg[a.to] = c.slot => a.to = c.to
        BY <1>0, <4>1, SlotsAssumption DEF IInv, RegSound
      <4>3. reg'[a.to] \in Holders' => reg'[a.to] = a.slot
        BY <1>0, <2>3, <2>5, <4>1, <4>2 DEF TeardownSound
      <4> QED
        BY <1>0, <2>6, <2>7, <4>1, <4>3 DEF TeardownSound
    <3> QED
      BY <3>1, <3>2, <3>3 DEF Known, Teardown
  <2> QED
    BY <1>h, <2>4, <2>8 DEF Registry
<1>2. CASE Step(c, "err", NoSlot) /\ UNCHANGED proc
  <2>1. /\ \A x \in Slots : proc'[x] = "idle" => proc[x] = "idle"
        /\ \A x \in Slots : x \in Holders' => x \in Holders
    BY <1>2 DEF Holders
  <2> QED
    BY <1>0, <1>2, <2>1, RegistryDone
<1> QED
  BY <1>1, <1>2 DEF FinalizeLoad

(* handleAbort: the check, ...                                             *)
LEMMA RegistryAbortCheck ==
  ASSUME IInv, IInv', Registry, NEW c \in calls, AbortCheck(c)
  PROVE  Registry'
<1>0. /\ c.kind = "abort" /\ c.st = "sent" /\ c.to \in Hosts
      /\ UNCHANGED <<proc, host, reg, srcVars, files, trouble>>
      /\ reg[c.to] \in Slots \cup {NoSlot}
  BY DEF AbortCheck, slotVars, IInv, TypeOK, Call
<1>h. Holders' = Holders /\ (Unspoilt' => Unspoilt)
  BY <1>0 DEF Holders, Unspoilt, Excuses, srcVars
<1>1. CASE Step(c, "checked", reg[c.to])
  <2>1. PICK d \in Call :
          /\ calls' = (calls \ {c}) \cup {d}
          /\ d.st = "checked" /\ d.slot = reg[c.to]
          /\ d.from = c.from /\ d.kind = c.kind /\ d.to = c.to /\ d.att = c.att
          /\ d.orphan = c.orphan
    BY <1>0, <1>1, StepReplaces, CallsTyped DEF CallStates
  <2>2. \A s \in Slots : SelfMove(s) => SelfMove(s)'
    BY <1>0, <1>1, <1>h, SelfHandler DEF CallStates
  <2>3. \A e \in calls' : (Loads(e)' \/ WillLoad(e)') => e \in calls
    BY <1>0, <2>1 DEF Loads, WillLoad
  <2>4. \A e \in calls : (Loads(e)' <=> Loads(e)) /\ (WillLoad(e)' <=> WillLoad(e))
    BY <1>0 DEF Loads, WillLoad
  <2>5. ASSUME Known PROVE Known'
    <3>1. \A s \in Holders' : reg'[host'[s]] = s /\ Dir \in files'[host'[s]]
      BY <1>0, <1>h, <2>5 DEF Known
    <3>2. \A e \in calls' : Loads(e)' => reg'[e.to] = e.slot
      BY <1>0, <2>3, <2>4, <2>5 DEF Known
    <3>3. TeardownSound(d)'
      BY <1>0, <2>1, <3>2 DEF TeardownSound
    <3>4. \A a \in calls : Teardown(a) => TeardownSound(a)'
      BY <1>0, <1>h, <2>3, <2>4, <2>5 DEF Known, TeardownSound
    <3> QED
      BY <2>1, <3>1, <3>2, <3>3, <3>4 DEF Known, Teardown
  <2> QED
    BY <1>h, <2>2, <2>5 DEF Registry
<1>2. CASE Step(c, "ok", NoSlot) \/ Step(c, "err", NoSlot)
  <2>1. \A x \in Slots : proc'[x] = "idle" => proc[x] = "idle"
    BY <1>0
  <2> QED
    BY <1>0, <1>h, <1>2, <2>1, RegistryDone
<1> QED
  BY <1>1, <1>2 DEF AbortCheck

(* ... the process, ...                                                    *)
LEMMA RegistryAbortKill ==
  ASSUME IInv, IInv', Registry, NEW c \in calls, AbortKill(c)
  PROVE  Registry'
<1>0. /\ c.kind = "abort" /\ c.st = "checked" /\ c.to \in Hosts /\ c.slot \in Slots
      /\ proc' = [proc EXCEPT ![c.slot] = Killed(@)]
      /\ Step(c, "killed", c.slot) /\ c.slot \in Slots \cup {NoSlot}
      /\ "killed" \in CallStates
      /\ UNCHANGED <<host, reg, srcVars, files, trouble>>
      /\ proc \in [Slots -> Procs]
  BY DEF AbortKill, IInv, TypeOK, Call, CallSound, CallStates
<1>h. Unspoilt' => Unspoilt
  BY <1>0 DEF Unspoilt, Excuses, srcVars
<1>1. PICK d \in Call :
        /\ calls' = (calls \ {c}) \cup {d}
        /\ d.st = "killed" /\ d.slot = c.slot
        /\ d.from = c.from /\ d.kind = c.kind /\ d.to = c.to /\ d.att = c.att
        /\ d.orphan = c.orphan
  BY <1>0, StepReplaces, CallsTyped
<1>2. /\ \A s \in Slots : s \in Holders' => s \in Holders
      /\ \A s \in Slots : proc'[s] = "idle" => proc[s] = "idle"
  BY <1>0 DEF Holders, Killed
<1>3. \A s \in Slots : SelfMove(s) => SelfMove(s)'
  BY <1>0, <1>2, SelfHandler
<1>4. ASSUME Known PROVE Known'
  <2>1. TeardownSound(c)
    BY <1>0, <1>4 DEF Known, Teardown
  <2>2. \A e \in calls' : Loads(e)' => e \in calls /\ Loads(e)
    <3> SUFFICES ASSUME NEW e \in calls', Loads(e)' PROVE e \in calls /\ Loads(e)
      OBVIOUS
    <3>1. e \in calls /\ e.slot \in Slots
      BY <1>0, <1>1 DEF Loads, IInv, CallSound
    <3> QED
      BY <1>2, <3>1 DEF Loads
  <2>3. \A e \in calls' : WillLoad(e)' => e \in calls /\ WillLoad(e)
    <3> SUFFICES ASSUME NEW e \in calls', WillLoad(e)' PROVE e \in calls /\ WillLoad(e)
      OBVIOUS
    <3>1. e \in calls
      BY <1>0, <1>1 DEF WillLoad
    <3>2. reg[e.to] \in Slots
      BY <1>0, <3>1 DEF WillLoad, IInv, TypeOK, Call
    <3> QED
      BY <1>0, <1>2, <3>1, <3>2 DEF WillLoad
  <2>4. \A a \in calls' : Teardown(a) => \E b \in calls : Teardown(b) /\ a.to = b.to /\ a.slot = b.slot
    BY <1>0, <1>1 DEF Teardown
  <2>5. \A a \in calls' : Teardown(a) => TeardownSound(a)'
    <3> SUFFICES ASSUME NEW a \in calls', Teardown(a) PROVE TeardownSound(a)'
      OBVIOUS
    <3>1. PICK b \in calls : Teardown(b) /\ a.to = b.to /\ a.slot = b.slot
      BY <2>4
    <3>2. TeardownSound(b)
      BY <1>4, <3>1 DEF Known
    <3>3. reg'[a.to] \in Holders' => reg'[a.to] = a.slot
      BY <1>0, <1>2, <3>1, <3>2 DEF TeardownSound, Holders
    <3> QED
      BY <1>0, <2>2, <2>3, <3>1, <3>2, <3>3 DEF TeardownSound
  <2>6. \A s \in Holders' : reg'[host'[s]] = s /\ Dir \in files'[host'[s]]
    BY <1>0, <1>2, <1>4 DEF Known, Holders
  <2>7. \A e \in calls' : Loads(e)' => reg'[e.to] = e.slot
    BY <1>0, <1>4, <2>2 DEF Known
  <2> QED
    BY <2>5, <2>6, <2>7 DEF Known, Teardown
<1> QED
  BY <1>h, <1>3, <1>4 DEF Registry

(* ... its slot, in which nobody else can be by now, ...                   *)
LEMMA RegistryAbortFree ==
  ASSUME IInv, IInv', Registry, NEW c \in calls, AbortFree(c)
  PROVE  Registry'
<1>0. /\ c.kind = "abort" /\ c.st = "killed" /\ c.to \in Hosts
      /\ c.slot \in Slots /\ proc[c.slot] = "killed"
      /\ reg' = [reg EXCEPT ![c.to] = NoSlot]
      /\ Step(c, "freed", NoSlot) /\ NoSlot \in Slots \cup {NoSlot}
      /\ "freed" \in CallStates
      /\ UNCHANGED <<proc, host, srcVars, files, trouble>>
  BY DEF AbortFree, IInv, TypeOK, Call, CallSound, CallStates, slotVars
<1>h. Holders' = Holders /\ (Unspoilt' => Unspoilt)
  BY <1>0 DEF Holders, Unspoilt, Excuses, srcVars
<1>1. PICK d \in Call :
        /\ calls' = (calls \ {c}) \cup {d}
        /\ d.st = "freed" /\ d.slot = NoSlot
        /\ d.from = c.from /\ d.kind = c.kind /\ d.to = c.to /\ d.att = c.att
        /\ d.orphan = c.orphan
  BY <1>0, StepReplaces, CallsTyped
<1>3. \A s \in Slots : SelfMove(s) => SelfMove(s)'
  BY <1>0, <1>h, SelfHandler
<1>4. ASSUME Known PROVE Known'
  <2>1. TeardownSound(c)
    BY <1>0, <1>4 DEF Known, Teardown
  <2>2. \A s \in Slots : s \in Holders' => s \in Holders /\ host[s] # c.to
    <3> SUFFICES ASSUME NEW s \in Holders, host[s] = c.to PROVE FALSE
      BY <1>h
    <3>1. reg[c.to] = s
      BY <1>4 DEF Known
    <3>2. s = c.slot
      BY <2>1, <3>1 DEF TeardownSound
    <3> QED
      BY <1>0, <3>2 DEF Holders
  <2>3. \A e \in calls' : Loads(e)' => e \in calls /\ e.to # c.to
    <3> SUFFICES ASSUME NEW e \in calls', Loads(e)' PROVE e \in calls /\ e.to # c.to
      OBVIOUS
    <3>1. e \in calls /\ Loads(e)
      BY <1>0, <1>1 DEF Loads
    <3>2. e.slot # c.slot
      BY <1>0, <3>1 DEF Loads
    <3> QED
      BY <2>1, <3>1, <3>2 DEF TeardownSound
  <2>4. \A e \in calls' : e \in calls \/ e.to = c.to
    BY <1>1
  <2>5. \A s \in Slots : proc'[s] = "idle" => proc[s] = "idle"
    BY <1>0
  <2> QED
    BY <1>0, <1>4, <2>2, <2>3, <2>4, <2>5, KnownFreed
<1> QED
  BY <1>h, <1>3, <1>4 DEF Registry

(* ... and the directory.                                                  *)
LEMMA RegistryAbortRemove ==
  ASSUME IInv, IInv', Attempts, Registry, NEW c \in calls, AbortRemove(c)
  PROVE  Registry'
<1>0. /\ c.kind = "abort" /\ c.st = "freed" /\ c.slot = NoSlot /\ c.to \in Hosts
      /\ Step(c, "ok", NoSlot) /\ UNCHANGED <<proc, host, reg, srcVars, trouble>>
      /\ \A h \in Hosts : h # c.to => files'[h] = files[h]
  BY DEF AbortRemove, Attempts, AttSound, slotVars, IInv, TypeOK, Call
<1>1. Holders' = Holders /\ (Unspoilt' => Unspoilt)
  BY <1>0 DEF Holders, Unspoilt, Excuses, srcVars
<1>2. CASE ~Unspoilt
  BY <1>1, <1>2 DEF Registry
<1>3. CASE Unspoilt
  <2>1. reg[c.to] \notin Holders
    BY <1>0, <1>3, SlotsAssumption DEF Registry, Known, Teardown, TeardownSound, Holders
  <2>2. \A h \in Hosts : (Dir \in files[h] /\ reg[h] \in Holders) => Dir \in files'[h]
    BY <1>0, <2>1
  <2>3. \A x \in Slots : proc'[x] = "idle" => proc[x] = "idle"
    BY <1>0
  <2> QED
    BY <1>0, <1>1, <2>2, <2>3, RegistryDone
<1> QED
  BY <1>2, <1>3

-----------------------------------------------------------------------------
(* The registry: boots, creation and deletion.                             *)

(* A guest that boots is alone and has its slot.                           *)
LEMMA RegistryBootSpawn ==
  ASSUME IInv, IInv', BootAlone, NEW s \in Slots, BootSpawn(s)
  PROVE  Registry'
<1>0. /\ pc[s] = "spawn" /\ proc' = [proc EXCEPT ![s] = "running"]
      /\ files' = [files EXCEPT ![host[s]] = @ \cup {Dir}]
      /\ pc' = [pc EXCEPT ![s] = "boot"]
      /\ UNCHANGED <<host, reg, attempts, calls, trouble>>
  BY DEF BootSpawn
<1> SUFFICES ASSUME Unspoilt PROVE Known' /\ \A x \in Slots : SelfMove(x)'
  BY <1>0 DEF Registry, Unspoilt, Excuses
<1>1. /\ calls = {} /\ reg[host[s]] = s
      /\ \A x \in Slots \ {s} : pc[x] = "none" /\ x \notin Holders
  BY <1>0 DEF Unspoilt, Excuses, BootAlone
<1>2. \A x \in Slots : pc'[x] \in {"none", "boot"}
  BY <1>0, <1>1 DEF IInv, TypeOK
<1>3. \A x \in Slots : x \in Holders' => x = s
  BY <1>0, <1>1 DEF Holders, IInv, TypeOK
<1>4. Dir \in files'[host[s]]
  BY <1>0 DEF IInv, TypeOK
<1>5. Known'
  BY <1>0, <1>1, <1>3, <1>4 DEF Known, Holders
<1> QED
  BY <1>2, <1>5 DEF SelfMove

(* A guest is created when there is none.                                  *)
LEMMA RegistryCreate ==
  ASSUME IInv, IInv', NEW h \in Hosts, Create(h)
  PROVE  Registry'
<1>0. /\ NewSlot \in Slots
      /\ UNCHANGED <<proc, pc>> \/ (/\ proc' = [proc EXCEPT ![NewSlot] = "none"]
                                    /\ pc' = [pc EXCEPT ![NewSlot] = "spawn"])
      /\ calls' = calls /\ proc \in [Slots -> Procs] /\ pc \in [Slots -> PCs]
  BY NewSlotIsUnused DEF Create, slotVars, IInv, TypeOK
<1> SUFFICES ASSUME Unspoilt' PROVE Known' /\ \A x \in Slots : SelfMove(x)'
  BY DEF Registry
<1>1. Holders = {} /\ Quiet
  BY DEF Create, Unspoilt, Excuses
<1>2. \A x \in Slots : pc'[x] \in {"none", "spawn"} /\ x \notin Holders'
  BY <1>0, <1>1 DEF Quiet, Holders
<1>3. Known'
  BY <1>0, <1>1, <1>2 DEF Known, Quiet, Holders
<1> QED
  BY <1>2, <1>3 DEF SelfMove

(* A VM object that is deleted loses its process, ...                      *)
LEMMA RegistryDelete ==
  ASSUME IInv, IInv', Registry, NEW d \in Deletes,
         (\E h \in Hosts : DeleteLook(d, h)) \/ DeleteKill(d) \/ DeleteState(d)
  PROVE  Registry'
<1>1. /\ UNCHANGED <<host, reg, pc, target, attempts, calls, files>>
      /\ \A x \in Slots : proc'[x] \in {proc[x], "none", "killed"}
  BY DEF DeleteLook, DeleteKill, DeleteState, slotVars, Killed, IInv, TypeOK
<1>2. trouble \subseteq trouble'
  BY DEF DeleteLook, DeleteKill, DeleteState
<1>3. /\ \A x \in Slots : x \in Holders' => x \in Holders
      /\ \A x \in Slots : proc'[x] = "idle" => proc[x] = "idle"
  BY <1>1 DEF Holders
<1> QED
  BY <1>1, <1>2, <1>3, RegistryEnds

(* ... and the slot is freed of it, if of anybody.                         *)
LEMMA RegistryDeleteFree ==
  ASSUME IInv, IInv', Registry, NEW d \in Deletes, DeleteFree(d)
  PROVE  Registry'
<1> DEFINE h == del[d].host
<1>0. /\ h \in Hosts /\ reg' = [reg EXCEPT ![h] = NoSlot]
      /\ UNCHANGED <<slotVars, pc, target, attempts, calls, files>>
      /\ trouble \subseteq trouble'
      /\ reg[h] \notin {NoSlot, del[d].slot} => "drop" \in trouble'
  BY DEF DeleteFree, IInv, TypeOK, DelRequest
<1>h. Holders' = Holders /\ (Unspoilt' => Unspoilt)
  BY <1>0 DEF Holders, Unspoilt, Excuses, slotVars
<1> SUFFICES ASSUME Unspoilt', Known, \A s \in Slots : SelfMove(s)
             PROVE  Known' /\ \A s \in Slots : SelfMove(s)'
  BY <1>h DEF Registry
<1>1. \A s \in Slots : SelfMove(s)'
  BY <1>0, <1>h DEF SelfMove, Served, Pending, slotVars
<1>2. reg[h] # NoSlot => reg[h] \in Slots /\ proc[reg[h]] \notin {"idle", "running", "paused"}
  <2> SUFFICES ASSUME reg[h] # NoSlot
               PROVE  reg[h] \in Slots /\ proc[reg[h]] \notin {"idle", "running", "paused"}
    OBVIOUS
  <2>1. reg[h] = del[d].slot /\ reg[h] \in Slots
    BY <1>0 DEF Unspoilt, Excuses, IInv, TypeOK
  <2>2. del[d].st = "dead"
    BY <2>1 DEF DeleteFree
  <2>3. "boot" \notin trouble
    BY <1>0 DEF Unspoilt, Excuses
  <2>4. DelSound(d)
    BY DEF IInv
  <2> QED
    BY <2>1, <2>2, <2>3, <2>4 DEF DelSound
<1>3. \A s \in Slots : s \in Holders' => s \in Holders /\ host[s] # h
  <2> SUFFICES ASSUME NEW s \in Holders, host[s] = h PROVE FALSE
    BY <1>h
  <2>1. reg[h] = s /\ s # NoSlot
    BY SlotsAssumption DEF Known, Holders
  <2> QED
    BY <1>2, <2>1 DEF Holders
<1>4. \A e \in calls' : Loads(e)' => e \in calls /\ e.to # h
  <2> SUFFICES ASSUME NEW e \in calls, Loads(e), e.to = h PROVE FALSE
    BY <1>0 DEF Loads, slotVars
  <2>1. reg[h] = e.slot /\ e.slot \in Slots
    BY DEF Known, Loads, IInv, CallSound
  <2> QED
    BY <1>2, <2>1, SlotsAssumption DEF Loads
<1>5. \A e \in calls' : e \in calls \/ e.to = h
  BY <1>0
<1>6. \A s \in Slots : proc'[s] = "idle" => proc[s] = "idle"
  BY <1>0 DEF slotVars
<1>7. UNCHANGED <<host, files>>
  BY <1>0 DEF slotVars
<1> QED
  BY <1>0, <1>1, <1>3, <1>4, <1>5, <1>6, <1>7, KnownFreed

(* Every step.                                                             *)
LEMMA RegistryStep ==
  ASSUME IInv, IInv', Attempts, FilesInDir, BootAlone, Crossing, Registry, [Next]_vars
  PROVE  Registry'
<1>t. /\ pc \in [Slots -> PCs] /\ proc \in [Slots -> Procs]
  BY DEF IInv, TypeOK
<1>0. trouble \subseteq trouble'
  BY TroubleGrows
<1>1. CASE \E s \in Slots : Source(s)
  <2> PICK s \in Slots : Source(s)
    BY <1>1
  <2>1. CASE Send(s)
    BY <2>1, RegistrySend
  <2>2. CASE ReadReply(s)
    BY <2>2, RegistryReadReply
  <2>3. CASE FailsAtOnce(s)
    BY <2>3, RegistryAbandon DEF FailsAtOnce
  <2>4. CASE Pause(s)
    BY <2>4, RegistryPause
  <2>5. CASE SucceedKill(s) \/ Succeed(s) \/ Resume(s)
    <3>1. /\ UNCHANGED <<host, reg, target, attempts, calls, files>>
          /\ \A x \in Slots : pc'[x] = pc[x] \/ pc'[x] = "none"
          /\ \A x \in Slots : x \in Holders' => x \in Holders
          /\ \A x \in Slots : proc'[x] = "idle" => proc[x] = "idle"
      BY <1>t, <2>5 DEF SucceedKill, Succeed, Resume, Holders, Killed, srcVars
    <3> QED
      BY <1>0, <3>1, RegistryEnds
  <2> QED
    BY <2>1, <2>2, <2>3, <2>4, <2>5 DEF Source
<1>2. CASE \E s \in Slots : Booting(s)
  <2> PICK s \in Slots : Booting(s)
    BY <1>2
  <2>1. CASE Boot(s)
    <3>1. /\ UNCHANGED <<host, reg, target, attempts, calls, files>>
          /\ \A x \in Slots : pc'[x] = pc[x] \/ pc'[x] = "none"
          /\ \A x \in Slots : x \in Holders' => x \in Holders
          /\ \A x \in Slots : proc'[x] = "idle" => proc[x] = "idle"
      BY <1>t, <2>1 DEF Boot, Holders, Killed
    <3> QED
      BY <1>0, <3>1, RegistryEnds
  <2> QED
    BY <2>1, RegistryBootSpawn DEF Booting
<1>3. CASE \E c \in calls : Handle(c)
  <2> PICK c \in calls : Handle(c)
    BY <1>3
  <2>1. CASE Receive(c)
    <3>1. /\ c.kind # "prepare" /\ UNCHANGED <<proc, host, reg, srcVars>>
          /\ Step(c, "ok", NoSlot) \/ Step(c, "err", NoSlot)
          /\ \A h \in Hosts : Dir \in files[h] => Dir \in files'[h]
      <4>1. Dir[1] = "dir"
        BY DEF Dir
      <4>2. CASE UNCHANGED files
        BY <2>1, <4>2 DEF Receive, slotVars
      <4>3. CASE files' = [files EXCEPT ![c.to] =
                   IF c.kind = "vmstate" THEN Replaced(@, c.kind, c.att)
                   ELSE @ \cup {<<c.kind, c.att>>}]
        <5>1. \A h \in Hosts : Dir \in files[h] => Dir \in files'[h]
          BY <4>1, <4>3 DEF Replaced, IInv, TypeOK
        <5> QED
          BY <2>1, <5>1 DEF Receive, slotVars
      <4> QED
        BY <2>1, <4>2, <4>3 DEF Receive
    <3>2. Holders' = Holders
      BY <3>1 DEF Holders
    <3> QED
      BY <1>0, <3>1, <3>2, RegistryDone
  <2>2. CASE FinalizeRun(c)
    <3>1. c.kind # "prepare" /\ UNCHANGED <<proc, host, reg, srcVars, files>> /\ Step(c, "ok", NoSlot)
      BY <2>2 DEF FinalizeRun
    <3>2. Holders' = Holders
      BY <3>1 DEF Holders
    <3> QED
      BY <1>0, <3>1, <3>2, RegistryDone
  <2> QED
    BY <2>1, <2>2, RegistryPrepareSpawn, RegistryPrepareFile, RegistryFinalizeCheck,
       RegistryFinalizeLoad, RegistryAbortCheck, RegistryAbortKill, RegistryAbortFree, RegistryAbortRemove DEF Handle
<1>4. CASE \E c \in calls : Forget(c)
  <2> PICK c \in calls : Forget(c)
    BY <1>4
  <2>1. /\ calls' = calls \ {c} /\ c.orphan
        /\ UNCHANGED <<proc, host, reg, pc, target, attempts, files>>
    BY DEF Forget, slotVars, srcVars
  <2>2. Holders' = Holders /\ (Unspoilt' => Unspoilt)
    BY <1>0, <2>1 DEF Holders, Unspoilt, Excuses
  <2>3. Known => Known'
    BY <2>1, <2>2, KnownKept DEF Like
  <2>4. \A x \in Slots : SelfMove(x) => SelfMove(x)'
    BY <2>1, <2>2 DEF SelfMove, Served, Pending
  <2> QED
    BY <2>2, <2>3, <2>4 DEF Registry
<1>5. CASE \E s \in Slots : TimeOut(s)
  <2> PICK s \in Slots : TimeOut(s)
    BY <1>5
  <2>1. pc[s] \in Requests
    BY DEF TimeOut, Pending, IInv, CallSound, TypeOK, Call
  <2> QED
    BY <2>1, RegistryAbandon DEF TimeOut
<1>6. CASE \E s \in Slots, t \in Hosts : Migrate(s, t)
  BY <1>6, RegistryMigrate
<1>7. CASE \E s \in Slots : Cancel(s)
  <2>1. UNCHANGED <<proc, host, reg, pc, target, attempts, calls, files>>
    BY <1>7 DEF Cancel, slotVars
  <2> QED
    BY <1>0, <2>1, RegistryEnds DEF Holders
<1>8. CASE \E h \in Hosts : Create(h)
  BY <1>8, RegistryCreate
<1>9. CASE \E d \in Deletes : (\E h \in Hosts : DeleteLook(d, h)) \/ Deleting(d)
  BY <1>9, RegistryDelete, RegistryDeleteFree DEF Deleting
<1>10. CASE UNCHANGED vars
  <2>1. UNCHANGED <<proc, host, reg, pc, target, attempts, calls, files>>
    BY <1>10 DEF vars, slotVars, srcVars
  <2> QED
    BY <1>0, <2>1, RegistryEnds DEF Holders
<1> QED
  BY <1>1, <1>2, <1>3, <1>4, <1>5, <1>6, <1>7, <1>8, <1>9, <1>10 DEF Next, Serve, Operate

(* The inductive invariant of the registries.                              *)
RInv == Attempts /\ FilesInDir /\ BootAlone /\ Crossing /\ Registry

(* It holds of the one guest that is there initially.                      *)
LEMMA RInvInit == Init => RInv
<1> SUFFICES ASSUME Init PROVE RInv
  OBVIOUS
<1>1. /\ calls = {} /\ \A x \in Slots : pc[x] = "none"
      /\ \E h \in Hosts, s \in Slots :
           /\ proc = [x \in Slots |-> IF x = s THEN "running" ELSE "none"]
           /\ host = [x \in Slots |-> h]
           /\ reg = [x \in Hosts |-> IF x = h THEN s ELSE NoSlot]
           /\ files = [x \in Hosts |-> IF x = h THEN {Dir} ELSE {}]
  <2> DEFINE s0 == CHOOSE x \in Slots : TRUE
  <2>1. s0 \in Slots
    BY SlotsAssumption
  <2>2. PICK h \in Hosts :
          /\ proc = [x \in Slots |-> IF x = s0 THEN "running" ELSE "none"]
          /\ host = [x \in Slots |-> h]
          /\ reg = [x \in Hosts |-> IF x = h THEN s0 ELSE NoSlot]
          /\ files = [x \in Hosts |-> IF x = h THEN {Dir} ELSE {}]
          /\ calls = {} /\ pc = [x \in Slots |-> "none"]
    BY DEF Init
  <2> QED
    BY <2>1, <2>2
<1>2. \A s \in Holders : reg[host[s]] = s /\ Dir \in files[host[s]]
  BY <1>1 DEF Holders
<1>3. Registry
  BY <1>1, <1>2 DEF Registry, Known, SelfMove
<1>4. BootAlone /\ Crossing
  BY <1>1 DEF BootAlone, Crossing, Active, Requests
<1> QED
  BY <1>3, <1>4, AttemptsInit DEF RInv

(* Every step keeps it.                                                    *)
LEMMA RInvStep ==
  ASSUME IInv, RInv, [Next]_vars
  PROVE  RInv'
BY IInvStep, AttemptsStep, FilesInDirStep, BootAloneStep, CrossingStep, RegistryStep DEF RInv

(* The registries' invariant (migrate.go, receive.go, server.go): attempts *)
(* are told apart, a boot is alone, crossing migrations are known, and so  *)
(* is every process that has the guest or is about to get it.              *)
THEOREM RegistryInvariance == Spec => []RInv
<1>1. IInv /\ RInv /\ [Next]_vars => RInv'
  BY RInvStep
<1> QED
  BY <1>1, RInvInit, Invariance, PTL DEF Spec

(* A registry tells the truth about the guest, and knows the guest that    *)
(* runs (Agent.vms as handleCreateVM, handlePrepare, handleAbort and       *)
(* handleDeleteVM leave it).                                               *)
THEOREM RegistryIsTruthful == Spec => []RegistryTruthful
<1>1. IInv /\ RInv => RegistryTruthful
  <2> SUFFICES ASSUME IInv, RInv PROVE RegistryTruthful
    OBVIOUS
  <2>1. \A h \in Hosts :
          (reg[h] # NoSlot /\ state[reg[h]] \in {"running", "migrating"}) =>
            reg[h] \in Holders \/ Doomed(reg[h]) \/ pc[reg[h]] = "success"
    BY DEF IInv, RegSound, TypeOK, Holders, Fallen
  <2>2. Unspoilt => \A s \in Runners : reg[host[s]] = s /\ Dir \in files[host[s]]
    BY DEF RInv, Registry, Known, Runners, Holders
  <2> QED
    BY <2>1, <2>2 DEF RegistryTruthful, Unspoilt, Excuses, IInv, TypeOK
<1> QED
  BY <1>1, Invariance, RegistryInvariance, PTL

-----------------------------------------------------------------------------
(* What a migration leaves behind.  A process that waits for its guest is  *)
(* in the registry, or a prepare is about to put it there, and somebody is *)
(* on his way to load it or to have it torn down.                          *)

Tidy ==
  /\ ~Excuses({"prepare", "abort", "cancel", "spawn", "create", "boot", "drop"})
  /\ Excuses({"finalize"}) => ~Excuses({"self"}) /\ attempts <= 2

(* There is a process that waits for its guest.                            *)
Waiting(h) == reg[h] # NoSlot /\ proc[reg[h]] = "idle"

(* A source that will load it or have it torn down.                        *)
CaresFor(m, h) ==
  /\ Mover(m) /\ target[m] = h /\ pc[m] # "resume"
  /\ \A c \in Pending(m) : c.kind = "abort" => c.st \in {"sent", "checked"}

(* A teardown under way is of the process that waits, if any.              *)
Halting(c) == c.kind = "abort" /\ c.st \in {"checked", "killed"}

Cared ==
  /\ \A c \in calls : (Halting(c) /\ Waiting(c.to)) => reg[c.to] = c.slot
  /\ \A s \in Slots : proc[s] = "idle" =>
       reg[host[s]] = s \/ \E c \in calls : c.st = "spawned" /\ c.slot = s
  /\ \A h \in Hosts : Waiting(h) => \E m \in Slots : CaresFor(m, h)

Leftover == Tidy => Cared

(* What is not excused now was not excused before.                         *)
LEMMA TidyBefore ==
  ASSUME IInv, trouble \subseteq trouble', attempts \in Nat, attempts' \in Nat,
         attempts <= attempts', Tidy'
  PROVE  Tidy /\ Unspoilt
BY DEF Tidy, Unspoilt, Excuses

(* Steps by which no process waits that did not, and no teardown begins.   *)
LEMMA CaredKept ==
  ASSUME IInv, Cared, UNCHANGED <<reg, host>>,
         \A s \in Slots : proc'[s] = "idle" => proc[s] = "idle",
         \A e \in calls' : Halting(e) => \E d \in calls : Like(e, d),
         \A e \in calls : e.st = "spawned" =>
            proc'[e.slot] # "idle" \/ \E d \in calls' : d.st = "spawned" /\ d.slot = e.slot,
         \A h \in Hosts, m \in Slots : (Waiting(h) /\ Waiting(h)' /\ CaresFor(m, h)) => CaresFor(m, h)'
  PROVE  Cared'
<1>1. \A h \in Hosts : Waiting(h)' => Waiting(h)
  BY DEF Waiting, IInv, TypeOK
<1>2. \A e \in calls' : (Halting(e) /\ Waiting(e.to)') => reg'[e.to] = e.slot
  <2> SUFFICES ASSUME NEW e \in calls', Halting(e), Waiting(e.to)' PROVE reg[e.to] = e.slot
    OBVIOUS
  <2>1. PICK d \in calls : Like(e, d)
    OBVIOUS
  <2>2. d.to \in Hosts /\ d.to = e.to /\ d.slot = e.slot /\ Halting(d)
    BY <2>1 DEF Like, Halting, IInv, TypeOK, Call
  <2>3. Waiting(d.to)
    BY <1>1, <2>2
  <2> QED
    BY <2>2, <2>3 DEF Cared
<1>3. \A s \in Slots : proc'[s] = "idle" =>
        reg'[host'[s]] = s \/ \E c \in calls' : c.st = "spawned" /\ c.slot = s
  BY DEF Cared
<1>4. \A h \in Hosts : Waiting(h)' => \E m \in Slots : CaresFor(m, h)'
  BY <1>1 DEF Cared
<1> QED
  BY <1>2, <1>3, <1>4 DEF Cared, Halting

(* A source that nobody has touched cares as before.                       *)
LEMMA CaresStill ==
  ASSUME NEW m \in Slots, NEW h, CaresFor(m, h), Pending(m)' = Pending(m),
         pc'[m] = pc[m], target'[m] = target[m]
  PROVE  CaresFor(m, h)'
BY DEF CaresFor, Mover, HandedOver

(* Nor does the progress of a handler change that, short of a load and of  *)
(* the end of the abort.                                                   *)
LEMMA CaresStep ==
  ASSUME IInv, NEW c \in calls,
         NEW st \in CallStates,
         NEW n \in Slots \cup {NoSlot}, Step(c, st, n), UNCHANGED srcVars,
         \/ c.kind # "finalize"
         \/ c.st \in {"sent", "checked"} /\ st \in {"checked", "err"}
         \/ c.st \in {"loaded", "ok"} /\ st \in {"loaded", "ok"},
         NEW m \in Slots, NEW h, CaresFor(m, h),
         c.kind # "abort" \/ c.from # m \/ c.orphan \/ st \in {"sent", "checked"}
  PROVE  CaresFor(m, h)'
<1>1. PICK d \in Call :
        /\ calls' = (calls \ {c}) \cup {d}
        /\ d.st = st /\ d.slot = n
        /\ d.from = c.from /\ d.kind = c.kind /\ d.to = c.to /\ d.att = c.att
        /\ d.orphan = c.orphan
  BY StepReplaces, CallsTyped
<1>2. UNCHANGED <<pc, target>>
  BY DEF srcVars
<1>3. HandedOver(m)' <=> HandedOver(m)
  BY <1>2, StepProgress
<1>4. \A e \in Pending(m)' : e.kind = "abort" => e.st \in {"sent", "checked"}
  BY <1>1 DEF CaresFor, Pending
<1> QED
  BY <1>2, <1>3, <1>4 DEF CaresFor, Mover

(* Sources.                                                                *)
LEMMA LeftoverSource ==
  ASSUME IInv, IInv', Attempts, Leftover, NEW s \in Slots, Source(s) \/ TimeOut(s)
  PROVE  Leftover'
<1>t. /\ pc \in [Slots -> PCs] /\ proc \in [Slots -> Procs] /\ calls \subseteq Call
      /\ attempts \in Nat
  BY DEF IInv, TypeOK
<1>p. \A c \in Pending(s) : c \in calls /\ c.from = s /\ ~c.orphan /\ c.kind = pc[s]
                            /\ pc[s] \in Requests
  BY <1>t DEF Pending, IInv, CallSound, Call
<1>0. trouble \subseteq trouble' /\ attempts' = attempts
      /\ UNCHANGED <<reg, host, target>>
  BY DEF Source, TimeOut, Send, ReadReply, FailsAtOnce, Abandon, Pause, SucceedKill, Succeed, Resume,
         slotVars, srcVars
<1> SUFFICES ASSUME Tidy', Tidy, Cared PROVE Cared'
  BY <1>t, <1>0, TidyBefore DEF Leftover
<1>1. /\ \A x \in Slots : proc'[x] = "idle" => proc[x] = "idle"
      /\ \A x \in Slots : x # s => pc'[x] = pc[x]
  BY <1>t DEF Source, TimeOut, Send, ReadReply, FailsAtOnce, Abandon, Pause, SucceedKill, Succeed, Resume,
         slotVars, srcVars, Paused, Killed
<1>2. /\ \A x \in Slots : x # s => Pending(x)' = Pending(x)
      /\ \A e \in calls' : Halting(e) => \E d \in calls : Like(e, d)
      /\ \A e \in calls : e.st = "spawned" =>
           proc'[e.slot] # "idle" \/ \E d \in calls' : d.st = "spawned" /\ d.slot = e.slot
      /\ \A h \in Hosts : CaresFor(s, h) => CaresFor(s, h)'
  <2>1. CASE Send(s)
    <3>1. PICK d : /\ calls' = calls \cup {d}
                   /\ d.from = s /\ d.kind = pc[s] /\ d.to = target[s] /\ d.att = att[s]
                   /\ d.slot = NoSlot /\ d.st = "sent" /\ ~d.orphan
      BY <2>1, SendAdds
    <3>2. UNCHANGED pc /\ Pending(s)' = {d}
      BY <2>1, <3>1 DEF Send, srcVars, Pending
    <3>3. HandedOver(s)' => HandedOver(s)
      BY <3>1, <3>2 DEF HandedOver
    <3> QED
      BY <1>0, <3>1, <3>2, <3>3 DEF Pending, Halting, Like, CaresFor, Mover
  <2>2. CASE ReadReply(s)
    <3>1. PICK c \in Pending(s) :
            /\ c.st \in {"ok", "err"}
            /\ pc' = [pc EXCEPT ![s] = IF c.st = "ok" THEN AfterReply[@] ELSE AfterError(@)]
            /\ calls' = calls \ {c}
      BY <2>2 DEF ReadReply
    <3>2. Pending(s)' = {}
      BY <1>p, <3>1 DEF Pending, IInv, CallsApart
    <3>3. ASSUME NEW h \in Hosts, CaresFor(s, h) PROVE CaresFor(s, h)'
      <4>1. pc[s] # "abort"
        BY <1>p, <3>1, <3>3 DEF CaresFor
      <4>2. pc[s] = "finalize" => c.st = "err"
        BY <1>p, <3>1, <3>3 DEF CaresFor, Mover, HandedOver
      <4>3. pc'[s] \in {"mem", "pause", "vmstate", "finalize", "abort"}
        BY <1>t, <1>p, <3>1, <4>1, <4>2 DEF AfterReply, AfterError, Requests
      <4> QED
        BY <1>0, <3>2, <3>3, <4>3 DEF CaresFor, Mover, HandedOver, Requests
    <3>4. \A x \in Slots : x # s => Pending(x)' = Pending(x)
      BY <1>p, <3>1 DEF Pending
    <3> QED
      BY <3>1, <3>3, <3>4 DEF Like
  <2>3. CASE Abandon(s) /\ (Pending(s) = {} => ctx[s] = "cancelled" \/ pc[s] = "mem")
    <3>1. /\ \A c \in Pending(s) : c \in calls /\ c \in Call
          /\ calls' = (calls \ Pending(s)) \cup {Orphaned(c) : c \in Pending(s)}
      BY <1>t, <2>3, AbandonOrphans
    <3>2. /\ pc' = [pc EXCEPT ![s] = AfterError(@)]
          /\ trouble' = trouble \cup {c.kind : c \in Pending(s)}
      BY <2>3 DEF Abandon
    <3>3. Pending(s)' = {} /\ \A x \in Slots : x # s => Pending(x)' = Pending(x)
      BY <1>p, <3>1, OrphanedIsCall DEF Pending
    <3>4. \A e \in calls' : \E d \in calls : Like(e, d)
      BY <3>1, OrphanedIsCall DEF Like
    <3>5. \A e \in calls : \E d \in calls' : d.st = e.st /\ d.slot = e.slot
      BY <3>1, OrphanedIsCall
    <3>6. pc[s] # "abort"
      <4>1. CASE Pending(s) = {}
        <5>1. ctx[s] = "live"
          BY DEF Attempts, Tidy, Excuses
        <5> QED
          BY <2>3, <4>1, <5>1
      <4>2. CASE Pending(s) # {}
        BY <1>p, <3>2, <4>2 DEF Tidy, Excuses
      <4> QED
        BY <4>1, <4>2
    <3>7. pc'[s] = "abort"
      BY <1>t, <3>2, <3>6 DEF AfterError
    <3>8. \A h \in Hosts : CaresFor(s, h) => CaresFor(s, h)'
      BY <1>0, <3>3, <3>7 DEF CaresFor, Mover, HandedOver, Requests
    <3> QED
      BY <3>3, <3>4, <3>5, <3>8
  <2>4. CASE Pause(s)
    <3>1. /\ UNCHANGED calls /\ pc[s] = "pause" /\ pc'[s] \in {"final", "abort"}
      BY <1>t, <2>4 DEF Pause
    <3>2. Pending(s)' = {} /\ \A x \in Slots : Pending(x)' = Pending(x)
      BY <1>p, <3>1 DEF Pending, Requests
    <3>3. \A h \in Hosts : CaresFor(s, h) => CaresFor(s, h)'
      BY <1>0, <3>1, <3>2 DEF CaresFor, Mover, HandedOver, Requests
    <3> QED
      BY <3>1, <3>2, <3>3 DEF Like
  <2>5. CASE SucceedKill(s) \/ Succeed(s) \/ Resume(s)
    <3>1. UNCHANGED calls /\ pc[s] \in {"success", "resume"}
      BY <2>5 DEF SucceedKill, Succeed, Resume
    <3>2. pc' = pc \/ pc'[s] = "none"
      BY <1>t, <2>5 DEF SucceedKill, Succeed, Resume, srcVars
    <3> QED
      BY <3>1, <3>2 DEF Pending, Like, CaresFor, Mover, Requests
  <2> QED
    BY <2>1, <2>2, <2>3, <2>4, <2>5 DEF Source, TimeOut, FailsAtOnce, NoBase
<1>3. \A h \in Hosts, m \in Slots : CaresFor(m, h) => CaresFor(m, h)'
  BY <1>0, <1>1, <1>2, CaresStill
<1> QED
  BY <1>0, <1>1, <1>2, <1>3, CaredKept

(* handlePrepare: the new process is in the hands of its prepare, ...      *)
LEMMA LeftoverPrepareSpawn ==
  ASSUME IInv, IInv', Leftover, NEW c \in calls, PrepareSpawn(c)
  PROVE  Leftover'
<1>t. /\ proc \in [Slots -> Procs] /\ host \in [Slots -> Hosts] /\ calls \subseteq Call
      /\ attempts \in Nat /\ reg \in [Hosts -> Slots \cup {NoSlot}]
  BY DEF IInv, TypeOK
<1>1. /\ NewSlot \in Slots /\ proc[NewSlot] \in {"none", "killed"}
      /\ \A h \in Hosts : reg[h] # NewSlot
  BY NewSlotIsUnused DEF PrepareSpawn
<1>2. /\ c.kind = "prepare" /\ c.st = "sent"
      /\ proc' = [proc EXCEPT ![NewSlot] = "idle"]
      /\ host' = [host EXCEPT ![NewSlot] = c.to]
      /\ trouble \subseteq trouble' /\ UNCHANGED <<reg, srcVars>>
      /\ Step(c, "spawned", NewSlot) \/ "spawn" \in trouble'
  BY DEF PrepareSpawn
<1>3. Tidy' => Tidy
  BY <1>t, <1>2, TidyBefore DEF srcVars
<1> SUFFICES ASSUME Tidy', Tidy, Cared PROVE Cared'
  BY <1>3 DEF Leftover
<1>4. Step(c, "spawned", NewSlot) /\ NewSlot \in Slots \cup {NoSlot}
  BY <1>1, <1>2 DEF Tidy, Excuses
<1>5. PICK d \in Call :
        /\ calls' = (calls \ {c}) \cup {d}
        /\ d.st = "spawned" /\ d.slot = NewSlot
        /\ d.from = c.from /\ d.kind = c.kind /\ d.to = c.to /\ d.att = c.att
        /\ d.orphan = c.orphan
  BY <1>t, <1>4, StepReplaces DEF CallStates
<1>6. \A h \in Hosts : Waiting(h)' => Waiting(h)
  BY <1>t, <1>1, <1>2, SlotsAssumption DEF Waiting
<1>7. \A h \in Hosts, m \in Slots : CaresFor(m, h) => CaresFor(m, h)'
  BY <1>2, <1>4, CaresStep DEF CallStates
<1>8. \A x \in Slots : proc'[x] = "idle" =>
        reg'[host'[x]] = x \/ \E e \in calls' : e.st = "spawned" /\ e.slot = x
  BY <1>t, <1>1, <1>2, <1>5 DEF Cared
<1>9. \A e \in calls' : (Halting(e) /\ Waiting(e.to)') => reg'[e.to] = e.slot
  BY <1>t, <1>2, <1>5, <1>6 DEF Cared, Halting, Call
<1> QED
  BY <1>6, <1>7, <1>8, <1>9 DEF Cared, Halting

(* ... then in the registry, and its source's.                             *)
LEMMA LeftoverPrepareFile ==
  ASSUME IInv, IInv', Attempts, Crossing, Leftover, NEW c \in calls, PrepareFile(c)
  PROVE  Leftover'
<1>t. /\ proc \in [Slots -> Procs] /\ host \in [Slots -> Hosts] /\ calls \subseteq Call
      /\ attempts \in Nat /\ reg \in [Hosts -> Slots \cup {NoSlot}]
  BY DEF IInv, TypeOK
<1>0. /\ c.kind = "prepare" /\ c.st = "spawned" /\ c.to \in Hosts /\ c.slot \in Slots
      /\ proc[c.slot] = "idle" /\ reg[c.to] # c.slot /\ host[c.slot] = c.to
      /\ UNCHANGED <<host, srcVars, trouble>>
  BY <1>t DEF PrepareFile, IInv, CallSound, Call
<1>1. Tidy' => Tidy
  BY <1>0 DEF Tidy, Excuses, srcVars
<1> SUFFICES ASSUME Tidy', Tidy, Cared PROVE Cared'
  BY <1>1 DEF Leftover
<1>2. /\ ~c.orphan /\ c.from \in Slots /\ pc[c.from] = "prepare" /\ target[c.from] = c.to
      /\ ~HandedOver(c.from)
  <2>1. ~c.orphan
    BY <1>0 DEF Attempts, AttSound, Tidy, Excuses
  <2>2. c.from \in Slots /\ pc[c.from] = "prepare" /\ target[c.from] = c.to
    BY <1>t, <1>0, <2>1 DEF IInv, CallSound, Call
  <2> QED
    BY <2>1, <2>2, HandoverAtFinalize
<1>3. CASE /\ reg' = [reg EXCEPT ![c.to] = c.slot]
           /\ proc' = IF reg[c.to] = NoSlot THEN proc
                      ELSE [proc EXCEPT ![reg[c.to]] = Killed(@)]
           /\ Step(c, "ok", NoSlot)
  <2>0. Step(c, "ok", NoSlot) /\ NoSlot \in Slots \cup {NoSlot}
    BY <1>3
  <2>1. PICK d \in Call :
          /\ calls' = (calls \ {c}) \cup {d}
          /\ d.st = "ok" /\ d.slot = NoSlot
          /\ d.from = c.from /\ d.kind = c.kind /\ d.to = c.to /\ d.att = c.att
          /\ d.orphan = c.orphan
    BY <1>t, <2>0, StepReplaces DEF CallStates
  <2>2. \A x \in Slots : proc'[x] = "idle" => proc[x] = "idle" /\ x # reg[c.to]
    BY <1>t, <1>0, <1>3, SlotsAssumption DEF Killed
  <2>3. /\ reg'[c.to] = c.slot
        /\ \A h \in Hosts : h # c.to => reg'[h] = reg[h] /\ (Waiting(h)' => Waiting(h))
    BY <1>t, <1>0, <1>3, <2>2 DEF Waiting
  <2>4. \A h \in Hosts, m \in Slots : CaresFor(m, h) => CaresFor(m, h)'
    BY <1>0, <2>0, CaresStep DEF CallStates
  <2>5. \A e \in calls' : (Halting(e) /\ Waiting(e.to)') => reg'[e.to] = e.slot
    <3> SUFFICES ASSUME NEW e \in calls', Halting(e), Waiting(e.to)' PROVE reg'[e.to] = e.slot
      OBVIOUS
    <3>1. e \in calls /\ e.to \in Hosts
      BY <1>t, <2>1 DEF Halting, Call
    <3>2. CASE e.to = c.to
      <4>1. ~e.orphan
        BY <3>1 DEF Attempts, AttSound, Tidy, Excuses, Halting
      <4>2. e.from \in Slots /\ pc[e.from] = "abort" /\ target[e.from] = target[c.from]
        BY <1>t, <1>2, <3>1, <3>2, <4>1 DEF IInv, CallSound, Call, Halting
      <4>3. "create" \notin trouble /\ (Excuses({"finalize"}) => attempts <= 2)
        BY DEF Tidy, Excuses
      <4>4. Excuses({"finalize"}) /\ host[c.from] = target[c.from]
        BY <1>2, <4>2, <4>3, TwoMovers DEF PreFinalize
      <4>5. "self" \notin trouble
        BY <4>4 DEF Tidy, Excuses
      <4> QED
        BY <1>2, <4>4, <4>5 DEF Attempts, MigPCs, Requests
    <3>3. CASE e.to # c.to
      BY <2>3, <3>1, <3>3 DEF Cared
    <3> QED
      BY <3>2, <3>3
  <2>6. \A x \in Slots : proc'[x] = "idle" =>
          reg'[host'[x]] = x \/ \E e \in calls' : e.st = "spawned" /\ e.slot = x
    <3> SUFFICES ASSUME NEW x \in Slots, proc'[x] = "idle", x # c.slot
                 PROVE  reg'[host[x]] = x \/ \E e \in calls' : e.st = "spawned" /\ e.slot = x
      BY <1>0, <2>3
    <3>1. CASE reg[host[x]] = x
      BY <1>t, <2>2, <2>3, <3>1
    <3>2. CASE \E e \in calls : e.st = "spawned" /\ e.slot = x
      BY <2>1, <3>2
    <3> QED
      BY <2>2, <3>1, <3>2 DEF Cared
  <2>7. \A h \in Hosts : Waiting(h)' => \E m \in Slots : CaresFor(m, h)'
    <3> SUFFICES ASSUME NEW h \in Hosts, Waiting(h)' PROVE \E m \in Slots : CaresFor(m, h)'
      OBVIOUS
    <3>1. CASE h = c.to
      <4>1. \A e \in Pending(c.from)' : e.kind # "abort"
        BY <1>0, <1>2, <2>1 DEF Pending, IInv, CallsApart
      <4>2. ~HandedOver(c.from)'
        <5>1. HandedOver(c.from)' <=> HandedOver(c.from)
          BY <1>0, <1>2, <2>0, StepProgress DEF srcVars, CallStates
        <5> QED
          BY <1>2, <5>1
      <4> QED
        BY <1>0, <1>2, <3>1, <4>1, <4>2 DEF CaresFor, Mover, Requests, srcVars
    <3>2. CASE h # c.to
      BY <2>3, <2>4, <3>2 DEF Cared
    <3> QED
      BY <3>1, <3>2
  <2> QED
    BY <2>5, <2>6, <2>7 DEF Cared, Halting
<1>4. CASE proc' = [proc EXCEPT ![c.slot] = Killed(@)] /\ Step(c, "err", NoSlot) /\ UNCHANGED reg
  <2>0. Step(c, "err", NoSlot) /\ NoSlot \in Slots \cup {NoSlot}
    BY <1>4
  <2>1. PICK d \in Call :
          /\ calls' = (calls \ {c}) \cup {d}
          /\ d.st = "err" /\ d.slot = NoSlot
          /\ d.from = c.from /\ d.kind = c.kind /\ d.to = c.to /\ d.att = c.att
          /\ d.orphan = c.orphan
    BY <1>t, <2>0, StepReplaces DEF CallStates
  <2>2. \A x \in Slots : proc'[x] = "idle" => proc[x] = "idle" /\ x # c.slot
    BY <1>t, <1>0, <1>4 DEF Killed
  <2>3. \A h \in Hosts, m \in Slots : CaresFor(m, h) => CaresFor(m, h)'
    BY <1>0, <2>0, CaresStep DEF CallStates
  <2>4. \A e \in calls' : Halting(e) => \E f \in calls : Like(e, f)
    BY <2>1 DEF Halting, Like
  <2>5. \A e \in calls : e.st = "spawned" =>
          proc'[e.slot] # "idle" \/ \E f \in calls' : f.st = "spawned" /\ f.slot = e.slot
    BY <1>0, <2>1, <2>2
  <2> QED
    BY <1>0, <1>4, <2>2, <2>3, <2>4, <2>5, CaredKept
<1> QED
  BY <1>3, <1>4 DEF PrepareFile

(* A handler that starts nothing, kills nothing and tears nothing down.    *)
LEMMA LeftoverQuiet ==
  ASSUME IInv, IInv', Leftover, NEW c \in calls,
         NEW st \in CallStates,
         NEW n \in Slots \cup {NoSlot}, Step(c, st, n),
         UNCHANGED <<proc, host, reg, srcVars, trouble>>, c.st # "spawned",
         c.kind # "abort" \/ st \notin {"checked", "killed"},
         \/ c.kind # "finalize"
         \/ c.st \in {"sent", "checked"} /\ st \in {"checked", "err"}
         \/ c.st \in {"loaded", "ok"} /\ st \in {"loaded", "ok"},
         (c.kind = "abort" /\ ~c.orphan /\ Waiting(c.to)) => c.st = "freed"
  PROVE  Leftover'
<1>1. PICK d \in Call :
        /\ calls' = (calls \ {c}) \cup {d}
        /\ d.st = st /\ d.slot = n
        /\ d.from = c.from /\ d.kind = c.kind /\ d.to = c.to /\ d.att = c.att
        /\ d.orphan = c.orphan
  BY StepReplaces, CallsTyped
<1>2. Tidy' => Tidy
  BY DEF Tidy, Excuses, srcVars
<1>3. ASSUME Cared PROVE Cared'
  <2>1. \A e \in calls' : Halting(e) => \E f \in calls : Like(e, f)
    BY <1>1 DEF Halting, Like
  <2>2. \A e \in calls : e.st = "spawned" =>
          proc'[e.slot] # "idle" \/ \E f \in calls' : f.st = "spawned" /\ f.slot = e.slot
    BY <1>1
  <2>3. ASSUME NEW h \in Hosts, NEW m \in Slots, Waiting(h), CaresFor(m, h) PROVE CaresFor(m, h)'
    <3>1. c.kind = "abort" /\ c.from = m /\ ~c.orphan => c.to = h /\ c.st \in {"sent", "checked"}
      BY <2>3 DEF CaresFor, Pending, IInv, CallSound
    <3> QED
      BY <2>3, <3>1, CaresStep
  <2> QED
    BY <1>3, <2>1, <2>2, <2>3, CaredKept
<1> QED
  BY <1>2, <1>3 DEF Leftover

(* handleFinalize: the guest is loaded, and nothing waits there any more.  *)
LEMMA LeftoverFinalizeLoad ==
  ASSUME IInv, IInv', Registry, Leftover, NEW c \in calls, FinalizeLoad(c)
  PROVE  Leftover'
<1>t. /\ proc \in [Slots -> Procs] /\ calls \subseteq Call
      /\ attempts \in Nat /\ reg \in [Hosts -> Slots \cup {NoSlot}]
  BY DEF IInv, TypeOK
<1>0. /\ c.kind = "finalize" /\ c.st = "checked" /\ c.to \in Hosts /\ c.slot \in Slots
      /\ UNCHANGED <<host, reg, srcVars>> /\ trouble \subseteq trouble'
  BY <1>t DEF FinalizeLoad, IInv, CallSound, Call
<1>1. CASE /\ proc[c.slot] = "idle"
           /\ proc' = [proc EXCEPT ![c.slot] = "running"]
           /\ Step(c, "loaded", c.slot) \/ Step(c, "err", NoSlot)
  <2>1. PICK st \in {"loaded", "err"}, n \in Slots \cup {NoSlot} : Step(c, st, n)
    BY <1>0, <1>1
  <2>2. PICK d \in Call :
          /\ calls' = (calls \ {c}) \cup {d}
          /\ d.st = st
          /\ d.from = c.from /\ d.kind = c.kind /\ d.to = c.to /\ d.att = c.att
          /\ d.orphan = c.orphan
    BY <1>t, <2>1, StepReplaces DEF CallStates
  <2>3. Tidy' => Tidy /\ Unspoilt
    BY <1>t, <1>0, TidyBefore DEF srcVars
  <2> SUFFICES ASSUME Tidy, Unspoilt, Cared PROVE Cared'
    BY <2>3 DEF Leftover
  <2>4. reg[c.to] = c.slot
    BY <1>0, <1>1 DEF Registry, Known, Loads
  <2>5. /\ proc'[c.slot] = "running"
        /\ \A x \in Slots : proc'[x] = "idle" => proc[x] = "idle"
    BY <1>t, <1>0, <1>1
  <2>6. \A e \in calls' : Halting(e) => \E f \in calls : Like(e, f)
    BY <1>0, <2>2 DEF Halting, Like
  <2>7. \A e \in calls : e.st = "spawned" =>
          proc'[e.slot] # "idle" \/ \E f \in calls' : f.st = "spawned" /\ f.slot = e.slot
    BY <1>0, <2>2
  <2>8. ASSUME NEW h \in Hosts, NEW m \in Slots, Waiting(h)', CaresFor(m, h) PROVE CaresFor(m, h)'
    <3>1. h # c.to
      BY <1>0, <2>4, <2>5, <2>8 DEF Waiting
    <3>2. c.orphan \/ c.from # m
      BY <2>8, <3>1 DEF CaresFor, IInv, CallSound
    <3>3. Pending(m)' = Pending(m)
      BY <2>2, <3>2 DEF Pending
    <3> QED
      BY <1>0, <2>8, <3>3, CaresStill DEF srcVars
  <2> QED
    BY <1>0, <2>5, <2>6, <2>7, <2>8, CaredKept
<1>2. CASE Step(c, "err", NoSlot) /\ UNCHANGED <<proc, trouble>>
  BY <1>0, <1>2, LeftoverQuiet DEF CallStates
<1> QED
  BY <1>1, <1>2 DEF FinalizeLoad

(* handleAbort: the check, ...                                             *)
LEMMA LeftoverAbortCheck ==
  ASSUME IInv, IInv', Leftover, NEW c \in calls, AbortCheck(c)
  PROVE  Leftover'
<1>t. /\ proc \in [Slots -> Procs] /\ calls \subseteq Call
      /\ attempts \in Nat /\ reg \in [Hosts -> Slots \cup {NoSlot}]
  BY DEF IInv, TypeOK
<1>0. /\ c.kind = "abort" /\ c.st = "sent" /\ c.to \in Hosts
      /\ UNCHANGED <<proc, host, reg, srcVars, trouble>>
      /\ reg[c.to] \in Slots \cup {NoSlot}
  BY <1>t DEF AbortCheck, slotVars, Call
<1>1. CASE Step(c, "checked", reg[c.to])
  <2>1. PICK d \in Call :
          /\ calls' = (calls \ {c}) \cup {d}
          /\ d.st = "checked" /\ d.slot = reg[c.to]
          /\ d.from = c.from /\ d.kind = c.kind /\ d.to = c.to /\ d.att = c.att
          /\ d.orphan = c.orphan
    BY <1>t, <1>0, <1>1, StepReplaces DEF CallStates
  <2>2. Tidy' => Tidy
    BY <1>0 DEF Tidy, Excuses, srcVars
  <2>3. ASSUME Cared PROVE Cared'
    <3>1. \A h \in Hosts : Waiting(h)' <=> Waiting(h)
      BY <1>0 DEF Waiting
    <3>2. \A h \in Hosts, m \in Slots : CaresFor(m, h) => CaresFor(m, h)'
      BY <1>0, <1>1, CaresStep DEF CallStates
    <3>3. \A e \in calls' : (Halting(e) /\ Waiting(e.to)') => reg'[e.to] = e.slot
      BY <1>t, <1>0, <2>1, <2>3, <3>1 DEF Cared, Call
    <3>4. \A s \in Slots : proc'[s] = "idle" =>
            reg'[host'[s]] = s \/ \E e \in calls' : e.st = "spawned" /\ e.slot = s
      BY <1>0, <2>1, <2>3 DEF Cared
    <3> QED
      BY <2>3, <3>1, <3>2, <3>3, <3>4 DEF Cared, Halting
  <2> QED
    BY <2>2, <2>3 DEF Leftover
<1>2. CASE reg[c.to] = NoSlot /\ Step(c, "ok", NoSlot)
  BY <1>0, <1>2, LeftoverQuiet DEF Waiting, CallStates
<1>3. CASE /\ reg[c.to] # NoSlot /\ state[reg[c.to]] # "receiving"
           /\ Step(c, "err", NoSlot)
  <2>1. ~Waiting(c.to)
    BY <1>0, <1>3 DEF Waiting, IInv, SlotSound
  <2> QED
    BY <1>0, <1>3, <2>1, LeftoverQuiet DEF CallStates
<1> QED
  BY <1>1, <1>2, <1>3 DEF AbortCheck

(* A slot that is freed leads to nothing that waits.                       *)
LEMMA CaredFreed ==
  ASSUME IInv, Cared, NEW h \in Hosts, ~Waiting(h),
         reg' = [reg EXCEPT ![h] = NoSlot], UNCHANGED <<proc, host>>,
         \A e \in calls' : Halting(e) => \E d \in calls : Like(e, d),
         \A e \in calls : e.st = "spawned" => \E d \in calls' : d.st = "spawned" /\ d.slot = e.slot,
         \A g \in Hosts, m \in Slots : (g # h /\ CaresFor(m, g)) => CaresFor(m, g)'
  PROVE  Cared'
<1>t. /\ proc \in [Slots -> Procs] /\ host \in [Slots -> Hosts] /\ calls \subseteq Call
      /\ reg \in [Hosts -> Slots \cup {NoSlot}]
  BY DEF IInv, TypeOK
<1>2. \A g \in Hosts : Waiting(g)' => g # h /\ Waiting(g) /\ reg'[g] = reg[g]
  BY <1>t DEF Waiting
<1>3. \A e \in calls' : (Halting(e) /\ Waiting(e.to)') => reg'[e.to] = e.slot
  <2> SUFFICES ASSUME NEW e \in calls', Halting(e), Waiting(e.to)' PROVE reg'[e.to] = e.slot
    OBVIOUS
  <2>1. PICK d \in calls : Like(e, d)
    OBVIOUS
  <2>2. d.to \in Hosts /\ d.to = e.to /\ d.slot = e.slot /\ Halting(d)
    BY <1>t, <2>1 DEF Like, Halting, Call
  <2> QED
    BY <1>2, <2>2 DEF Cared
<1>4. \A s \in Slots : proc'[s] = "idle" =>
        reg'[host'[s]] = s \/ \E c \in calls' : c.st = "spawned" /\ c.slot = s
  <2> SUFFICES ASSUME NEW s \in Slots, proc[s] = "idle"
               PROVE  reg'[host[s]] = s \/ \E c \in calls' : c.st = "spawned" /\ c.slot = s
    OBVIOUS
  <2>1. CASE reg[host[s]] = s
    <3>1. host[s] # h
      BY <2>1, SlotsAssumption DEF Waiting
    <3> QED
      BY <1>t, <2>1, <3>1
  <2>2. CASE \E c \in calls : c.st = "spawned" /\ c.slot = s
    BY <2>2
  <2> QED
    BY <2>1, <2>2 DEF Cared
<1>5. \A g \in Hosts : Waiting(g)' => \E m \in Slots : CaresFor(m, g)'
  BY <1>2 DEF Cared
<1> QED
  BY <1>3, <1>4, <1>5 DEF Cared, Halting

(* ... the process, after which nothing waits there, ...                   *)
LEMMA LeftoverAbortKill ==
  ASSUME IInv, IInv', Leftover, NEW c \in calls, AbortKill(c)
  PROVE  Leftover'
<1>0. /\ c.kind = "abort" /\ c.st = "checked" /\ c.to \in Hosts /\ c.slot \in Slots
      /\ proc' = [proc EXCEPT ![c.slot] = Killed(@)]
      /\ Step(c, "killed", c.slot) /\ c.slot \in Slots \cup {NoSlot}
      /\ "killed" \in CallStates
      /\ UNCHANGED <<host, reg, srcVars, trouble>>
      /\ proc \in [Slots -> Procs] /\ reg \in [Hosts -> Slots \cup {NoSlot}]
  BY DEF AbortKill, IInv, TypeOK, Call, CallSound, CallStates
<1>1. PICK d \in Call :
        /\ calls' = (calls \ {c}) \cup {d}
        /\ d.st = "killed" /\ d.slot = c.slot
        /\ d.from = c.from /\ d.kind = c.kind /\ d.to = c.to /\ d.att = c.att
        /\ d.orphan = c.orphan
  BY <1>0, StepReplaces, CallsTyped
<1>2. Tidy' => Tidy
  BY <1>0 DEF Tidy, Excuses, srcVars
<1>3. ASSUME Cared PROVE Cared'
  <2>1. \A x \in Slots : proc'[x] = "idle" => proc[x] = "idle" /\ x # c.slot
    BY <1>0 DEF Killed
  <2>2. \A h \in Hosts : Waiting(h)' => Waiting(h) /\ h # c.to
    <3>1. Waiting(c.to) => reg[c.to] = c.slot
      BY <1>0, <1>3 DEF Cared, Halting
    <3> QED
      BY <1>0, <2>1, <3>1 DEF Waiting
  <2>3. \A e \in calls' : (Halting(e) /\ Waiting(e.to)') => reg'[e.to] = e.slot
    <3> SUFFICES ASSUME NEW e \in calls', Halting(e), Waiting(e.to)' PROVE reg[e.to] = e.slot
      BY <1>0
    <3>1. e.to \in Hosts
      BY DEF IInv, TypeOK, Call
    <3>2. Waiting(e.to) /\ e.to # c.to
      BY <2>2, <3>1
    <3>3. e \in calls
      BY <1>1, <3>2
    <3> QED
      BY <1>3, <3>2, <3>3 DEF Cared
  <2>4. \A x \in Slots : proc'[x] = "idle" =>
          reg'[host'[x]] = x \/ \E e \in calls' : e.st = "spawned" /\ e.slot = x
    <3> SUFFICES ASSUME NEW x \in Slots, proc[x] = "idle"
                 PROVE  reg[host[x]] = x \/ \E e \in calls' : e.st = "spawned" /\ e.slot = x
      BY <1>0, <2>1
    <3>1. \A e \in calls : e.st = "spawned" => e \in calls'
      BY <1>0, <1>1
    <3> QED
      BY <1>3, <3>1 DEF Cared
  <2>5. ASSUME NEW g \in Hosts, NEW m \in Slots, g # c.to, CaresFor(m, g) PROVE CaresFor(m, g)'
    <3>1. c.orphan \/ c.from # m
      BY <2>5 DEF CaresFor, IInv, CallSound
    <3> QED
      BY <1>0, <2>5, <3>1, CaresStep
  <2>6. \A h \in Hosts : Waiting(h)' => \E m \in Slots : CaresFor(m, h)'
    BY <1>3, <2>2, <2>5 DEF Cared
  <2> QED
    BY <2>3, <2>4, <2>6 DEF Cared, Halting
<1> QED
  BY <1>2, <1>3 DEF Leftover

(* ... and the slot.                                                       *)
LEMMA LeftoverAbortFree ==
  ASSUME IInv, IInv', Leftover, NEW c \in calls, AbortFree(c)
  PROVE  Leftover'
<1>0. /\ c.kind = "abort" /\ c.st = "killed" /\ c.to \in Hosts
      /\ c.slot \in Slots /\ proc[c.slot] = "killed"
      /\ reg' = [reg EXCEPT ![c.to] = NoSlot]
      /\ Step(c, "freed", NoSlot) /\ NoSlot \in Slots \cup {NoSlot}
      /\ "freed" \in CallStates
      /\ UNCHANGED <<proc, host, srcVars, trouble>>
  BY DEF AbortFree, IInv, TypeOK, Call, CallSound, CallStates, slotVars
<1>1. PICK d \in Call :
        /\ calls' = (calls \ {c}) \cup {d}
        /\ d.st = "freed" /\ d.slot = NoSlot
        /\ d.from = c.from /\ d.kind = c.kind /\ d.to = c.to /\ d.att = c.att
        /\ d.orphan = c.orphan
  BY <1>0, StepReplaces, CallsTyped
<1>2. Tidy' => Tidy
  BY <1>0 DEF Tidy, Excuses, srcVars
<1>3. ASSUME Cared PROVE Cared'
  <2>1. ~Waiting(c.to)
    <3>1. Waiting(c.to) => reg[c.to] = c.slot
      BY <1>0, <1>3 DEF Cared, Halting
    <3> QED
      BY <1>0, <3>1 DEF Waiting
  <2>2. \A e \in calls' : Halting(e) => \E f \in calls : Like(e, f)
    BY <1>1 DEF Halting, Like
  <2>3. \A e \in calls : e.st = "spawned" => \E f \in calls' : f.st = "spawned" /\ f.slot = e.slot
    BY <1>0, <1>1
  <2>4. ASSUME NEW g \in Hosts, NEW m \in Slots, g # c.to, CaresFor(m, g) PROVE CaresFor(m, g)'
    <3>1. c.orphan \/ c.from # m
      BY <2>4 DEF CaresFor, IInv, CallSound
    <3> QED
      BY <1>0, <2>4, <3>1, CaresStep
  <2> QED
    BY <1>0, <1>3, <2>1, <2>2, <2>3, <2>4, CaredFreed
<1> QED
  BY <1>2, <1>3 DEF Leftover

(* handleDeleteVM: a process is killed, no matter which, ...               *)
LEMMA LeftoverDelete ==
  ASSUME IInv, IInv', Leftover, NEW d \in Deletes,
         (\E h \in Hosts : DeleteLook(d, h)) \/ DeleteKill(d) \/ DeleteState(d)
  PROVE  Leftover'
<1>1. /\ UNCHANGED <<host, reg, pc, target, att, attempts, calls>>
      /\ trouble \subseteq trouble'
      /\ \A x \in Slots : proc'[x] = "idle" => proc[x] = "idle"
  BY DEF DeleteLook, DeleteKill, DeleteState, slotVars, Killed, IInv, TypeOK
<1>2. Tidy' => Tidy
  BY <1>1 DEF Tidy, Excuses
<1>3. \A g \in Hosts, m \in Slots : CaresFor(m, g) => CaresFor(m, g)'
  BY <1>1, CaresStill DEF Pending
<1>4. Cared => Cared'
  BY <1>1, <1>3, CaredKept DEF Like
<1> QED
  BY <1>2, <1>4 DEF Leftover

(* ... and a slot is freed of it, if of anybody.                           *)
LEMMA LeftoverDeleteFree ==
  ASSUME IInv, IInv', Leftover, NEW d \in Deletes, DeleteFree(d)
  PROVE  Leftover'
<1> DEFINE h == del[d].host
<1>0. /\ h \in Hosts /\ reg' = [reg EXCEPT ![h] = NoSlot]
      /\ UNCHANGED <<proc, host, pc, target, attempts, calls>>
      /\ trouble \subseteq trouble'
      /\ reg[h] \notin {NoSlot, del[d].slot} => "drop" \in trouble'
  BY DEF DeleteFree, IInv, TypeOK, DelRequest, slotVars
<1>1. Tidy' => Tidy
  BY <1>0 DEF Tidy, Excuses
<1> SUFFICES ASSUME Tidy', Cared PROVE Cared'
  BY <1>1 DEF Leftover
<1>2. ~Waiting(h)
  <2> SUFFICES ASSUME reg[h] # NoSlot PROVE proc[reg[h]] # "idle"
    BY DEF Waiting
  <2>1. reg[h] = del[d].slot
    BY <1>0 DEF Tidy, Excuses
  <2>2. del[d].st = "dead" /\ DelSound(d)
    BY <2>1 DEF DeleteFree, IInv
  <2> QED
    BY <2>1, <2>2 DEF DelSound
<1>3. \A g \in Hosts, m \in Slots : CaresFor(m, g) => CaresFor(m, g)'
  BY <1>0, CaresStill DEF Pending
<1> QED
  BY <1>0, <1>2, <1>3, CaredFreed DEF Like

(* handleCreateVM: there was nobody to wait for a guest.                   *)
LEMMA LeftoverCreate ==
  ASSUME IInv, IInv', Leftover, NEW h \in Hosts, Create(h)
  PROVE  Leftover'
<1>0. /\ UNCHANGED proc \/ proc' = [proc EXCEPT ![NewSlot] = "none"]
      /\ calls' = calls /\ proc \in [Slots -> Procs] /\ NewSlot \in Slots
      /\ trouble \subseteq trouble' /\ UNCHANGED attempts
      /\ Quiet \/ "create" \in trouble'
      /\ reg' \in [Hosts -> Slots \cup {NoSlot}]
  BY NewSlotIsUnused DEF Create, slotVars, IInv, TypeOK
<1>1. Tidy' => Tidy /\ Quiet
  BY <1>0 DEF Tidy, Excuses
<1>2. ASSUME Cared, Quiet PROVE Cared'
  <2>1. \A g \in Hosts : ~Waiting(g)
    BY <1>2 DEF Cared, CaresFor, Mover, Quiet, Requests
  <2>2. \A s \in Slots : proc[s] # "idle"
    <3> SUFFICES ASSUME NEW s \in Slots, proc[s] = "idle" PROVE FALSE
      OBVIOUS
    <3>1. reg[host[s]] = s
      BY <1>2 DEF Cared, Quiet
    <3> QED
      BY <2>1, <3>1, SlotsAssumption DEF Waiting, IInv, TypeOK
  <2>3. \A s \in Slots : proc'[s] # "idle"
    BY <1>0, <2>2
  <2>4. \A g \in Hosts : ~Waiting(g)'
    BY <1>0, <2>3 DEF Waiting
  <2> QED
    BY <1>0, <1>2, <2>3, <2>4 DEF Cared, Quiet
<1> QED
  BY <1>1, <1>2 DEF Leftover

(* Steps of goroutines and of the operator that leave the requests, the    *)
(* registry and every source alone.                                        *)
LEMMA LeftoverAside ==
  ASSUME IInv, IInv', Leftover, UNCHANGED <<reg, host, target>>,
         trouble \subseteq trouble', attempts <= attempts',
         \A s \in Slots : proc'[s] = "idle" => proc[s] = "idle",
         \A s \in Slots : proc[s] = "idle" => proc'[s] = "idle" \/ reg[host[s]] = s,
         \A e \in calls' : e \in calls,
         \A e \in calls : e.st = "spawned" => e \in calls',
         \A m \in Slots : Mover(m) => pc'[m] = pc[m] /\ Pending(m)' = Pending(m)
  PROVE  Leftover'
<1>1. Tidy' => Tidy
  BY TidyBefore DEF IInv, TypeOK
<1>2. ASSUME NEW h \in Hosts, NEW m \in Slots, CaresFor(m, h) PROVE CaresFor(m, h)'
  <2>1. Mover(m)
    BY <1>2 DEF CaresFor
  <2> QED
    BY <1>2, <2>1, CaresStill
<1>3. Cared => Cared'
  BY <1>2, CaredKept DEF Like
<1> QED
  BY <1>1, <1>3 DEF Leftover

(* handleMigrate.                                                          *)
LEMMA LeftoverMigrate ==
  ASSUME IInv, IInv', Leftover, NEW s \in Slots, NEW t \in Hosts, Migrate(s, t)
  PROVE  Leftover'
<1>0. /\ pc[s] = "none" /\ pc' = [pc EXCEPT ![s] = "prepare"]
      /\ target' = [target EXCEPT ![s] = t]
      /\ trouble \subseteq trouble' /\ attempts' = attempts + 1
      /\ UNCHANGED <<proc, host, reg, calls>>
  BY DEF Migrate
<1>1. Tidy' => Tidy
  BY <1>0, TidyBefore DEF IInv, TypeOK
<1>2. ASSUME NEW h \in Hosts, NEW m \in Slots, CaresFor(m, h) PROVE CaresFor(m, h)'
  <2>1. m # s
    BY <1>0, <1>2 DEF CaresFor, Mover, Requests
  <2>2. pc'[m] = pc[m] /\ target'[m] = target[m] /\ Pending(m)' = Pending(m)
    BY <1>0, <2>1 DEF Pending, IInv, TypeOK
  <2> QED
    BY <1>2, <2>2, CaresStill
<1>3. Cared => Cared'
  BY <1>0, <1>2, CaredKept DEF Like
<1> QED
  BY <1>1, <1>3 DEF Leftover

(* The end of a request that nobody waits for.                             *)
LEMMA LeftoverForget ==
  ASSUME IInv, IInv', Leftover, NEW c \in calls, Forget(c)
  PROVE  Leftover'
<1>0. /\ c.orphan /\ c.st # "spawned" /\ calls' = calls \ {c}
      /\ UNCHANGED <<proc, host, reg, pc, target, attempts, trouble>>
  BY DEF Forget, slotVars, srcVars
<1>1. \A m \in Slots : Pending(m)' = Pending(m)
  BY <1>0 DEF Pending
<1>2. attempts <= attempts'
  BY <1>0 DEF IInv, TypeOK
<1> QED
  BY <1>0, <1>1, <1>2, LeftoverAside

(* Every step.                                                             *)
LEMMA LeftoverStep ==
  ASSUME IInv, IInv', Attempts, Crossing, Registry, Leftover, [Next]_vars
  PROVE  Leftover'
<1>t. /\ pc \in [Slots -> PCs] /\ proc \in [Slots -> Procs] /\ calls \subseteq Call
      /\ reg \in [Hosts -> Slots \cup {NoSlot}] /\ attempts \in Nat
  BY DEF IInv, TypeOK
<1>0. trouble \subseteq trouble'
  BY TroubleGrows
<1>1. CASE \E s \in Slots : Source(s) \/ TimeOut(s)
  BY <1>1, LeftoverSource
<1>2. CASE \E s \in Slots : Booting(s)
  <2> PICK s \in Slots : Booting(s)
    BY <1>2
  <2>1. /\ UNCHANGED <<host, reg, target, attempts, calls>>
        /\ pc[s] \in {"spawn", "boot"}
        /\ \A x \in Slots : x # s => pc'[x] = pc[x] /\ proc'[x] = proc[x]
        /\ proc'[s] # "idle" \/ proc'[s] = proc[s]
    BY <1>t DEF Booting, BootSpawn, Boot, Killed
  <2>2. proc[s] # "idle" /\ ~Mover(s)
    BY <2>1 DEF IInv, SlotSound, Mover, Requests
  <2>3. \A m \in Slots : Mover(m) => pc'[m] = pc[m] /\ Pending(m)' = Pending(m)
    BY <2>1, <2>2 DEF Pending
  <2> QED
    BY <1>t, <1>0, <2>1, <2>2, <2>3, LeftoverAside
<1>3. CASE \E c \in calls : Handle(c)
  <2> PICK c \in calls : Handle(c)
    BY <1>3
  <2>0. NoSlot \in Slots \cup {NoSlot} /\ c.to \in Hosts
    BY <1>t DEF Call
  <2>1. CASE Receive(c)
    <3>1. /\ UNCHANGED <<proc, host, reg, srcVars, trouble>>
          /\ c.kind \in {"mem", "final", "vmstate"} /\ c.st = "sent"
          /\ Step(c, "ok", NoSlot) \/ Step(c, "err", NoSlot)
      BY <2>1 DEF Receive, slotVars
    <3> QED
      BY <2>0, <3>1, LeftoverQuiet DEF CallStates
  <2>2. CASE FinalizeCheck(c)
    <3>1. /\ UNCHANGED <<proc, host, reg, srcVars, trouble>>
          /\ c.kind = "finalize" /\ c.st = "sent"
          /\ Step(c, "checked", reg[c.to]) \/ Step(c, "err", NoSlot)
          /\ reg[c.to] \in Slots \cup {NoSlot}
      BY <1>t, <2>0, <2>2 DEF FinalizeCheck, slotVars
    <3> QED
      BY <2>0, <3>1, LeftoverQuiet DEF CallStates
  <2>3. CASE FinalizeRun(c)
    <3>1. /\ UNCHANGED <<proc, host, reg, srcVars, trouble>>
          /\ c.kind = "finalize" /\ c.st = "loaded" /\ Step(c, "ok", NoSlot)
      BY <2>3 DEF FinalizeRun
    <3> QED
      BY <2>0, <3>1, LeftoverQuiet DEF CallStates
  <2>4. CASE AbortRemove(c)
    <3>1. /\ UNCHANGED <<proc, host, reg, srcVars, trouble>>
          /\ c.kind = "abort" /\ c.st = "freed" /\ Step(c, "ok", NoSlot)
      BY <2>4 DEF AbortRemove, slotVars
    <3> QED
      BY <2>0, <3>1, LeftoverQuiet DEF CallStates
  <2> QED
    BY <2>1, <2>2, <2>3, <2>4, LeftoverPrepareSpawn, LeftoverPrepareFile, LeftoverFinalizeLoad,
       LeftoverAbortCheck, LeftoverAbortKill, LeftoverAbortFree DEF Handle
<1>4. CASE \E c \in calls : Forget(c)
  BY <1>4, LeftoverForget
<1>5. CASE \E s \in Slots, t \in Hosts : Migrate(s, t)
  BY <1>5, LeftoverMigrate
<1>6. CASE (\E s \in Slots : Cancel(s)) \/ UNCHANGED vars
  <2>1. UNCHANGED <<proc, host, reg, pc, target, attempts, calls>>
    BY <1>6 DEF Cancel, vars, slotVars, srcVars
  <2> QED
    BY <1>t, <1>0, <2>1, LeftoverAside DEF Pending
<1>7. CASE \E h \in Hosts : Create(h)
  BY <1>7, LeftoverCreate
<1>8. CASE \E d \in Deletes : (\E h \in Hosts : DeleteLook(d, h)) \/ Deleting(d)
  BY <1>8, LeftoverDelete, LeftoverDeleteFree DEF Deleting
<1> QED
  BY <1>1, <1>2, <1>3, <1>4, <1>5, <1>6, <1>7, <1>8 DEF Next, Serve, Operate

(* Initially no process waits for a guest.                                 *)
LEMMA LeftoverInit == Init => Leftover
<1> SUFFICES ASSUME Init PROVE Cared
  BY DEF Leftover
<1>1. calls = {} /\ \A x \in Slots : proc[x] # "idle"
  BY DEF Init
<1>2. IInv
  BY IInvInit
<1> QED
  BY <1>1, <1>2 DEF Cared, Waiting, IInv, TypeOK

(* Every process that waits for a guest is cared for (prepare, finalize    *)
(* and the rollback's abort, migrate.go and receive.go).                   *)
THEOREM EveryoneIsCaredFor == Spec => []Leftover
<1>1. IInv /\ RInv /\ Leftover /\ [Next]_vars => Leftover'
  BY IInvStep, LeftoverStep DEF RInv
<1> QED
  BY <1>1, LeftoverInit, Invariance, RegistryInvariance, PTL DEF Spec

(* A migration that is over leaves no process on any host that no registry *)
(* leads to, and none that waits (handleAbort, "tear everything down").    *)
THEOREM NothingIsLeft == Spec => []LeavesNothing
<1>1. IInv /\ RInv /\ Leftover => LeavesNothing
  <2> SUFFICES ASSUME IInv, RInv, Leftover, Tidy PROVE CleanAbort /\ (Quiet => \A s \in Slots :
                 proc[s] \in {"idle", "running", "paused"} => reg[host[s]] = s)
    BY DEF LeavesNothing, Tidy, Excuses, IInv, TypeOK
  <2>1. Unspoilt /\ Cared
    BY DEF Tidy, Unspoilt, Excuses, Leftover
  <2>2. Quiet => \A h \in Hosts : ~Waiting(h)
    BY <2>1 DEF Cared, CaresFor, Mover, Quiet, Requests
  <2>3. CleanAbort
    BY <2>2 DEF CleanAbort, Receiving, Waiting
  <2>4. \A s \in Slots : proc[s] \in {"running", "paused"} => reg[host[s]] = s
    BY <2>1 DEF RInv, Registry, Known, Holders
  <2>5. Quiet => \A s \in Slots : proc[s] = "idle" => reg[host[s]] = s
    BY <2>1 DEF Cared, Quiet
  <2> QED
    BY <2>3, <2>4, <2>5
<1> QED
  BY <1>1, EveryoneIsCaredFor, Invariance, RegistryInvariance, PTL
-----------------------------------------------------------------------------
(* The benchmark.                                                          *)

(* It is at a run, on one of its hosts, and waits for a VM object.         *)
BenchSound ==
  /\ BenchTypeOK
  /\ bsrc \in {HostSeq[1], HostSeq[2]}
  /\ bpc \in {"wait", "boot"} => bvm \in Slots
  /\ bpc = "deleting" => bdel \in Deletes
  /\ bpc \notin {"off", "done"} => brun <= BenchRuns

(* All that it does to the agents: it migrates, gives up, creates, deletes.*)
LEMMA BenchDoes ==
  ASSUME BenchStep, BenchSound
  PROVE  \/ \E s \in Slots, t \in Hosts : Migrate(s, t)
         \/ \E s \in Slots : Cancel(s)
         \/ \E h \in Hosts : Create(h)
         \/ \E d \in Deletes, h \in Hosts : DeleteLook(d, h)
         \/ UNCHANGED vars
<1>1. HostSeq[bk] \in Hosts /\ Other(bsrc) \in Hosts
  BY HostSeqAssumption DEF BenchSound, BenchTypeOK, Other
<1>2. CASE \/ Order \/ MigrateReturns \/ GuestStatus \/ DeleteReturns \/ DeleteGivenUp
           \/ RebootReturns \/ RebootGivenUp
  BY <1>2 DEF Order, MigrateReturns, GuestStatus, DeleteReturns, DeleteGivenUp,
     RebootReturns, RebootGivenUp
<1>3. CASE PostMigrate
  <2>1. Listed(bsrc) => reg[bsrc] \in Slots
    BY DEF Listed, BenchSound, BenchTypeOK, TypeOK
  <2> QED
    BY <1>1, <1>3, <2>1 DEF PostMigrate
<1>4. CASE MigrateGivenUp
  BY <1>4 DEF MigrateGivenUp, BenchSound
<1>5. CASE RebootDelete
  BY <1>1, <1>5 DEF RebootDelete
<1>6. CASE RebootPost
  BY <1>1, <1>6 DEF RebootPost
<1> QED
  BY <1>2, <1>3, <1>4, <1>5, <1>6 DEF BenchStep

(* So the agents' invariant holds for the benchmark's sake as for an       *)
(* operator's.                                                             *)
LEMMA BenchKeepsIInv ==
  ASSUME IInv, BenchSound, [BenchNext]_allVars
  PROVE  IInv'
<1>1. CASE BenchStep
  <2>1. CASE UNCHANGED vars
    BY <2>1, IInvStep
  <2> QED
    BY <1>1, <2>1, BenchDoes, MigrateStep, CancelStep, CreateStep, DeleteLookStep
<1>2. CASE Serve \/ \E s \in Slots : TimeOut(s)
  BY <1>2, IInvStep DEF Next
<1>3. CASE UNCHANGED allVars
  BY <1>3, IInvStep DEF allVars
<1> QED
  BY <1>1, <1>2, <1>3 DEF BenchNext

(* The benchmark's own state is sound.                                     *)
LEMMA BenchSoundStep ==
  ASSUME IInv, BenchSound, [BenchNext]_allVars
  PROVE  BenchSound'
<1>t. TypeOK'
  BY BenchKeepsIInv DEF IInv
<1>b. /\ bk \in 1 .. 2 /\ bsrc \in {HostSeq[1], HostSeq[2]} /\ HostSeq[bk] \in {HostSeq[1], HostSeq[2]}
      /\ Other(bsrc) \in {HostSeq[1], HostSeq[2]} /\ HostSeq[1] \in Hosts /\ HostSeq[2] \in Hosts
      /\ brun \in 1 .. BenchRuns + 1 /\ bmiss \in Nat /\ BenchRuns \in Nat \ {0}
      /\ bvm \in Slots \cup {NoSlot} /\ bdel \in Deletes \cup {NoSlot} /\ bpc \notin {"off", "done"} => brun <= BenchRuns
  BY HostSeqAssumption, BenchRunsAssumption DEF BenchSound, BenchTypeOK, Other
<1>n. /\ \A call, then : NextHost(call, then) => bk' \in 1 .. 2 /\ bpc' \in {call, then}
      /\ (NextRun /\ brun <= BenchRuns) =>
            brun' \in 1 .. BenchRuns + 1 /\ bpc' \in {"migrate", "done"}
            /\ (bpc' # "done" => brun' <= BenchRuns)
      /\ RunFails => bpc' = "delete" /\ bk' = 1 /\ brun' = brun
  BY <1>b DEF NextHost, NextRun, RunFails
<1>1. CASE UNCHANGED benchVars
  BY <1>t, <1>1 DEF benchVars, BenchSound, BenchTypeOK
<1>2. CASE Order
  BY <1>t, <1>b, <1>n, <1>2 DEF Order, NoPlacement, BenchSound, BenchTypeOK
<1>3. CASE PostMigrate
  BY <1>t, <1>b, <1>n, <1>3 DEF PostMigrate, BenchSound, BenchTypeOK, Listed, TypeOK
<1>4. CASE MigrateReturns
  BY <1>t, <1>b, <1>n, <1>4 DEF MigrateReturns, BenchSound, BenchTypeOK
<1>5. CASE MigrateGivenUp
  BY <1>t, <1>b, <1>n, <1>5 DEF MigrateGivenUp, BenchSound, BenchTypeOK
<1>6. CASE GuestStatus
  BY <1>t, <1>b, <1>n, <1>6 DEF GuestStatus, PingPong, BenchSound, BenchTypeOK
<1>7. CASE RebootDelete
  BY <1>t, <1>b, <1>n, <1>7 DEF RebootDelete, BenchSound, BenchTypeOK
<1>11. CASE DeleteReturns
  BY <1>t, <1>b, <1>n, <1>11 DEF DeleteReturns, BenchSound, BenchTypeOK
<1>12. CASE DeleteGivenUp
  BY <1>t, <1>b, <1>n, <1>12 DEF DeleteGivenUp, BenchSound, BenchTypeOK
<1>8. CASE RebootPost
  BY <1>t, <1>b, <1>n, <1>8, NewSlotIsUnused DEF RebootPost, Create, BenchSound, BenchTypeOK
<1>9. CASE RebootReturns
  BY <1>t, <1>b, <1>n, <1>9 DEF RebootReturns, BenchSound, BenchTypeOK
<1>10. CASE RebootGivenUp
  BY <1>t, <1>b, <1>n, <1>10 DEF RebootGivenUp, BenchSound, BenchTypeOK
<1> QED
  BY <1>1, <1>2, <1>3, <1>4, <1>5, <1>6, <1>7, <1>8, <1>9, <1>10, <1>11, <1>12
     DEF BenchNext, BenchStep, allVars, benchVars

(* It is so initially.                                                     *)
LEMMA BenchSoundInit == Init /\ BenchInit => IInv /\ BenchSound
BY IInvInit, HostSeqAssumption, BenchRunsAssumption DEF BenchInit, BenchSound, BenchTypeOK, IInv

(* The types of the benchmark's variables (runBench), and the agents'      *)
(* invariant under its calls.                                              *)
THEOREM BenchInvariance == BenchSpec => [](IInv /\ BenchSound)
<1>1. IInv /\ BenchSound /\ [BenchNext]_allVars => (IInv /\ BenchSound)'
  BY BenchKeepsIInv, BenchSoundStep
<1> QED
  BY <1>1, BenchSoundInit, PTL DEF BenchSpec

(* runBench's variables have their types.                                  *)
THEOREM BenchTypeCorrect == BenchSpec => []BenchTypeOK
<1>1. BenchSound => BenchTypeOK
  BY DEF BenchSound
<1> QED
  BY <1>1, BenchInvariance, PTL

-----------------------------------------------------------------------------
(* Where the guest is while the benchmark runs, none of its calls and no   *)
(* request of its migrations having been lost.                             *)
Cleared == bmiss = 0 /\ ~Excuses(Requests)

(* On h and nowhere else, with nothing going on.                           *)
At(h) == Quiet /\ Listed(h) /\ Holders = {reg[h]}

(* No DELETE is under way.                                                 *)
NoDelete == \A d \in Deletes : del[d].st = "none"

(* With the target, once the snapshot is loaded.                           *)
Arrived(s, h) ==
  /\ reg[h] \in Runners /\ Holders \subseteq {s, reg[h]}
  /\ state[reg[h]] = "running" \/ \E c \in calls : c.kind = "finalize" /\ c.st = "loaded"

(* In the migration of s, which is all that goes on, or at its end.        *)
Moving(s) ==
  /\ s \in Slots /\ reg[bsrc] = s /\ target[s] = Other(bsrc) /\ NoDelete
  /\ pc[s] \in MigPCs \cup {"none"}
  /\ \A x \in Slots \ {s} : pc[x] = "none"
  /\ \A c \in calls : ~c.orphan
  /\ \A c \in calls : (c.kind = "finalize" /\ c.st \in {"checked", "loaded"}) => reg[c.to] = c.slot
  /\ state[s] = "migrated" => proc[s] \notin {"running", "paused"}
  /\ IF HandedOver(s) \/ state[s] = "migrated"
     THEN Arrived(s, Other(bsrc))
     ELSE Holders \subseteq {s}

(* In the boot of s, or at its end.                                        *)
Booted(s) ==
  /\ s \in Slots /\ reg[HostSeq[bk]] = s /\ calls = {} /\ NoDelete
  /\ pc[s] \in {"spawn", "boot", "none"}
  /\ \A x \in Slots \ {s} : pc[x] = "none"
  /\ Holders \subseteq {s}
  /\ (pc[s] = "none" /\ state[s] # "running") => Holders = {}
  /\ bk = 1 => reg[HostSeq[2]] = NoSlot

(* Hosts that a loop of rebootVM has not come to yet.                      *)
Ahead == {HostSeq[k] : k \in bk .. 2}

(* In the DELETE d, which is all that goes on, or at its end.              *)
Clearing(d) ==
  LET h == HostSeq[bk] IN
  /\ d \in Deletes /\ calls = {} /\ \A x \in Slots : pc[x] = "none"
  /\ \A e \in Deletes \ {d} : del[e].st = "none"
  /\ \A x \in Holders : \E a \in Ahead : reg[a] = x
  /\ bk = 2 => reg[HostSeq[1]] = NoSlot
  /\ IF del[d].st = "none" THEN reg[h] = NoSlot ELSE del[d].host = h /\ del[d].slot = reg[h]
  /\ del[d].st \in {"killed", "dead"} => reg[h] \notin Holders

Whereabouts ==
  /\ bpc = "order" => \E h \in Hosts : At(h)
  /\ bpc = "migrate" => At(bsrc)
  /\ bpc = "wait" => Moving(bvm)
  /\ bpc = "status" => At(Other(bsrc))
  /\ bpc = "delete" => /\ Quiet /\ \A x \in Holders : \E h \in Ahead : reg[h] = x
                       /\ bk = 2 => reg[HostSeq[1]] = NoSlot
  /\ bpc = "deleting" => Clearing(bdel)
  /\ bpc = "post" => Quiet /\ Holders = {} /\ \A h \in Ahead : reg[h] = NoSlot
  /\ bpc = "boot" => Booted(bvm)
  /\ bpc = "reorder" => Quiet /\ Holders = {}

BenchKnows == Cleared => Whereabouts

(* Nothing goes on by itself once migrations and boots are over.           *)
LEMMA QuietStays ==
  ASSUME Quiet, Serve \/ \E s \in Slots : TimeOut(s)
  PROVE  FALSE
BY DEF Quiet, Serve, TimeOut, Source, Booting, Send, ReadReply, FailsAtOnce, Pause, SucceedKill,
       Succeed, Resume, BootSpawn, Boot, Deleting, DeleteKill, DeleteState, DeleteFree, Pending,
       Requests

(* The one request of the one migration.                                   *)
LEMMA OneRequest ==
  ASSUME IInv, NEW s \in Slots, Moving(s), NEW c \in calls
  PROVE  /\ ~c.orphan /\ c.from = s /\ c.kind = pc[s] /\ c.to = target[s]
         /\ calls = {c} /\ Pending(s) = {c} /\ pc[s] \in Requests
<1>1. \A e \in calls : e.from = s /\ e.kind = pc[s] /\ e.to = target[s] /\ ~e.orphan
                       /\ pc[s] \in Requests
  BY DEF Moving, IInv, CallSound, TypeOK, Call, Requests
<1> QED
  BY <1>1 DEF IInv, CallsApart, Pending

(* The source of the one migration.                                        *)
LEMMA MovingSource ==
  ASSUME IInv, IInv', BenchSound, NEW s \in Slots, Moving(s),
         NEW x \in Slots, Source(x) \/ TimeOut(x), bsrc' = bsrc, ~Excuses(Requests)'
  PROVE  Moving(s)'
<1>t. /\ pc \in [Slots -> PCs] /\ proc \in [Slots -> Procs] /\ calls \subseteq Call
      /\ state \in [Slots -> States] /\ reg \in [Hosts -> Slots \cup {NoSlot}]
      /\ host \in [Slots -> Hosts] /\ bsrc' = bsrc
  BY DEF IInv, TypeOK
<1>0. x = s
  <2>1. pc[x] # "none"
    BY OneRequest DEF Source, TimeOut, Send, ReadReply, FailsAtOnce, Pause, SucceedKill, Succeed,
       Resume, Pending, Requests
  <2> QED
    BY <2>1 DEF Moving
<1>1. pc[s] \in MigPCs => state[s] # "migrated"
  BY DEF IInv, SlotSound
<1>2. Pending(s) = calls
  BY OneRequest DEF Pending
<1>3. CASE Send(s)
  <2>1. PICK d : /\ calls' = calls \cup {d}
                 /\ d.from = s /\ d.kind = pc[s] /\ d.to = target[s] /\ d.att = att[s]
                 /\ d.slot = NoSlot /\ d.st = "sent" /\ ~d.orphan
    BY <1>3, SendAdds
  <2>2. UNCHANGED <<state, proc, host, reg, pc, target, del>> /\ calls = {} /\ pc[s] \in Requests
    BY <1>2, <1>3 DEF Send, slotVars, srcVars
  <2>3. ~HandedOver(s) /\ ~HandedOver(s)'
    BY <2>1, <2>2 DEF HandedOver, Pending, Requests
  <2>4. state[s] # "migrated" /\ Holders' = Holders
    BY <1>1, <2>2 DEF MigPCs, Holders
  <2> QED
    BY <1>t, <2>1, <2>2, <2>3, <2>4 DEF Moving, NoDelete, Other
<1>4. CASE ReadReply(s)
  <2>1. PICK c \in Pending(s) :
          /\ c.st \in {"ok", "err"}
          /\ pc' = [pc EXCEPT ![s] = IF c.st = "ok" THEN AfterReply[@] ELSE AfterError(@)]
          /\ calls' = calls \ {c}
    BY <1>4 DEF ReadReply
  <2>2. /\ calls = {c} /\ calls' = {} /\ c.kind = pc[s] /\ pc[s] \in Requests /\ Pending(s) = {c}
        /\ UNCHANGED <<state, proc, host, reg, target, del>>
    BY <1>2, <1>4, <2>1, OneRequest DEF ReadReply, slotVars
  <2>3. /\ pc'[s] \in MigPCs /\ \A y \in Slots \ {s} : pc'[y] = pc[y]
        /\ pc'[s] = "success" <=> (pc[s] = "finalize" /\ c.st = "ok")
    BY <1>t, <2>1, <2>2 DEF AfterReply, AfterError, Requests, MigPCs
  <2>4. HandedOver(s)' <=> HandedOver(s)
    BY <2>1, <2>2, <2>3 DEF HandedOver, Pending, Requests
  <2>5. Holders' = Holders /\ Runners' = Runners
    BY <2>2 DEF Holders, Runners
  <2>6. Arrived(s, Other(bsrc)) => Arrived(s, Other(bsrc))'
    BY <1>t, <2>1, <2>2, <2>5 DEF Arrived, Other
  <2> QED
    BY <1>t, <2>2, <2>3, <2>4, <2>5, <2>6 DEF Moving, NoDelete, Other
<1>5. CASE Abandon(s) /\ pc[s] \in Requests
  <2>1. calls = {}
    <3> SUFFICES ASSUME NEW c \in calls PROVE FALSE
      OBVIOUS
    <3>1. c \in Pending(s) /\ c.kind \in Requests
      BY <1>2, <1>5, OneRequest
    <3> QED
      BY <1>5, <3>1 DEF Abandon, Excuses
  <2>2. calls' = {} /\ UNCHANGED <<state, proc, host, reg, target, del>>
        /\ pc' = [pc EXCEPT ![s] = AfterError(@)]
    BY <1>2, <1>5, <2>1 DEF Abandon, slotVars
  <2>3. pc'[s] \in {"abort", "resume"} /\ \A y \in Slots \ {s} : pc'[y] = pc[y]
    BY <1>t, <2>2 DEF AfterError
  <2>4. ~HandedOver(s) /\ ~HandedOver(s)'
    BY <1>5, <2>1, <2>2, <2>3 DEF HandedOver, Pending, Requests
  <2>5. state[s] # "migrated" /\ Holders' = Holders
    BY <1>1, <1>5, <2>2 DEF MigPCs, Holders
  <2> QED
    BY <1>t, <2>2, <2>3, <2>4, <2>5 DEF Moving, NoDelete, Other, MigPCs, Requests
<1>6. CASE Pause(s) \/ Resume(s)
  <2>1. /\ UNCHANGED <<host, reg, target, del, calls>> /\ pc[s] \in {"pause", "resume"}
        /\ pc'[s] \in {"final", "abort", "none"}
        /\ \A y \in Slots \ {s} : pc'[y] = pc[y] /\ proc'[y] = proc[y]
        /\ state'[s] # "migrated"
    BY <1>t, <1>1, <1>6 DEF Pause, Resume, MigPCs
  <2>2. calls = {} /\ calls' = {}
    BY <2>1, OneRequest DEF Requests
  <2>3. ~HandedOver(s) /\ ~HandedOver(s)'
    BY <2>1, <2>2 DEF HandedOver, Pending
  <2>4. Holders \subseteq {s}
    BY <1>1, <2>1, <2>3 DEF Moving, MigPCs
  <2>5. Holders' \subseteq {s}
    BY <2>1, <2>4 DEF Holders
  <2> QED
    BY <1>t, <2>1, <2>2, <2>3, <2>5 DEF Moving, NoDelete, Other, MigPCs, Requests
<1>7. CASE SucceedKill(s) \/ Succeed(s)
  <2>1. /\ UNCHANGED <<host, reg, target, del, calls>> /\ pc[s] = "success"
        /\ \A y \in Slots \ {s} : pc'[y] = pc[y] /\ proc'[y] = proc[y] /\ state'[y] = state[y]
        /\ \/ pc' = pc /\ state' = state
           \/ pc'[s] = "none" /\ state'[s] = "migrated" /\ proc'[s] = "killed"
    BY <1>t, <1>7 DEF SucceedKill, Succeed, srcVars
  <2>2. calls = {} /\ calls' = {}
    BY <2>1, OneRequest DEF Requests
  <2>3. Arrived(s, Other(bsrc))
    BY <2>1 DEF Moving, HandedOver
  <2>4. bsrc \in Hosts /\ Other(bsrc) \in Hosts /\ Other(bsrc) # bsrc
    BY HostSeqAssumption DEF BenchSound, Other
  <2>5. reg[Other(bsrc)] # s
    BY <2>4, SlotsAssumption DEF Moving, IInv, RegSound
  <2>6. Arrived(s, Other(bsrc))'
    BY <1>t, <2>1, <2>2, <2>3, <2>5 DEF Arrived, Runners, Holders, Other
  <2>7. HandedOver(s)' \/ state'[s] = "migrated"
    BY <2>1 DEF HandedOver
  <2>8. state'[s] = "migrated" => proc'[s] \notin {"running", "paused"}
    BY <1>1, <2>1 DEF MigPCs
  <2>9. pc'[s] \in MigPCs \cup {"none"}
    BY <2>1 DEF MigPCs
  <2> QED
    BY <1>t, <2>1, <2>2, <2>6, <2>7, <2>8, <2>9 DEF Moving, NoDelete, Other
<1> QED
  <2>1. TimeOut(s) => Abandon(s) /\ pc[s] \in Requests
    BY OneRequest DEF TimeOut, Pending
  <2> QED
    BY <1>0, <1>3, <1>4, <1>5, <1>6, <1>7, <2>1 DEF Source, FailsAtOnce

(* A handler of anything but finalize.                                     *)
LEMMA MovingOther ==
  ASSUME IInv, IInv', BenchSound, NEW s \in Slots, Moving(s), NEW c \in calls, c.kind # "finalize",
         NEW st \in CallStates,
         NEW n \in Slots \cup {NoSlot}, Step(c, st, n), UNCHANGED srcVars, bsrc' = bsrc,
         reg'[bsrc] = reg[bsrc], state'[s] = state[s], Holders' \subseteq Holders
  PROVE  Moving(s)'
<1>0. calls \subseteq Call
  BY DEF IInv, TypeOK
<1>1. PICK d \in Call :
        /\ calls' = (calls \ {c}) \cup {d}
        /\ d.st = st /\ d.slot = n
        /\ d.from = c.from /\ d.kind = c.kind /\ d.to = c.to /\ d.att = c.att
        /\ d.orphan = c.orphan
  BY <1>0, StepReplaces
<1>2. /\ ~c.orphan /\ c.kind = pc[s] /\ pc[s] \in Requests /\ calls' = {d}
      /\ UNCHANGED <<pc, target, del>> /\ bsrc' = bsrc
  BY <1>1, OneRequest DEF srcVars
<1>3. state[s] # "migrated"
  BY <1>2 DEF IInv, SlotSound, MigPCs
<1>4. ~HandedOver(s) /\ ~HandedOver(s)'
  BY <1>1, <1>2, OneRequest DEF HandedOver, Pending, Requests
<1> QED
  BY <1>1, <1>2, <1>3, <1>4 DEF Moving, NoDelete, Other

(* handleFinalize.                                                         *)
LEMMA MovingFinalize ==
  ASSUME IInv, IInv', BenchSound, NEW s \in Slots, Moving(s), NEW c \in calls,
         FinalizeCheck(c) \/ FinalizeLoad(c) \/ FinalizeRun(c), bsrc' = bsrc, ~Excuses(Requests)'
  PROVE  Moving(s)'
<1>t. /\ proc \in [Slots -> Procs] /\ calls \subseteq Call /\ c.slot \in Slots \cup {NoSlot}
      /\ state \in [Slots -> States] /\ reg \in [Hosts -> Slots \cup {NoSlot}]
      /\ c.to \in Hosts /\ reg[c.to] \in Slots \cup {NoSlot} /\ bsrc' = bsrc
  BY DEF IInv, TypeOK, Call
<1>0. /\ ~c.orphan /\ c.from = s /\ c.kind = "finalize" /\ pc[s] = "finalize"
      /\ c.to = Other(bsrc) /\ calls = {c} /\ Pending(s) = {c}
      /\ UNCHANGED <<host, reg, pc, target, del>>
  BY OneRequest DEF FinalizeCheck, FinalizeLoad, FinalizeRun, slotVars, srcVars, Moving
<1>h. bsrc \in Hosts /\ Other(bsrc) \in Hosts /\ Other(bsrc) # bsrc
  BY HostSeqAssumption DEF BenchSound, Other
<1>s. state[s] # "migrated" /\ reg[Other(bsrc)] # s
  BY <1>0, <1>h, SlotsAssumption DEF IInv, SlotSound, MigPCs, Moving, RegSound
<1>p. HandedOver(s) <=> c.st \in {"loaded", "ok"}
  BY <1>0 DEF HandedOver
<1>r. ASSUME NEW st \in {"checked", "loaded", "ok", "err"}, NEW n \in Slots \cup {NoSlot},
             Step(c, st, n)
      PROVE  \E d : /\ calls' = {d} /\ d.st = st /\ d.slot = n /\ d.from = s /\ d.to = c.to
                    /\ d.kind = "finalize" /\ ~d.orphan
                    /\ HandedOver(s)' <=> st \in {"loaded", "ok"}
  <2>1. st \in CallStates
    BY DEF CallStates
  <2>2. PICK d \in Call :
          /\ calls' = (calls \ {c}) \cup {d}
          /\ d.st = st /\ d.slot = n
          /\ d.from = c.from /\ d.kind = c.kind /\ d.to = c.to /\ d.att = c.att
          /\ d.orphan = c.orphan
    BY <1>t, <1>r, <2>1, StepReplaces
  <2>3. calls' = {d} /\ Pending(s)' = {d}
    BY <1>0, <2>2 DEF Pending
  <2>4. HandedOver(s)' <=> st \in {"loaded", "ok"}
    BY <1>0, <2>2, <2>3 DEF HandedOver
  <2> QED
    BY <1>0, <2>2, <2>3, <2>4
<1>1. CASE FinalizeCheck(c)
  <2>1. /\ UNCHANGED <<state, proc>> /\ c.st = "sent"
        /\ Step(c, "checked", reg[c.to]) \/ Step(c, "err", NoSlot)
    BY <1>1 DEF FinalizeCheck, slotVars
  <2>2. PICK d : /\ calls' = {d} /\ d.st \in {"checked", "err"} /\ d.to = c.to /\ ~d.orphan
                 /\ d.st = "checked" => d.slot = reg[c.to]
                 /\ ~HandedOver(s)'
    BY <1>t, <1>r, <2>1
  <2>3. Holders' = Holders /\ Holders \subseteq {s}
    BY <1>p, <1>s, <2>1 DEF Holders, Moving
  <2> QED
    BY <1>t, <1>0, <1>s, <2>1, <2>2, <2>3 DEF Moving, NoDelete, Other
<1>2. CASE FinalizeLoad(c)
  <2>1. /\ UNCHANGED state /\ c.st = "checked" /\ c.slot \in Slots /\ reg[c.to] = c.slot
    BY <1>0, <1>2 DEF FinalizeLoad, IInv, CallSound, Moving
  <2>2. Holders \subseteq {s}
    BY <1>p, <1>s, <2>1 DEF Moving
  <2>3. CASE Step(c, "loaded", c.slot) /\ proc' = [proc EXCEPT ![c.slot] = "running"]
    <3>1. PICK d : /\ calls' = {d} /\ d.st = "loaded" /\ d.to = c.to /\ ~d.orphan
                   /\ d.slot = c.slot /\ d.kind = "finalize" /\ HandedOver(s)'
      BY <1>t, <1>r, <2>3
    <3>2. c.slot \in Runners' /\ Holders' \subseteq {s, c.slot}
      BY <1>t, <2>1, <2>2, <2>3 DEF Runners, Holders
    <3>3. Arrived(s, Other(bsrc))'
      BY <1>t, <1>0, <2>1, <3>1, <3>2 DEF Arrived, Other
    <3> QED
      BY <1>t, <1>0, <1>s, <2>1, <3>1, <3>3 DEF Moving, NoDelete, Other
  <2>4. CASE Step(c, "err", NoSlot) /\ UNCHANGED proc
    <3>1. PICK d : calls' = {d} /\ d.st = "err" /\ ~d.orphan /\ ~HandedOver(s)'
      BY <1>r, <2>4
    <3>2. Holders' \subseteq {s}
      BY <2>2, <2>4 DEF Holders
    <3> QED
      BY <1>t, <1>0, <1>s, <2>1, <3>1, <3>2 DEF Moving, NoDelete, Other
  <2>5. "finalize" \notin trouble'
    BY DEF Excuses, Requests
  <2> QED
    BY <1>2, <2>3, <2>4, <2>5 DEF FinalizeLoad
<1>3. CASE FinalizeRun(c)
  <2>1. /\ UNCHANGED proc /\ c.st = "loaded" /\ c.slot \in Slots /\ reg[c.to] = c.slot
        /\ state' = [state EXCEPT ![c.slot] = "running"] /\ Step(c, "ok", NoSlot)
    BY <1>0, <1>3 DEF FinalizeRun, IInv, CallSound, Moving
  <2>2. PICK d : calls' = {d} /\ d.st = "ok" /\ ~d.orphan /\ HandedOver(s)'
    BY <1>r, <2>1
  <2>3. Arrived(s, Other(bsrc))
    BY <1>p, <2>1 DEF Moving
  <2>4. Runners' = Runners /\ Holders' = Holders
    BY <2>1 DEF Runners, Holders
  <2>5. Arrived(s, Other(bsrc))'
    BY <1>t, <1>0, <2>1, <2>3, <2>4 DEF Arrived, Other
  <2>6. state'[s] = state[s]
    BY <1>0, <1>s, <1>t, <2>1
  <2> QED
    BY <1>t, <1>0, <1>s, <2>1, <2>2, <2>5, <2>6 DEF Moving, NoDelete, Other
<1> QED
  BY <1>1, <1>2, <1>3

(* The agents during a migration of the benchmark.                         *)
LEMMA MovingServe ==
  ASSUME IInv, IInv', BenchSound, NEW s \in Slots, Moving(s),
         Serve \/ \E x \in Slots : TimeOut(x), bsrc' = bsrc, ~Excuses(Requests)'
  PROVE  Moving(s)'
<1>t. /\ proc \in [Slots -> Procs] /\ state \in [Slots -> States] /\ calls \subseteq Call
      /\ reg \in [Hosts -> Slots \cup {NoSlot}] /\ NoSlot \in Slots \cup {NoSlot}
  BY DEF IInv, TypeOK
<1>h. bsrc \in Hosts /\ Other(bsrc) \in Hosts /\ Other(bsrc) # bsrc
  BY HostSeqAssumption DEF BenchSound, Other
<1>1. CASE \E x \in Slots : Source(x) \/ TimeOut(x)
  BY <1>1, MovingSource
<1>2. CASE \E x \in Slots : Booting(x)
  BY <1>2 DEF Booting, BootSpawn, Boot, Moving, MigPCs, Requests
<1>3. CASE \E c \in calls : Handle(c)
  <2> PICK c \in calls : Handle(c)
    BY <1>3
  <2>0. /\ c.kind = pc[s] /\ pc[s] \in Requests /\ c.to = Other(bsrc)
        /\ c.slot \in Slots \cup {NoSlot} /\ reg[c.to] \in Slots \cup {NoSlot}
    BY <1>t, <1>h, OneRequest DEF Moving, Call
  <2>1. CASE PrepareSpawn(c)
    <3>1. NewSlot \in Slots /\ proc[NewSlot] \in {"none", "killed"} /\ NewSlot # s
      BY <2>0, <2>1, NewSlotIsUnused DEF PrepareSpawn, Requests
    <3>2. /\ c.kind # "finalize" /\ UNCHANGED <<reg, srcVars>>
          /\ state' = [state EXCEPT ![NewSlot] = "receiving"]
          /\ proc' = [proc EXCEPT ![NewSlot] = "idle"]
          /\ Step(c, "spawned", NewSlot) \/ Step(c, "err", NoSlot)
      BY <2>1 DEF PrepareSpawn
    <3>3. Holders' \subseteq Holders /\ state'[s] = state[s]
      BY <1>t, <3>1, <3>2 DEF Holders
    <3>4. ASSUME NEW st \in {"spawned", "err"}, NEW n \in Slots \cup {NoSlot}, Step(c, st, n)
          PROVE  Moving(s)'
      <4>1. st \in CallStates
        BY DEF CallStates
      <4> QED
        BY <3>2, <3>3, <3>4, <4>1, MovingOther
    <3> QED
      BY <1>t, <3>1, <3>2, <3>4
  <2>2. CASE PrepareFile(c)
    <3>1. /\ c.kind # "finalize" /\ UNCHANGED <<state, srcVars>>
          /\ Step(c, "ok", NoSlot) \/ Step(c, "err", NoSlot)
          /\ reg' = [reg EXCEPT ![c.to] = c.slot] \/ UNCHANGED reg
          /\ \A x \in Slots : proc'[x] \in {proc[x], "none", "killed"}
      BY <1>t, <2>2 DEF PrepareFile, Killed
    <3>2. Holders' \subseteq Holders /\ state'[s] = state[s] /\ reg'[bsrc] = reg[bsrc]
      BY <1>t, <1>h, <2>0, <3>1 DEF Holders
    <3> QED
      BY <1>t, <3>1, <3>2, MovingOther DEF CallStates
  <2>3. CASE Receive(c) \/ AbortCheck(c) \/ AbortRemove(c)
    <3>1. /\ c.kind # "finalize" /\ UNCHANGED <<state, proc, reg, srcVars>>
          /\ Step(c, "ok", NoSlot) \/ Step(c, "err", NoSlot) \/ Step(c, "checked", reg[c.to])
      BY <2>3 DEF Receive, AbortCheck, AbortRemove, slotVars
    <3>2. Holders' \subseteq Holders /\ state'[s] = state[s] /\ reg'[bsrc] = reg[bsrc]
      BY <3>1 DEF Holders
    <3> QED
      BY <1>t, <2>0, <3>1, <3>2, MovingOther DEF CallStates
  <2>4. CASE AbortKill(c)
    <3>1. /\ c.kind # "finalize" /\ UNCHANGED <<state, reg, srcVars>> /\ Step(c, "killed", c.slot)
          /\ proc' = [proc EXCEPT ![c.slot] = Killed(@)]
      BY <2>4 DEF AbortKill
    <3>2. Holders' \subseteq Holders /\ state'[s] = state[s] /\ reg'[bsrc] = reg[bsrc]
      BY <1>t, <1>h, <2>0, <3>1 DEF Holders, Killed
    <3> QED
      BY <1>t, <2>0, <3>1, <3>2, MovingOther DEF CallStates
  <2>5. CASE AbortFree(c)
    <3>1. /\ c.kind # "finalize" /\ UNCHANGED <<state, proc, srcVars>> /\ Step(c, "freed", NoSlot)
          /\ reg' = [reg EXCEPT ![c.to] = NoSlot]
      BY <2>5 DEF AbortFree, slotVars
    <3>2. Holders' \subseteq Holders /\ state'[s] = state[s] /\ reg'[bsrc] = reg[bsrc]
      BY <1>t, <1>h, <2>0, <3>1 DEF Holders
    <3> QED
      BY <1>t, <3>1, <3>2, MovingOther DEF CallStates
  <2> QED
    BY <2>1, <2>2, <2>3, <2>4, <2>5, MovingFinalize DEF Handle
<1>4. CASE \E c \in calls : Forget(c)
  BY <1>4 DEF Forget, Moving
<1>5. CASE \E d \in Deletes : Deleting(d)
  BY <1>5 DEF Deleting, DeleteKill, DeleteState, DeleteFree, Moving, NoDelete
<1> QED
  BY <1>1, <1>2, <1>3, <1>4, <1>5 DEF Serve

(* The agents during a boot.                                               *)
LEMMA BootedServe ==
  ASSUME IInv, IInv', NEW s \in Slots, Booted(s),
         Serve \/ \E x \in Slots : TimeOut(x), bk' = bk
  PROVE  Booted(s)'
<1>t. /\ proc \in [Slots -> Procs] /\ state \in [Slots -> States] /\ pc \in [Slots -> PCs]
  BY DEF IInv, TypeOK
<1>1. Booting(s)
  <2>1. /\ pc[s] \in {"spawn", "boot", "none"} /\ calls = {} /\ \A x \in Slots \ {s} : pc[x] = "none"
        /\ \A d \in Deletes : del[d].st = "none"
    BY DEF Booted, NoDelete
  <2>2. \A x \in Slots : ~Source(x) /\ ~TimeOut(x)
    BY <2>1 DEF TimeOut, Source, Send, ReadReply, FailsAtOnce, Pause, SucceedKill, Succeed,
       Resume, Pending, Requests
  <2>3. \A x \in Slots \ {s} : ~Booting(x)
    BY <2>1 DEF Booting, BootSpawn, Boot
  <2>4. \A d \in Deletes : ~Deleting(d)
    BY <2>1 DEF Deleting, DeleteKill, DeleteState, DeleteFree
  <2> QED
    BY <2>1, <2>2, <2>3, <2>4 DEF Serve
<1>2. CASE BootSpawn(s)
  <2>1. /\ proc' = [proc EXCEPT ![s] = "running"] /\ pc' = [pc EXCEPT ![s] = "boot"]
        /\ UNCHANGED <<reg, del, calls>>
    BY <1>2 DEF BootSpawn
  <2>2. Holders' \subseteq {s}
    BY <1>t, <2>1 DEF Holders, Booted
  <2> QED
    BY <1>t, <2>1, <2>2 DEF Booted, NoDelete
<1>3. CASE Boot(s)
  <2>1. /\ pc' = [pc EXCEPT ![s] = "none"] /\ UNCHANGED <<reg, del, calls>>
        /\ \/ state' = [state EXCEPT ![s] = "running"] /\ UNCHANGED proc
           \/ proc' = [proc EXCEPT ![s] = Killed(@)]
    BY <1>3 DEF Boot
  <2>2. Holders' \subseteq {s} /\ (state'[s] # "running" => Holders' = {})
    BY <1>t, <2>1 DEF Holders, Booted, Killed
  <2> QED
    BY <1>t, <2>1, <2>2 DEF Booted, NoDelete
<1> QED
  BY <1>1, <1>2, <1>3 DEF Booting

(* An agent that lists the guest when it is on h is h's.                   *)
LEMMA ListedThere ==
  ASSUME IInv, NEW h \in Hosts, At(h), NEW g \in Hosts, Listed(g)
  PROVE  g = h
<1>1. reg[g] \in Slots /\ proc[reg[g]] = "running" /\ host[reg[g]] = g
  BY DEF Listed, IInv, RegSound, TypeOK, Fallen, Doomed, At, Quiet
<1>2. reg[g] = reg[h]
  BY <1>1 DEF At, Holders
<1> QED
  BY <1>1, <1>2 DEF At, Listed, IInv, RegSound

(* It is listed on no host while no process has it.                        *)
LEMMA ListedNowhere ==
  ASSUME IInv, Quiet, Holders = {}, NEW g \in Hosts
  PROVE  ~Listed(g)
BY DEF Listed, IInv, RegSound, TypeOK, Holders, Quiet, Fallen, Doomed

(* The agents during a DELETE.                                             *)
LEMMA ClearingServe ==
  ASSUME IInv, IInv', BenchSound, NEW d \in Deletes, Clearing(d),
         Serve \/ \E x \in Slots : TimeOut(x), bk' = bk
  PROVE  Clearing(d)'
<1> DEFINE h == HostSeq[bk]
<1>t. /\ proc \in [Slots -> Procs] /\ reg \in [Hosts -> Slots \cup {NoSlot}] /\ h \in Hosts
      /\ del \in [Deletes -> DelRequest] /\ HostSeq[1] \in Hosts /\ Ahead' = Ahead
      /\ NoSlot \notin Slots /\ Ahead \subseteq Hosts
  <2>1. HostSeq[1] \in Hosts /\ HostSeq[2] \in Hosts /\ bk \in 1 .. 2
    BY HostSeqAssumption DEF BenchSound, BenchTypeOK
  <2>2. h \in Hosts
    BY <2>1
  <2>3. Ahead' = Ahead /\ Ahead \subseteq Hosts
    BY <2>1 DEF Ahead
  <2> QED
    BY <2>1, <2>2, <2>3, SlotsAssumption DEF IInv, TypeOK
<1>c. /\ calls = {} /\ \A x \in Slots : pc[x] = "none"
      /\ \A e \in Deletes \ {d} : del[e].st = "none"
      /\ \A x \in Holders : \E a \in Ahead : reg[a] = x
      /\ bk = 2 => reg[HostSeq[1]] = NoSlot
  BY DEF Clearing
<1>1. Deleting(d)
  <2>1. \A x \in Slots : ~Source(x) /\ ~TimeOut(x) /\ ~Booting(x)
    BY <1>c DEF TimeOut, Source, Send, ReadReply, FailsAtOnce, Pause, SucceedKill, Succeed,
       Resume, Booting, BootSpawn, Boot, Pending, Requests
  <2>2. \A e \in Deletes \ {d} : ~Deleting(e)
    BY <1>c DEF Deleting, DeleteKill, DeleteState, DeleteFree
  <2> QED
    BY <1>c, <2>1, <2>2 DEF Serve
<1>2. del[d].st # "none" /\ del[d].host = h /\ del[d].slot = reg[h]
  BY <1>1 DEF Deleting, DeleteKill, DeleteState, DeleteFree, Clearing
<1>3. CASE DeleteKill(d)
  <2>1. /\ proc' = [proc EXCEPT ![reg[h]] = Killed(@)] /\ reg[h] \in Slots
        /\ del' = [del EXCEPT ![d].st = "killed"] /\ UNCHANGED <<reg, pc, calls>>
    BY <1>t, <1>2, <1>3 DEF DeleteKill
  <2>2. Holders' \subseteq Holders /\ reg[h] \notin Holders'
    BY <1>t, <2>1 DEF Holders, Killed
  <2> QED
    BY <1>t, <1>c, <1>2, <2>1, <2>2 DEF Clearing, DelRequest
<1>4. CASE DeleteState(d)
  <2>1. /\ del' = [del EXCEPT ![d].st = "dead"] /\ UNCHANGED <<proc, reg, pc, calls>>
        /\ del[d].st = "killed" /\ reg[h] \notin Holders
    BY <1>4 DEF DeleteState, Clearing
  <2>2. Holders' = Holders
    BY <2>1 DEF Holders
  <2> QED
    BY <1>t, <1>c, <1>2, <2>1, <2>2 DEF Clearing, DelRequest
<1>5. CASE DeleteFree(d)
  <2>1. /\ reg' = [reg EXCEPT ![h] = NoSlot] /\ UNCHANGED <<proc, pc, calls>>
        /\ del' = [del EXCEPT ![d].st = "none", ![d].slot = NoSlot]
    BY <1>2, <1>5 DEF DeleteFree, slotVars
  <2>2. Holders' = Holders /\ reg[h] \notin Holders
    BY <1>t, <1>2, <1>5, <2>1 DEF Holders, DeleteFree, Clearing
  <2>3. \A x \in Holders : \E a \in Ahead : reg'[a] = x
    BY <1>t, <1>c, <2>1, <2>2
  <2> QED
    BY <1>t, <1>c, <2>1, <2>2, <2>3 DEF Clearing, DelRequest
<1> QED
  BY <1>1, <1>3, <1>4, <1>5 DEF Deleting

(* The benchmark's steps, call by call.                                    *)
LEMMA KnowsBench ==
  ASSUME IInv, IInv', BenchSound, BenchSound', Whereabouts, BenchStep, bmiss' = bmiss
  PROVE  Whereabouts'
<1>b. /\ bk \in {1, 2} /\ bsrc \in {HostSeq[1], HostSeq[2]}
      /\ HostSeq[1] \in Hosts /\ HostSeq[2] \in Hosts /\ HostSeq[1] # HostSeq[2]
      /\ HostSeq[bk] \in Hosts /\ bsrc \in Hosts
      /\ Other(bsrc) \in {HostSeq[1], HostSeq[2]} /\ Other(bsrc) # bsrc
      /\ bmiss \in Nat /\ bmiss + 1 # bmiss
  BY HostSeqAssumption DEF BenchSound, BenchTypeOK, Other
<1>a. /\ bk = 1 => Ahead = {HostSeq[1], HostSeq[2]}
      /\ bk = 2 => Ahead = {HostSeq[2]}
      /\ bk' = 1 => Ahead' = {HostSeq[1], HostSeq[2]}
      /\ bk' = 2 => Ahead' = {HostSeq[2]}
  BY DEF Ahead
<1>t. /\ proc \in [Slots -> Procs] /\ state \in [Slots -> States] /\ pc \in [Slots -> PCs]
      /\ reg \in [Hosts -> Slots \cup {NoSlot}] /\ calls \subseteq Call /\ target \in [Slots -> Hosts]
      /\ del \in [Deletes -> DelRequest]
  BY DEF IInv, TypeOK
<1>u. ASSUME UNCHANGED vars
      PROVE  /\ Holders' = Holders /\ (Quiet' <=> Quiet) /\ reg' = reg
             /\ \A h \in Hosts : At(h)' <=> At(h)
  <2>1. UNCHANGED <<state, proc, reg, pc, del, calls>>
    BY <1>u DEF vars, slotVars, srcVars
  <2>2. Holders' = Holders /\ (Quiet' <=> Quiet)
    BY <2>1 DEF Holders, Quiet
  <2> QED
    BY <2>1, <2>2 DEF At, Listed
<1>n. /\ NextRun => bpc' \in {"migrate", "done"}
      /\ RunFails => bpc' = "delete" /\ bk' = 1
  BY DEF NextRun, RunFails
<1>1. CASE Order
  <2>1. CASE bpc = "order"
    <3>1. PICK h \in Hosts : At(h)
      BY <2>1 DEF Whereabouts
    <3>2. /\ UNCHANGED vars
          /\ \/ Listed(HostSeq[bk]) /\ bsrc' = HostSeq[bk] /\ bpc' = "migrate"
             \/ bpc' \in {"order", "fatal"}
      BY <1>1, <2>1 DEF Order, NextHost, NoPlacement
    <3>3. At(h)'
      BY <1>u, <3>1, <3>2
    <3> QED
      BY <1>b, <3>1, <3>2, <3>3, ListedThere DEF Whereabouts
  <2>2. CASE bpc = "reorder"
    <3>1. Quiet /\ Holders = {} /\ ~Listed(HostSeq[bk])
      BY <1>b, <2>2, ListedNowhere DEF Whereabouts
    <3>2. UNCHANGED vars /\ bpc' \in {"reorder", "fatal"}
      BY <1>1, <2>2, <3>1 DEF Order, NextHost, NoPlacement
    <3> QED
      BY <1>u, <3>1, <3>2 DEF Whereabouts
  <2> QED
    BY <1>1, <2>1, <2>2 DEF Order
<1>2. CASE PostMigrate
  <2>1. At(bsrc) /\ Listed(bsrc) /\ reg[bsrc] \in Slots
    BY <1>2, <1>b, <1>t DEF PostMigrate, Whereabouts, At, Listed
  <2>2. /\ Migrate(reg[bsrc], Other(bsrc)) /\ bvm' = reg[bsrc] /\ bpc' = "wait" /\ bsrc' = bsrc
    BY <1>2, <1>b, <2>1 DEF PostMigrate
  <2>3. /\ pc' = [pc EXCEPT ![reg[bsrc]] = "prepare"]
        /\ state' = [state EXCEPT ![reg[bsrc]] = "migrating"]
        /\ target' = [target EXCEPT ![reg[bsrc]] = Other(bsrc)]
        /\ UNCHANGED <<proc, reg, del, calls>>
    BY <2>2 DEF Migrate
  <2>4. /\ calls' = {} /\ Holders' = {reg[bsrc]} /\ \A x \in Slots : pc[x] = "none"
        /\ NoDelete'
    BY <2>1, <2>3 DEF At, Quiet, Holders, NoDelete
  <2> PICK s \in Slots : s = reg[bsrc]
    BY <2>1
  <2>5. pc'[s] = "prepare" /\ ~HandedOver(s)'
    BY <1>t, <2>3, <2>4 DEF HandedOver, Pending
  <2>6. Moving(s)'
    BY <1>t, <1>b, <2>2, <2>3, <2>4, <2>5 DEF Moving, NoDelete, MigPCs, Requests, Other
  <2> QED
    BY <2>2, <2>6 DEF Whereabouts
<1>3. CASE MigrateReturns
  <2>1. Moving(bvm) /\ pc[bvm] = "none" /\ UNCHANGED vars /\ bsrc' = bsrc
    BY <1>3 DEF MigrateReturns, Whereabouts
  <2>2. calls = {} /\ Quiet
    BY <2>1, OneRequest DEF Requests, Moving, NoDelete, Quiet
  <2>3. ~HandedOver(bvm)
    BY <2>1, <2>2 DEF HandedOver, Pending
  <2>4. CASE state[bvm] = "migrated" /\ bpc' = "status"
    <3>1. Arrived(bvm, Other(bsrc)) /\ bvm \notin Holders
      BY <2>1, <2>4 DEF Moving, Holders
    <3>2. At(Other(bsrc))
      BY <1>b, <1>t, <2>2, <3>1, SlotsAssumption DEF Arrived, At, Listed, Runners, Holders
    <3> QED
      BY <1>b, <1>u, <2>1, <2>4, <3>2 DEF Whereabouts, Other
  <2>5. CASE state[bvm] # "migrated" /\ RunFails
    <3>1. Holders \subseteq {bvm} /\ reg[bsrc] = bvm
      BY <2>1, <2>3, <2>5 DEF Moving
    <3> QED
      BY <1>a, <1>b, <1>n, <1>u, <2>1, <2>2, <2>5, <3>1 DEF Whereabouts
  <2> QED
    BY <1>3, <2>4, <2>5 DEF MigrateReturns
<1>4. CASE GuestStatus
  <2>1. At(Other(bsrc)) /\ UNCHANGED vars
    BY <1>4 DEF GuestStatus, Whereabouts
  <2>2. CASE bsrc' = Other(bsrc) /\ NextRun
    BY <1>b, <1>n, <1>u, <2>1, <2>2 DEF Whereabouts
  <2>3. CASE RunFails
    <3>1. Quiet /\ Holders = {reg[Other(bsrc)]}
      BY <2>1 DEF At
    <3> QED
      BY <1>a, <1>b, <1>n, <1>u, <2>1, <2>3, <3>1 DEF Whereabouts
  <2> QED
    BY <1>4, <2>2, <2>3 DEF GuestStatus, PingPong
<1>5. CASE RebootDelete
  <2>1. /\ Quiet /\ \A x \in Holders : \E h \in Ahead : reg[h] = x
        /\ bk = 2 => reg[HostSeq[1]] = NoSlot
    BY <1>5 DEF RebootDelete, Whereabouts
  <2>2. PICK d \in Deletes : DeleteLook(d, HostSeq[bk]) /\ bdel' = d
    BY <1>5, <1>b DEF RebootDelete
  <2>3. bpc' = "deleting" /\ bk' = bk
    BY <1>5, <1>b DEF RebootDelete
  <2>4. /\ del' = [del EXCEPT ![d] =
              [st |-> "found", host |-> HostSeq[bk], slot |-> reg[HostSeq[bk]]]]
        /\ UNCHANGED <<proc, reg, pc, calls>>
    BY <2>2 DEF DeleteLook, slotVars
  <2>5. Holders' = Holders /\ Ahead' = Ahead
    BY <2>3, <2>4 DEF Holders, Ahead
  <2>6. Clearing(d)'
    BY <1>t, <2>1, <2>3, <2>4, <2>5 DEF Clearing, Quiet
  <2> QED
    BY <2>2, <2>3, <2>6 DEF Whereabouts
<1>8. CASE DeleteReturns
  <2>1. /\ Clearing(bdel) /\ del[bdel].st = "none" /\ UNCHANGED vars
        /\ (bk = 1 /\ bk' = 2 /\ bpc' = "delete") \/ (bk = 2 /\ bk' = 1 /\ bpc' = "post")
    BY <1>b, <1>8 DEF DeleteReturns, Whereabouts, NextHost
  <2>2. /\ Quiet /\ reg[HostSeq[bk]] = NoSlot
        /\ \A x \in Holders : \E h \in Ahead : reg[h] = x
        /\ bk = 2 => reg[HostSeq[1]] = NoSlot
    BY <2>1 DEF Clearing, Quiet
  <2>3. \A x \in Holders : \E h \in Ahead : h # HostSeq[bk] /\ reg[h] = x
    BY <2>2, SlotsAssumption DEF Holders
  <2>4. CASE bk = 1 /\ bk' = 2 /\ bpc' = "delete"
    BY <1>a, <1>b, <1>u, <2>1, <2>2, <2>3, <2>4 DEF Whereabouts
  <2>5. CASE bk = 2 /\ bk' = 1 /\ bpc' = "post"
    BY <1>a, <1>b, <1>u, <2>1, <2>2, <2>3, <2>5 DEF Whereabouts
  <2> QED
    BY <2>1, <2>4, <2>5
<1>6. CASE RebootPost
  <2>1. Quiet /\ Holders = {} /\ \A h \in Ahead : reg[h] = NoSlot
    BY <1>6 DEF RebootPost, Whereabouts
  <2>2. ~Conflict(HostSeq[bk])
    BY <1>a, <1>b, <2>1 DEF Conflict
  <2>3. Create(HostSeq[bk]) /\ bvm' = NewSlot /\ bpc' = "boot" /\ bk' = bk
    BY <1>6, <1>b, <2>2 DEF RebootPost
  <2>4. /\ reg' = [reg EXCEPT ![HostSeq[bk]] = NewSlot] /\ NewSlot \in Slots
        /\ proc' = [proc EXCEPT ![NewSlot] = "none"]
        /\ pc' = [pc EXCEPT ![NewSlot] = "spawn"] /\ calls' = calls /\ del' = del
    BY <2>2, <2>3, NewSlotIsUnused DEF Create
  <2>5. Holders' = {}
    BY <1>t, <2>1, <2>4 DEF Holders
  <2>6. Booted(bvm)'
    BY <1>t, <1>a, <1>b, <2>1, <2>3, <2>4, <2>5 DEF Booted, NoDelete, Quiet
  <2> QED
    BY <2>3, <2>6 DEF Whereabouts
<1>7. CASE RebootReturns
  <2>1. Booted(bvm) /\ pc[bvm] = "none" /\ UNCHANGED vars /\ Quiet
    BY <1>7 DEF RebootReturns, Whereabouts, Booted, NoDelete, Quiet
  <2>2. CASE state[bvm] = "running" /\ bsrc' = HostSeq[bk] /\ NextRun
    <3>1. reg[HostSeq[bk]] = bvm /\ bvm \in Slots /\ bvm # NoSlot
      BY <2>1, SlotsAssumption DEF Booted
    <3>2. proc[bvm] = "running"
      BY <1>b, <2>1, <2>2, <3>1 DEF IInv, RegSound, Quiet, Fallen, Doomed
    <3>3. At(HostSeq[bk])
      BY <2>1, <2>2, <3>1, <3>2 DEF At, Listed, Holders, Booted
    <3> QED
      BY <1>b, <1>n, <1>u, <2>1, <2>2, <3>3 DEF Whereabouts
  <2>3. CASE state[bvm] # "running" /\ NextHost("post", "reorder")
    <3>1. Holders = {} /\ (bk = 1 => reg[HostSeq[2]] = NoSlot)
      BY <2>1, <2>3 DEF Booted
    <3>2. (bk = 1 /\ bk' = 2 /\ bpc' = "post") \/ (bk' = 1 /\ bpc' = "reorder")
      BY <2>3 DEF NextHost
    <3> QED
      BY <1>a, <1>u, <2>1, <3>1, <3>2 DEF Whereabouts
  <2> QED
    BY <1>7, <2>2, <2>3 DEF RebootReturns
<1> QED
  BY <1>b, <1>1, <1>2, <1>3, <1>4, <1>5, <1>6, <1>7, <1>8
     DEF BenchStep, MigrateGivenUp, DeleteGivenUp, RebootGivenUp

(* Every step.                                                             *)
LEMMA KnowsStep ==
  ASSUME IInv, IInv', BenchSound, BenchSound', BenchKnows, [BenchNext]_allVars
  PROVE  BenchKnows'
<1>1. /\ bmiss \in Nat
      /\ bmiss' = bmiss \/ bmiss' = bmiss + 1
      /\ trouble \subseteq trouble'
  <2>1. bmiss \in Nat
    BY DEF BenchSound, BenchTypeOK
  <2>2. bmiss' = bmiss \/ bmiss' = bmiss + 1
    BY DEF BenchNext, BenchStep, Order, PostMigrate, MigrateReturns, MigrateGivenUp, GuestStatus,
       RebootDelete, DeleteReturns, DeleteGivenUp, RebootPost, RebootReturns, RebootGivenUp, benchVars, allVars
  <2>3. trouble \subseteq trouble'
    <3>1. CASE BenchStep
      <4>1. \A s \in Slots, t \in Hosts : Migrate(s, t) => trouble \subseteq trouble'
        BY DEF Migrate
      <4>2. \A s \in Slots : Cancel(s) => trouble \subseteq trouble'
        BY DEF Cancel
      <4>3. /\ \A h \in Hosts : Create(h) => trouble \subseteq trouble'
            /\ \A d \in Deletes, h \in Hosts : DeleteLook(d, h) => trouble \subseteq trouble'
        BY DEF Create, DeleteLook
      <4>4. UNCHANGED vars => trouble \subseteq trouble'
        BY DEF vars
      <4> QED
        BY <3>1, <4>1, <4>2, <4>3, <4>4, BenchDoes
    <3>2. CASE Serve \/ \E s \in Slots : TimeOut(s)
      BY <3>2, TroubleGrows DEF Next
    <3>3. CASE UNCHANGED allVars
      BY <3>3 DEF allVars, vars
    <3> QED
      BY <3>1, <3>2, <3>3 DEF BenchNext
  <2> QED
    BY <2>1, <2>2, <2>3
<1> SUFFICES ASSUME Cleared' PROVE Whereabouts'
  BY DEF BenchKnows
<1>2. bmiss' = bmiss /\ Cleared /\ Whereabouts
  <2>1. bmiss' = 0 /\ ~Excuses(Requests)'
    BY DEF Cleared
  <2>2. bmiss = 0 /\ bmiss' = bmiss
    BY <1>1, <2>1
  <2>3. ~Excuses(Requests)
    BY <1>1, <2>1 DEF Excuses
  <2> QED
    BY <2>2, <2>3 DEF Cleared, BenchKnows
<1>3. CASE BenchStep
  BY <1>2, <1>3, KnowsBench
<1>4. CASE (Serve \/ \E s \in Slots : TimeOut(s)) /\ UNCHANGED benchVars
  <2>1. UNCHANGED <<bpc, bsrc, bvm, bdel, bk>>
    BY <1>4 DEF benchVars
  <2>2. ~Quiet
    BY <1>4, QuietStays
  <2>3. bpc = "wait" => Moving(bvm)'
    <3> SUFFICES ASSUME Moving(bvm) PROVE Moving(bvm)'
      BY <1>2 DEF Whereabouts
    <3> PICK s \in Slots : s = bvm
      BY DEF Moving
    <3>1. Moving(s)'
      BY <1>4, <2>1, MovingServe DEF Cleared
    <3> QED
      BY <2>1, <3>1
  <2>4. bpc = "boot" => Booted(bvm)'
    <3> SUFFICES ASSUME Booted(bvm) PROVE Booted(bvm)'
      BY <1>2 DEF Whereabouts
    <3> PICK s \in Slots : s = bvm
      BY DEF Booted
    <3>1. Booted(s)'
      BY <1>4, <2>1, BootedServe
    <3> QED
      BY <2>1, <3>1
  <2>5. bpc = "deleting" => Clearing(bdel)'
    <3> SUFFICES ASSUME Clearing(bdel) PROVE Clearing(bdel)'
      BY <1>2 DEF Whereabouts
    <3> PICK d \in Deletes : d = bdel
      BY DEF Clearing
    <3>1. Clearing(d)'
      BY <1>4, <2>1, ClearingServe
    <3> QED
      BY <2>1, <3>1
  <2> QED
    BY <1>2, <2>1, <2>2, <2>3, <2>4, <2>5 DEF Whereabouts, At
<1>5. CASE UNCHANGED allVars
  BY <1>2, <1>5 DEF Whereabouts, At, Listed, Quiet, Holders, Moving, Booted, Clearing, NoDelete, Arrived, Runners,
     HandedOver, Pending, Ahead, Other, allVars, benchVars, vars, slotVars, srcVars
<1> QED
  BY <1>3, <1>4, <1>5 DEF BenchNext

(* The guest is booted when the benchmark starts.                          *)
LEMMA KnowsInit == Init /\ BenchInit => BenchKnows
<1> SUFFICES ASSUME Init, BenchInit PROVE \E h \in Hosts : At(h)
  BY DEF BenchKnows, Whereabouts, BenchInit
<1> DEFINE s0 == CHOOSE x \in Slots : TRUE
<1>1. s0 \in Slots /\ s0 # NoSlot
  BY SlotsAssumption
<1>2. PICK h \in Hosts :
        /\ state = [x \in Slots |-> IF x = s0 THEN "running" ELSE "new"]
        /\ proc = [x \in Slots |-> IF x = s0 THEN "running" ELSE "none"]
        /\ reg = [x \in Hosts |-> IF x = h THEN s0 ELSE NoSlot]
        /\ calls = {} /\ pc = [x \in Slots |-> "none"]
        /\ \A d \in Deletes : del[d].st = "none"
  BY DEF Init
<1> HIDE DEF s0
<1>3. Quiet /\ Listed(h) /\ reg[h] = s0
  BY <1>1, <1>2 DEF Quiet, Listed
<1>4. Holders = {s0}
  BY <1>1, <1>2 DEF Holders
<1> QED
  BY <1>3, <1>4 DEF At

(* Unless a call of its own or a request of a migration was lost, the      *)
(* benchmark starts every run from the host that the guest runs on         *)
(* (runBench's src, through failed migrations and reboots), and no other   *)
(* process runs the guest.                                                 *)
THEOREM BenchFindsGuest == BenchSpec => []BenchOnGuest
<1>1. IInv /\ BenchSound /\ BenchKnows /\ [BenchNext]_allVars => BenchKnows'
  BY BenchKeepsIInv, BenchSoundStep, KnowsStep
<1>2. IInv /\ BenchSound /\ BenchKnows => BenchOnGuest
  <2> SUFFICES ASSUME IInv, BenchSound, At(bsrc) PROVE Listed(bsrc) /\ Runners = {reg[bsrc]}
    BY DEF BenchOnGuest, BenchKnows, Whereabouts, Cleared
  <2>1. bsrc \in Hosts /\ reg[bsrc] \in Slots
    BY DEF BenchSound, BenchTypeOK, TypeOK, At, Listed
  <2>2. proc[reg[bsrc]] = "running"
    BY <2>1 DEF At, Listed, IInv, RegSound, Quiet, Fallen, Doomed
  <2> QED
    BY <2>1, <2>2 DEF At, Runners, Holders
<1> QED
  BY <1>1, <1>2, KnowsInit, BenchInvariance, PTL DEF BenchSpec

(* With create and delete among the operator's requests the benchmark is   *)
(* one of the clients that the theorems on the agents speak of             *)
(* (oneMigration, rebootVM): what they promise, they promise it.           *)
THEOREM BenchIsAClient ==
  ASSUME {"create", "delete"} \subseteq Ops
  PROVE  BenchSpec => Init /\ [][Next]_vars
<1>1. BenchSound /\ [BenchNext]_allVars => [Next]_vars
  <2> SUFFICES ASSUME BenchSound, [BenchNext]_allVars PROVE [Next]_vars
    OBVIOUS
  <2>1. CASE BenchStep
    BY <2>1, BenchDoes DEF Next, Operate
  <2>2. CASE UNCHANGED allVars
    BY <2>2 DEF allVars
  <2> QED
    BY <2>1, <2>2 DEF BenchNext, Next
<1> QED
  BY <1>1, BenchInvariance, PTL DEF BenchSpec
=============================================================================
