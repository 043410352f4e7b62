--------------------------- MODULE HandoverProofs ---------------------------
(***************************************************************************)
(* For any number of agents, VM objects, concurrent migrations and lost or *)
(* late requests: who runs the guest; no failure that the migration is     *)
(* built for loses it, and without trouble the agents implement GuestOwner *)
(* (its safety part); the image that the target resumes is whole.          *)
(***************************************************************************)
EXTENDS Handover, TLAPS

MigPCs == Requests \cup {"pause", "resume", "success"}

(* The VM objects whose DELETE or abort has yet to free the slot.          *)
Fallen == {s \in Slots : Doomed(s)}

(* What a request in flight refers to.  A process that was spawned for a   *)
(* prepare is nobody else's; one that a finalize has loaded the guest into *)
(* runs it until it is killed; one that an abort has killed stays so; and  *)
(* a request that is waited for is the one its source is at.               *)
CallSound(c) ==
  /\ c.st = "spawned" => c.kind = "prepare"
  /\ c.st = "checked" => c.kind \in {"finalize", "abort"}
  /\ c.st = "loaded" => c.kind = "finalize"
  /\ c.st = "killed" => c.kind = "abort"
  /\ c.st \in {"spawned", "checked", "loaded", "killed"} =>
       c.slot \in Slots /\ host[c.slot] = c.to /\ proc[c.slot] # "none"
  /\ ~c.orphan => c.kind = pc[c.from] /\ c.to = target[c.from]
  /\ c.st = "spawned" => proc[c.slot] = "idle" /\ reg[c.to] # c.slot
  /\ c.st = "killed" => proc[c.slot] = "killed"
  /\ c.st = "loaded" => /\ proc[c.slot] \in {"running", "killed"}
                        /\ reg[c.to] = c.slot => proc[c.slot] = "running" \/ c.slot \in Fallen
                        /\ state[c.slot] \in {"receiving", "dead"}
                        /\ pc[c.slot] = "none"

CallsApart ==
  \A c, d \in calls :
    /\ (c.from = d.from /\ ~c.orphan /\ ~d.orphan) => c = d
    /\ (c.st = "spawned" /\ d.slot = c.slot) => c = d
    /\ (c.st = "loaded" /\ d.st = "loaded" /\ d.slot = c.slot) => c = d

(* A DELETE under way has its VM object from the registry, and has killed  *)
(* its process, unless that came up afterwards.                            *)
DelSound(d) ==
  LET s == del[d].slot IN
  /\ del[d].st = "none" => s = NoSlot
  /\ s # NoSlot => /\ host[s] = del[d].host
                   /\ "delete" \in trouble
                   /\ \A c \in calls : c.st = "spawned" => c.slot # s
  /\ del[d].st \in {"killed", "dead"} =>
       s # NoSlot /\ proc[s] # "idle" /\ (proc[s] = "killed" \/ "boot" \in trouble)

(* How a VM object's process, state and goroutine go together.             *)
SlotSound(s) ==
  /\ proc[s] = "idle" => state[s] = "receiving" /\ pc[s] = "none"
  /\ proc[s] = "none" => state[s] \in {"new", "dead"}
  /\ pc[s] \in {"final", "vmstate", "finalize", "success"} => proc[s] \in {"paused", "killed"}
  /\ pc[s] \in MigPCs => state[s] \in {"migrating", "dead"}
  /\ pc[s] = "spawn" => state[s] \in {"new", "dead"} /\ proc[s] = "none"
  /\ pc[s] = "boot" => state[s] \in {"booting", "dead"}

(* What the registry says of a VM object is so, unless its process has     *)
(* just been killed.                                                       *)
RegSound(h) ==
  reg[h] # NoSlot =>
    /\ host[reg[h]] = h
    /\ state[reg[h]] = "running" => proc[reg[h]] = "running" \/ reg[h] \in Fallen
    /\ state[reg[h]] = "migrating" =>
         proc[reg[h]] \in {"running", "paused"} \/ reg[h] \in Fallen \/ pc[reg[h]] = "success"
    /\ state[reg[h]] = "receiving" =>
         (proc[reg[h]] \in {"idle", "running"} \/ reg[h] \in Fallen) /\ pc[reg[h]] = "none"

(* VM objects that migrate accepts, whether they have a process or not.    *)
Eligible == {s \in Slots : reg[host[s]] = s /\ state[s] = "running"}

(* VM objects that a finalize is about to set running.                     *)
Loaded == {s \in Slots : \E c \in calls : c.st = "loaded" /\ c.slot = s}

(* Who has a claim to the guest or will take it for granted.               *)
Claimants == Claims \cup Eligible \cup Loaded

(* One claim to the guest, unless a finalize was given up or a second      *)
(* guest was created.                                                      *)
OneClaim ==
  ~Excuses({"finalize", "create"}) =>
    /\ \A c \in calls : c.kind = "finalize" => ~c.orphan
    /\ \A s, t \in Claimants : s = t

IInv ==
  /\ TypeOK
  /\ \A c \in calls : CallSound(c)
  /\ CallsApart
  /\ \A d \in Deletes : DelSound(d)
  /\ \A s \in Slots : SlotSound(s)
  /\ \A h \in Hosts : RegSound(h)
  /\ OneClaim

-----------------------------------------------------------------------------
(* Helpers.                                                                *)

(* A new VM object is one that nothing refers to.                          *)
LEMMA NewSlotIsUnused ==
  ASSUME Unused # {}
  PROVE  /\ NewSlot \in Slots
         /\ proc[NewSlot] \in {"none", "killed"} /\ pc[NewSlot] = "none"
         /\ \A h \in Hosts : reg[h] # NewSlot
         /\ \A c \in calls : c.slot # NewSlot
         /\ \A d \in Deletes : del[d].slot # NewSlot
<1>1. NewSlot \in Unused
  BY DEF NewSlot
<1> QED
  BY <1>1 DEF Unused

(* The progress of a handler replaces its request by one that differs in   *)
(* its state and slot only.                                                *)
LEMMA StepReplaces ==
  ASSUME calls \subseteq Call, NEW c \in calls,
         NEW st \in CallStates, NEW n \in Slots \cup {NoSlot}, Step(c, st, n)
  PROVE  \E d \in Call :
           /\ calls' = (calls \ {c}) \cup {d}
           /\ d.st = st /\ d.slot = n
           /\ d.from = c.from /\ d.kind = c.kind /\ d.to = c.to /\ d.att = c.att
           /\ d.orphan = c.orphan
<1>1. [c EXCEPT !.st = st, !.slot = n] \in Call
  BY DEF Call
<1> QED
  BY <1>1 DEF Step, Call

(* A caller that gives up leaves its requests behind as orphans.           *)
Orphaned(c) == [c EXCEPT !.orphan = TRUE]

(* Losing its caller changes nothing else of a request.                    *)
LEMMA OrphanedIsCall ==
  ASSUME NEW c \in Call
  PROVE  /\ Orphaned(c) \in Call /\ Orphaned(c).orphan
         /\ Orphaned(c).st = c.st /\ Orphaned(c).slot = c.slot
         /\ Orphaned(c).from = c.from /\ Orphaned(c).kind = c.kind
         /\ Orphaned(c).to = c.to /\ Orphaned(c).att = c.att
BY DEF Call, Orphaned

(* A caller that gives up turns its request under way into an orphan.      *)
LEMMA AbandonOrphans ==
  ASSUME calls \subseteq Call, NEW s \in Slots, Abandon(s)
  PROVE  /\ Pending(s) \subseteq calls
         /\ \A c \in Pending(s) : c \in Call /\ c.from = s /\ ~c.orphan
         /\ calls' = (calls \ Pending(s)) \cup {Orphaned(c) : c \in Pending(s)}
         /\ calls' \subseteq Call
<1>1. Pending(s) \subseteq calls /\ \A c \in Pending(s) : c \in Call /\ c.from = s /\ ~c.orphan
  BY DEF Pending
<1>2. calls' = (calls \ Pending(s)) \cup {Orphaned(c) : c \in Pending(s)}
  BY DEF Abandon, Orphaned
<1> QED
  BY <1>1, <1>2, OrphanedIsCall

-----------------------------------------------------------------------------
(* Types.                                                                  *)

(* The types of the calls survive the progress of a handler.               *)
LEMMA StepTyped ==
  ASSUME TypeOK, NEW c \in calls,
         NEW st \in CallStates,
         NEW n \in Slots \cup {NoSlot}, Step(c, st, n), attempts' = attempts
  PROVE  calls' \subseteq Call /\ \A d \in calls' : d.att <= attempts'
<1> PICK d \in Call : calls' = (calls \ {c}) \cup {d} /\ d.att = c.att
  BY StepReplaces DEF TypeOK
<1> QED
  BY DEF TypeOK

(* Who is about to be freed stays so while nobody frees a slot.            *)
LEMMA FallenStays ==
  ASSUME del' = del,
         \A c \in calls : (c.kind = "abort" /\ c.st = "killed") =>
           \E e \in calls' : e.kind = "abort" /\ e.st = "killed" /\ e.slot = c.slot
  PROVE  Fallen \subseteq Fallen'
BY DEF Fallen, Doomed

(* The DELETEs under way are not affected by steps that leave the dead     *)
(* dead, but for a new VM object n.                                        *)
LEMMA DelStaysBut ==
  ASSUME IInv, del' = del, trouble \subseteq trouble', NEW n, n # NoSlot,
         \A d \in Deletes : del[d].slot # n,
         \A x \in Slots : x # n => /\ host'[x] = host[x]
                                   /\ proc[x] = "killed" => proc'[x] = "killed"
                                   /\ proc'[x] = "idle" => proc[x] = "idle",
         \A e \in calls' : e.st = "spawned" =>
           e.slot = n \/ \E c \in calls : c.st = "spawned" /\ c.slot = e.slot
  PROVE  \A d \in Deletes : DelSound(d)'
<1> SUFFICES ASSUME NEW d \in Deletes PROVE DelSound(d)'
  OBVIOUS
<1>1. DelSound(d) /\ del[d].slot \in Slots \cup {NoSlot}
  BY DEF IInv, TypeOK, DelRequest
<1> QED
  BY <1>1 DEF DelSound

(* The same if there is none.                                              *)
LEMMA DelStays ==
  ASSUME IInv, del' = del, trouble \subseteq trouble',
         \A x \in Slots : /\ host'[x] = host[x]
                          /\ proc[x] = "killed" => proc'[x] = "killed"
                          /\ proc'[x] = "idle" => proc[x] = "idle",
         \A e \in calls' : e.st = "spawned" =>
           \E c \in calls : c.st = "spawned" /\ c.slot = e.slot
  PROVE  \A d \in Deletes : DelSound(d)'
<1> SUFFICES ASSUME NEW d \in Deletes PROVE DelSound(d)'
  OBVIOUS
<1>1. DelSound(d) /\ del[d].slot \in Slots \cup {NoSlot}
  BY DEF IInv, TypeOK, DelRequest
<1> QED
  BY <1>1 DEF DelSound

(* What a directory may hold.                                              *)
FileSets == SUBSET (Kinds \X (0 .. attempts))

(* The operations on a directory keep it a set of pieces.                  *)
LEMMA FilesTyped ==
  ASSUME TypeOK, NEW h \in Hosts, NEW k \in Kinds, NEW a \in 0 .. attempts
  PROVE  /\ Replaced(files[h], k, a) \in FileSets
         /\ Prepared(files[h], a) \in FileSets
         /\ files[h] \cup {<<k, a>>} \in FileSets
<1>1. <<k, a>> \in Kinds \X (0 .. attempts) /\ <<"recv", a>> \in Kinds \X (0 .. attempts)
  BY DEF Kinds
<1>2. files[h] \subseteq Kinds \X (0 .. attempts)
  BY DEF TypeOK
<1> QED
  BY <1>1, <1>2 DEF Replaced, Prepared, FileSets

-----------------------------------------------------------------------------
(* Claims.                                                                 *)

(* No new claim, and no finalize given up unnoticed.                       *)
LEMMA NoNewClaim ==
  ASSUME OneClaim, trouble \subseteq trouble',
         Excuses({"finalize", "create"})' \/ Claimants' \subseteq Claimants,
         \A e \in calls' : (e.kind = "finalize" /\ e.orphan) =>
            e \in calls \/ Excuses({"finalize", "create"})'
  PROVE  OneClaim'
<1>1. ~Excuses({"finalize", "create"})' => ~Excuses({"finalize", "create"})
  BY DEF Excuses
<1> QED
  BY <1>1 DEF OneClaim

(* A migration that has handed the guest over has done so for good, as     *)
(* far as handlers are concerned.                                          *)
LEMMA StepKeepsHandover ==
  ASSUME NEW c \in calls, NEW d, calls' = (calls \ {c}) \cup {d},
         d.from = c.from, d.kind = c.kind, d.orphan = c.orphan,
         \/ c.kind # "finalize"
         \/ c.st \notin {"loaded", "ok"}
         \/ d.st \in {"loaded", "ok"},
         NEW s \in Slots, pc'[s] = pc[s], HandedOver(s)
  PROVE  HandedOver(s)'
<1>1. CASE pc[s] = "success"
  BY <1>1 DEF HandedOver
<1>2. CASE \E e \in Pending(s) : e.kind = "finalize" /\ e.st \in {"loaded", "ok"}
  <2> PICK e \in Pending(s) : e.kind = "finalize" /\ e.st \in {"loaded", "ok"}
    BY <1>2
  <2>1. CASE e = c
    BY <2>1 DEF HandedOver, Pending
  <2>2. CASE e # c
    BY <2>2 DEF HandedOver, Pending
  <2> QED
    BY <2>1, <2>2
<1> QED
  BY <1>1, <1>2 DEF HandedOver

-----------------------------------------------------------------------------
(* The source.                                                             *)

(* handleMigrate: the registered, running object becomes a source.         *)
LEMMA MigrateStep ==
  ASSUME IInv, NEW s \in Slots, NEW t \in Hosts, Migrate(s, t)
  PROVE  IInv'
<1> USE DEF IInv
<1>0. /\ reg[host[s]] = s /\ state[s] = "running" /\ pc[s] = "none" /\ s # NoSlot
      /\ state' = [state EXCEPT ![s] = "migrating"]
      /\ pc' = [pc EXCEPT ![s] = "prepare"]
      /\ target' = [target EXCEPT ![s] = t]
      /\ trouble \subseteq trouble'
      /\ UNCHANGED <<proc, host, reg, del, calls, files>>
  BY SlotsAssumption DEF Migrate, TypeOK
<1>1. TypeOK'
  <2>1. attempts' = attempts + 1 /\ att' = [att EXCEPT ![s] = attempts + 1]
    BY DEF Migrate
  <2>2. attempts' \in Nat /\ att' \in [Slots -> 0 .. attempts']
    BY <2>1 DEF TypeOK
  <2>3. files' \in [Hosts -> SUBSET (Kinds \X (0 .. attempts'))]
    <3>1. Kinds \X (0 .. attempts) \subseteq Kinds \X (0 .. attempts')
      BY <2>1 DEF TypeOK
    <3> QED
      BY <1>0, <3>1 DEF TypeOK
  <2>4. \A c \in calls' : c.att <= attempts'
    BY <1>0, <2>1 DEF TypeOK, Call
  <2> QED
    BY <2>2, <2>3, <2>4 DEF Migrate, TypeOK, States, PCs, Requests, Troubles
<1>2. \A c \in calls : c.from = s => c.orphan
  BY <1>0 DEF CallSound, TypeOK, Call, Requests
<1>f. Fallen \subseteq Fallen'
  BY <1>0, FallenStays
<1>3. \A c \in calls' : CallSound(c)'
  BY <1>0, <1>2, <1>f DEF CallSound, TypeOK, Call
<1>4. CallsApart' /\ \A d \in Deletes : DelSound(d)'
  BY <1>0, DelStays DEF CallsApart
<1>5. \A x \in Slots : SlotSound(x)'
  BY <1>0 DEF SlotSound, TypeOK, MigPCs, Requests
<1>6. \A h \in Hosts : RegSound(h)'
  BY <1>0, <1>f DEF RegSound, TypeOK
<1>7. OneClaim'
  <2>1. \A x \in Slots : HandedOver(x) => HandedOver(x)'
    BY <1>0 DEF HandedOver, Pending, TypeOK
  <2>2. Claimants' \subseteq Claimants
    BY <1>0, <2>1 DEF Claimants, Claims, Eligible, Loaded, TypeOK
  <2> QED
    BY <1>0, <2>2, NoNewClaim
<1> QED
  BY <1>1, <1>3, <1>4, <1>5, <1>6, <1>7

(* A source without a request under way sends its next one.                *)
LEMMA SendStep ==
  ASSUME IInv, NEW s \in Slots, Send(s)
  PROVE  IInv'
<1> USE DEF IInv
<1> DEFINE q == Request(s)
<1>0. /\ pc[s] \in Requests /\ Pending(s) = {}
      /\ calls' = calls \cup {q}
      /\ UNCHANGED <<slotVars, reg, srcVars, files, trouble>>
  BY DEF Send
<1>1. /\ q \in Call /\ q.from = s /\ q.kind = pc[s] /\ q.to = target[s] /\ q.att = att[s]
      /\ q.slot = NoSlot /\ q.st = "sent" /\ q.orphan = FALSE
  BY <1>0 DEF Request, Call, CallStates, TypeOK
<1> HIDE DEF q
<1>2. TypeOK'
  BY <1>0, <1>1 DEF TypeOK, slotVars, srcVars
<1>3. \A c \in calls : c.from = s => c.orphan
  BY <1>0 DEF Pending
<1>f. Fallen \subseteq Fallen'
  BY <1>0, FallenStays DEF srcVars
<1>4. \A c \in calls' : CallSound(c)'
  BY <1>0, <1>1, <1>f DEF CallSound, slotVars, srcVars
<1>5. CallsApart'
  <2>1. \A c \in calls : c.st = "spawned" => c.slot # NoSlot
    BY SlotsAssumption DEF CallSound
  <2> QED
    BY <1>0, <1>1, <1>3, <2>1 DEF CallsApart
<1>d. \A d \in Deletes : DelSound(d)'
  BY <1>0, <1>1, DelStays DEF slotVars, srcVars
<1>6. (\A x \in Slots : SlotSound(x)') /\ (\A h \in Hosts : RegSound(h)')
  BY <1>0, <1>f DEF SlotSound, RegSound, slotVars, srcVars
<1>7. OneClaim'
  <2>1. \A x \in Slots : HandedOver(x) => HandedOver(x)'
    BY <1>0 DEF HandedOver, Pending, srcVars
  <2>2. Claimants' \subseteq Claimants
    BY <1>0, <1>1, <2>1 DEF Claimants, Claims, Eligible, Loaded, slotVars, srcVars
  <2> QED
    BY <1>0, <1>1, <2>2, NoNewClaim
<1> QED
  BY <1>2, <1>4, <1>5, <1>d, <1>6, <1>7

(* A reply takes the source on, the request is over.                       *)
LEMMA ReadReplyStep ==
  ASSUME IInv, NEW s \in Slots, ReadReply(s)
  PROVE  IInv'
<1> USE DEF IInv
<1> PICK c \in Pending(s) :
      /\ c.st \in {"ok", "err"}
      /\ pc' = [pc EXCEPT ![s] = IF c.st = "ok" THEN AfterReply[@] ELSE AfterError(@)]
      /\ calls' = calls \ {c}
  BY DEF ReadReply
<1>0. /\ UNCHANGED <<state, proc, host, reg, target, ctx, att, attempts, del, files, trouble>>
      /\ c \in calls /\ c.from = s /\ ~c.orphan /\ c.kind = pc[s] /\ pc[s] \in Requests
  BY DEF ReadReply, Pending, CallSound, TypeOK, Call, slotVars
<1>1. /\ pc[s] = "prepare" => pc'[s] \in {"mem", "abort"}
      /\ pc[s] = "mem" => pc'[s] \in {"pause", "abort"}
      /\ pc[s] = "final" => pc'[s] \in {"vmstate", "abort"}
      /\ pc[s] = "vmstate" => pc'[s] \in {"finalize", "abort"}
      /\ pc[s] = "finalize" => pc'[s] = IF c.st = "ok" THEN "success" ELSE "abort"
      /\ pc[s] = "abort" => pc'[s] = "resume"
  BY <1>0 DEF AfterReply, AfterError, TypeOK
<1>2. pc' \in [Slots -> PCs] /\ \A x \in Slots : x # s => pc'[x] = pc[x]
  BY <1>0, <1>1 DEF TypeOK, PCs, Requests
<1>3. TypeOK'
  BY <1>0, <1>2 DEF TypeOK
<1>4. \A d \in calls' : d.from = s => d.orphan
  BY <1>0 DEF CallsApart
<1>f. Fallen \subseteq Fallen'
  BY <1>0, FallenStays
<1>5. \A d \in calls' : CallSound(d)'
  BY <1>0, <1>2, <1>4, <1>f DEF CallSound, TypeOK, Call, Requests
<1>6. CallsApart' /\ \A d \in Deletes : DelSound(d)'
  BY <1>0, DelStays DEF CallsApart
<1>7. \A x \in Slots : SlotSound(x)'
  BY <1>0, <1>1, <1>2 DEF SlotSound, MigPCs, Requests
<1>8. \A h \in Hosts : RegSound(h)'
  BY <1>0, <1>1, <1>2, <1>f DEF RegSound, Requests, TypeOK
<1>9. OneClaim'
  <2>1. \A x \in Slots : x # s /\ HandedOver(x) => HandedOver(x)'
    BY <1>0, <1>2 DEF HandedOver, Pending
  <2>2. HandedOver(s) => pc'[s] = "success"
    BY <1>0, <1>1 DEF HandedOver, Pending, CallsApart, Requests
  <2>3. Claimants' \subseteq Claimants
    BY <1>0, <1>1, <1>2, <2>1, <2>2 DEF Claimants, Claims, Eligible, Loaded, Requests
  <2> QED
    BY <1>0, <2>3, NoNewClaim
<1> QED
  BY <1>3, <1>5, <1>6, <1>7, <1>8, <1>9

(* Giving up: after a time-out, under a cancelled context, without a file. *)
LEMMA AbandonStep ==
  ASSUME IInv, NEW s \in Slots, pc[s] \in Requests, Abandon(s)
  PROVE  IInv'
<1> USE DEF IInv
<1>0. /\ UNCHANGED <<state, proc, host, reg, target, ctx, att, attempts, del, files>>
      /\ pc' = [pc EXCEPT ![s] = AfterError(@)]
      /\ trouble' = trouble \cup {c.kind : c \in Pending(s)}
  BY DEF Abandon, slotVars
<1>1. /\ Pending(s) \subseteq calls
      /\ \A c \in Pending(s) : c \in Call /\ c.from = s /\ ~c.orphan
      /\ calls' = (calls \ Pending(s)) \cup {Orphaned(c) : c \in Pending(s)}
      /\ calls' \subseteq Call
  BY AbandonOrphans DEF TypeOK
<1>2. /\ pc' \in [Slots -> PCs] /\ \A x \in Slots : x # s => pc'[x] = pc[x]
      /\ pc'[s] \in {"abort", "resume"}
  BY <1>0 DEF TypeOK, AfterError, PCs, Requests
<1>3. ASSUME NEW e \in calls'
      PROVE  \/ e \in calls /\ (e.orphan \/ e.from # s)
             \/ \E c \in calls : /\ c \in Pending(s) /\ e = Orphaned(c) /\ e.orphan
                                 /\ e.st = c.st /\ e.slot = c.slot /\ e.from = c.from
                                 /\ e.kind = c.kind /\ e.to = c.to /\ e.att = c.att
  <2>1. CASE e \in calls \ Pending(s)
    BY <2>1 DEF Pending
  <2>2. CASE e \in {Orphaned(c) : c \in Pending(s)}
    BY <1>1, <2>2, OrphanedIsCall
  <2> QED
    BY <1>1, <2>1, <2>2
<1>4. TypeOK'
  <2>1. trouble' \subseteq Troubles
    BY <1>0, <1>1 DEF TypeOK, Troubles, Call
  <2>2. \A e \in calls' : e.att <= attempts'
    BY <1>0, <1>3 DEF TypeOK
  <2> QED
    BY <1>0, <1>1, <1>2, <2>1, <2>2 DEF TypeOK
<1>f. Fallen \subseteq Fallen'
  <2>1. ASSUME NEW c \in calls
        PROVE  \E e \in calls' : e.kind = c.kind /\ e.st = c.st /\ e.slot = c.slot
    <3>1. CASE c \in Pending(s)
      BY <1>1, <3>1, OrphanedIsCall
    <3>2. CASE c \notin Pending(s)
      BY <1>1, <3>2
    <3> QED
      BY <3>1, <3>2
  <2> QED
    BY <1>0, <2>1, FallenStays
<1>d. \A d \in Deletes : DelSound(d)'
  BY <1>0, <1>3, DelStays
<1>5. ASSUME NEW e \in calls' PROVE CallSound(e)'
  <2>1. CASE e \in calls /\ (e.orphan \/ e.from # s)
    BY <1>0, <1>2, <1>f, <2>1 DEF CallSound, TypeOK, Call, Requests
  <2>2. CASE \E c \in calls : /\ e.orphan
                              /\ e.st = c.st /\ e.slot = c.slot /\ e.from = c.from
                              /\ e.kind = c.kind /\ e.to = c.to /\ e.att = c.att
    BY <1>0, <1>2, <1>f, <2>2 DEF CallSound, TypeOK, Call, Requests
  <2> QED
    BY <1>3, <2>1, <2>2
<1>6. CallsApart'
  <2> SUFFICES ASSUME NEW e \in calls', NEW g \in calls'
               PROVE  /\ (e.from = g.from /\ ~e.orphan /\ ~g.orphan) => e = g
                      /\ (e.st = "spawned" /\ g.slot = e.slot) => e = g
                      /\ (e.st = "loaded" /\ g.st = "loaded" /\ g.slot = e.slot) => e = g
    BY DEF CallsApart
  <2>1. PICK c \in calls : /\ e.st = c.st /\ e.slot = c.slot /\ e.from = c.from
                           /\ ~e.orphan => e = c
                           /\ IF c \in Pending(s) THEN e = Orphaned(c) ELSE e = c
    BY <1>3 DEF Pending
  <2>2. PICK d \in calls : /\ g.st = d.st /\ g.slot = d.slot /\ g.from = d.from
                           /\ ~g.orphan => g = d
                           /\ IF d \in Pending(s) THEN g = Orphaned(d) ELSE g = d
    BY <1>3 DEF Pending
  <2>3. c = d => e = g
    BY <2>1, <2>2
  <2> QED
    BY <2>1, <2>2, <2>3 DEF CallsApart
<1>7. \A x \in Slots : SlotSound(x)'
  BY <1>0, <1>2 DEF SlotSound, MigPCs, Requests
<1>8. \A h \in Hosts : RegSound(h)'
  BY <1>0, <1>2, <1>f DEF RegSound, TypeOK, Requests
<1>9. OneClaim'
  <2>1. \A x \in Slots : x # s /\ HandedOver(x) => HandedOver(x)'
    BY <1>1, <1>2 DEF HandedOver, Pending
  <2>2. HandedOver(s) => Excuses({"finalize", "create"})'
    BY <1>0 DEF HandedOver, Pending, Excuses, Requests
  <2>3. Excuses({"finalize", "create"})' \/ Claimants' \subseteq Claimants
    <3>1. Loaded' \subseteq Loaded
      BY <1>3 DEF Loaded
    <3> QED
      BY <1>0, <1>2, <2>1, <2>2, <3>1 DEF Claimants, Claims, Eligible
  <2>4. \A e \in calls' : (e.kind = "finalize" /\ e.orphan) =>
            e \in calls \/ Excuses({"finalize", "create"})'
    BY <1>0, <1>3 DEF Excuses
  <2> QED
    BY <1>0, <2>3, <2>4, NoNewClaim
<1> QED
  BY <1>4, <1>5, <1>6, <1>d, <1>7, <1>8, <1>9

(* The client hangs up: noted in the context only.                         *)
LEMMA CancelStep ==
  ASSUME IInv, NEW s \in Slots, Cancel(s)
  PROVE  IInv'
<1> USE DEF IInv
<1>0. /\ UNCHANGED <<state, proc, host, reg, pc, target, att, attempts, del, calls, files>>
      /\ trouble' = trouble \cup {"cancel"}
  BY DEF Cancel, slotVars
<1>1. TypeOK'
  BY <1>0 DEF Cancel, TypeOK, Troubles
<1>f. Fallen \subseteq Fallen' /\ \A d \in Deletes : DelSound(d)'
  BY <1>0, FallenStays, DelStays
<1>2. /\ \A c \in calls' : CallSound(c)'
      /\ CallsApart'
      /\ \A x \in Slots : SlotSound(x)'
      /\ \A h \in Hosts : RegSound(h)'
  BY <1>0, <1>f DEF CallSound, CallsApart, SlotSound, RegSound
<1>3. OneClaim'
  <2>1. Claimants' \subseteq Claimants
    BY <1>0 DEF Claimants, Claims, Eligible, Loaded, HandedOver, Pending
  <2> QED
    BY <1>0, <2>1, NoNewClaim
<1> QED
  BY <1>1, <1>f, <1>2, <1>3

(* Steps of the source that only touch its own VM object: Pause, Succeed,  *)
(* Resume, and the two of a boot.  What matters is how proc, state and pc  *)
(* of that object change.                                                  *)
LEMMA OwnStep ==
  ASSUME IInv, NEW s \in Slots,
         UNCHANGED <<host, reg, target, ctx, att, attempts, del, calls>>,
         trouble \subseteq trouble', TypeOK',
         \A x \in Slots : x # s => /\ proc'[x] = proc[x] /\ state'[x] = state[x]
                                   /\ pc'[x] = pc[x],
         pc[s] \in {"pause", "success", "resume", "spawn", "boot"},
         SlotSound(s)', proc'[s] # "idle", proc'[s] = "none" => proc[s] = "none",
         proc[s] = "killed" => proc'[s] = "killed",
         state'[s] = "running" => proc'[s] = "running",
         state'[s] = "migrating" => \/ proc[s] = proc'[s] /\ pc[s] # "success"
                                    \/ proc'[s] \in {"running", "paused"}
                                    \/ pc'[s] = "success",
         state'[s] \notin {"receiving"},
         state'[s] = "migrating" => state[s] = "migrating",
         proc'[s] = "running" \/ pc'[s] \in Requests \cup {"pause", "resume", "spawn"}
           => s \in Claims
  PROVE  IInv'
<1> USE DEF IInv
<1>0. \A c \in calls : c.from = s => c.orphan
  BY DEF CallSound, TypeOK, Call, Requests
<1>1. pc[s] # "none" /\ proc[s] # "idle"
  BY DEF SlotSound
<1>f. Fallen \subseteq Fallen'
  BY FallenStays
<1>2. \A c \in calls' : CallSound(c)'
  BY <1>0, <1>1, <1>f DEF CallSound, TypeOK, Call
<1>3. CallsApart' /\ \A d \in Deletes : DelSound(d)'
  BY <1>1, DelStays DEF CallsApart
<1>4. \A x \in Slots : SlotSound(x)'
  BY DEF SlotSound
<1>5. \A h \in Hosts : RegSound(h)'
  BY <1>f DEF RegSound, TypeOK
<1>6. OneClaim'
  <2>1. \A x \in Slots : x # s /\ HandedOver(x) => HandedOver(x)'
    BY DEF HandedOver, Pending
  <2>2. Claimants' \subseteq Claimants
    BY <2>1 DEF Claimants, Claims, Eligible, Loaded
  <2> QED
    BY <2>2, NoNewClaim
<1> QED
  BY <1>2, <1>3, <1>4, <1>5, <1>6

(* A hand-over is a matter of finalize.                                    *)
LEMMA HandoverAtFinalize ==
  ASSUME IInv, NEW s \in Slots, HandedOver(s)
  PROVE  pc[s] \in {"finalize", "success"}
BY DEF IInv, HandedOver, Pending, CallSound

(* Pause and the final dump.                                               *)
LEMMA PauseStep ==
  ASSUME IInv, NEW s \in Slots, Pause(s)
  PROVE  IInv'
<1>0. /\ pc[s] = "pause" /\ state[s] \in {"migrating", "dead"} /\ s \in Claims
      /\ UNCHANGED <<state, host, reg, target, ctx, att, attempts, del, calls, trouble>>
      /\ proc[s] \in Procs /\ TypeOK /\ att[s] \in 0 .. attempts /\ host[s] \in Hosts
  BY HandoverAtFinalize DEF Pause, IInv, SlotSound, Claims, MigPCs, TypeOK
<1>1. /\ \/ pc' = [pc EXCEPT ![s] = "final"] /\ proc' = [proc EXCEPT ![s] = "paused"]
         \/ pc' = [pc EXCEPT ![s] = "abort"] /\ proc' = [proc EXCEPT ![s] = "paused"]
         \/ pc' = [pc EXCEPT ![s] = "abort"] /\ proc' = proc
      /\ proc[s] = "running" \/ proc' = proc
      /\ \/ UNCHANGED files
         \/ files' = [files EXCEPT ![host[s]] = Replaced(@, "vmstate", att[s])]
  BY DEF Pause, Paused
<1>2. TypeOK'
  <2>1. files' \in [Hosts -> SUBSET (Kinds \X (0 .. attempts))]
    <3>0. "vmstate" \in Kinds
      BY DEF Kinds
    <3>1. Replaced(files[host[s]], "vmstate", att[s]) \in SUBSET (Kinds \X (0 .. attempts))
      BY <1>0, <3>0, FilesTyped DEF FileSets
    <3>2. files \in [Hosts -> SUBSET (Kinds \X (0 .. attempts))]
      BY <1>0 DEF TypeOK
    <3>3. CASE UNCHANGED files
      BY <3>2, <3>3
    <3>4. CASE files' = [files EXCEPT ![host[s]] = Replaced(@, "vmstate", att[s])]
      BY <1>0, <3>1, <3>2, <3>4
    <3> QED
      BY <1>0, <1>1, <3>3, <3>4
  <2> QED
    BY <1>0, <1>1, <2>1 DEF TypeOK, PCs, Requests, Procs
<1>3. proc[s] # "idle" /\ (proc[s] = "none" => state[s] = "dead")
  BY <1>0 DEF IInv, SlotSound
<1>4. /\ \A x \in Slots : x # s => proc'[x] = proc[x] /\ state'[x] = state[x] /\ pc'[x] = pc[x]
      /\ proc[s] = "running" \/ proc'[s] = proc[s]
      /\ pc'[s] \in {"final", "abort"} /\ proc'[s] \in {"paused", proc[s]}
      /\ pc'[s] = "final" => proc'[s] = "paused"
  BY <1>0, <1>1 DEF TypeOK
<1>5. SlotSound(s)'
  BY <1>0, <1>3, <1>4 DEF SlotSound, MigPCs
<1> QED
  BY <1>0, <1>2, <1>3, <1>4, <1>5, OwnStep

(* The hand-over is acknowledged: the source gives up its process, ...     *)
LEMMA SucceedKillStep ==
  ASSUME IInv, NEW s \in Slots, SucceedKill(s)
  PROVE  IInv'
<1>0. /\ pc[s] = "success" /\ proc[s] = "paused" /\ TypeOK
      /\ proc' = [proc EXCEPT ![s] = "killed"]
      /\ UNCHANGED <<state, host, reg, pc, target, ctx, att, attempts, del, calls, files, trouble>>
  BY DEF SucceedKill, IInv, SlotSound, Killed, srcVars
<1>1. TypeOK'
  BY <1>0 DEF TypeOK, Procs
<1>2. /\ \A x \in Slots : x # s => proc'[x] = proc[x]
      /\ proc'[s] = "killed" /\ state[s] \in {"migrating", "dead"} /\ SlotSound(s)
  BY <1>0 DEF TypeOK, IInv, SlotSound, MigPCs
<1>3. SlotSound(s)'
  BY <1>0, <1>2 DEF SlotSound
<1> QED
  BY <1>0, <1>1, <1>2, <1>3, OwnStep DEF Requests

(* ... and says so.                                                        *)
LEMMA SucceedStep ==
  ASSUME IInv, NEW s \in Slots, Succeed(s)
  PROVE  IInv'
<1>0. /\ pc[s] = "success" /\ proc[s] = "killed" /\ TypeOK
      /\ state' = [state EXCEPT ![s] = "migrated"]
      /\ pc' = [pc EXCEPT ![s] = "none"]
      /\ UNCHANGED <<proc, host, reg, target, ctx, att, attempts, del, calls, files, trouble>>
  BY DEF Succeed, IInv
<1>1. TypeOK'
  BY <1>0 DEF TypeOK, States, PCs
<1>2. /\ \A x \in Slots : x # s => state'[x] = state[x] /\ pc'[x] = pc[x]
      /\ pc'[s] = "none" /\ proc'[s] = "killed" /\ state'[s] = "migrated"
  BY <1>0 DEF TypeOK
<1>3. SlotSound(s)'
  BY <1>2 DEF SlotSound, MigPCs, Requests
<1> QED
  BY <1>0, <1>1, <1>2, <1>3, OwnStep DEF Requests

(* The rollback.                                                           *)
LEMMA ResumeStep ==
  ASSUME IInv, NEW s \in Slots, Resume(s)
  PROVE  IInv'
<1>0. /\ pc[s] = "resume" /\ s \in Claims /\ TypeOK /\ proc[s] # "idle"
      /\ pc' = [pc EXCEPT ![s] = "none"]
      /\ UNCHANGED <<host, reg, target, ctx, att, attempts, del, calls, files>>
  BY HandoverAtFinalize DEF Resume, IInv, SlotSound, Claims
<1>1. \/ /\ proc' = [proc EXCEPT ![s] = "running"] /\ proc[s] \in {"running", "paused"}
         /\ state' = [state EXCEPT ![s] = "running"]
         /\ trouble' = trouble
      \/ /\ state' = [state EXCEPT ![s] = "dead"]
         /\ trouble' = trouble \cup {"resume"}
         /\ proc' = proc \/ (proc' = [proc EXCEPT ![s] = "running"] /\ proc[s] \in {"running", "paused"})
  BY DEF Resume
<1>2. TypeOK'
  BY <1>0, <1>1 DEF TypeOK, States, Procs, PCs, Troubles
<1>3. /\ \A x \in Slots : x # s => proc'[x] = proc[x] /\ state'[x] = state[x] /\ pc'[x] = pc[x]
      /\ pc'[s] = "none" /\ proc'[s] # "idle"
      /\ proc'[s] = proc[s] \/ (proc'[s] = "running" /\ proc[s] # "killed")
      /\ \/ state'[s] = "running" /\ proc'[s] = "running"
         \/ state'[s] = "dead"
  BY <1>0, <1>1 DEF TypeOK
<1>4. SlotSound(s)'
  BY <1>3 DEF SlotSound, MigPCs, Requests
<1>5. trouble \subseteq trouble'
  BY <1>1
<1> QED
  BY <1>0, <1>2, <1>3, <1>4, <1>5, OwnStep

(* boot starts the process.                                                *)
LEMMA BootSpawnStep ==
  ASSUME IInv, NEW s \in Slots, BootSpawn(s)
  PROVE  IInv'
<1>0. /\ pc[s] = "spawn" /\ s \in Claims /\ TypeOK /\ host[s] \in Hosts /\ proc[s] = "none"
      /\ state' = [state EXCEPT ![s] = "booting"]
      /\ proc' = [proc EXCEPT ![s] = "running"]
      /\ pc' = [pc EXCEPT ![s] = "boot"]
      /\ files' = [files EXCEPT ![host[s]] = @ \cup {Dir}]
      /\ UNCHANGED <<host, reg, target, ctx, att, attempts, del, calls, trouble>>
  BY DEF BootSpawn, IInv, SlotSound, Claims, TypeOK
<1>1. TypeOK'
  <2>1. files[host[s]] \cup {Dir} \in SUBSET (Kinds \X (0 .. attempts))
    BY <1>0 DEF TypeOK, Kinds, Dir
  <2> QED
    BY <1>0, <2>1 DEF TypeOK, States, Procs, PCs
<1>2. /\ \A x \in Slots : x # s => proc'[x] = proc[x] /\ state'[x] = state[x] /\ pc'[x] = pc[x]
      /\ pc'[s] = "boot" /\ proc'[s] = "running" /\ state'[s] = "booting"
  BY <1>0 DEF TypeOK
<1>3. SlotSound(s)'
  BY <1>2 DEF SlotSound, MigPCs, Requests
<1> QED
  BY <1>0, <1>1, <1>2, <1>3, OwnStep

(* boot ends, or fails.                                                    *)
LEMMA BootStep ==
  ASSUME IInv, NEW s \in Slots, Boot(s)
  PROVE  IInv'
<1>0. /\ pc[s] = "boot" /\ TypeOK /\ proc[s] # "idle" /\ proc[s] \in Procs
      /\ pc' = [pc EXCEPT ![s] = "none"]
      /\ UNCHANGED <<host, reg, target, ctx, att, attempts, del, calls, files, trouble>>
  BY DEF Boot, IInv, SlotSound, TypeOK
<1>1. \/ proc[s] = "running" /\ state' = [state EXCEPT ![s] = "running"] /\ proc' = proc
      \/ state' = [state EXCEPT ![s] = "dead"] /\ proc' = [proc EXCEPT ![s] = Killed(proc[s])]
  BY DEF Boot
<1>2. Killed(proc[s]) \in {"none", "killed"}
  BY DEF Killed
<1>3. TypeOK'
  BY <1>0, <1>1, <1>2 DEF TypeOK, States, Procs, PCs
<1>4. /\ \A x \in Slots : x # s => proc'[x] = proc[x] /\ state'[x] = state[x] /\ pc'[x] = pc[x]
      /\ pc'[s] = "none" /\ proc'[s] # "idle"
      /\ proc'[s] = "none" => proc[s] = "none"
      /\ proc[s] = "killed" => proc'[s] = "killed"
      /\ \/ state'[s] = "running" /\ proc'[s] = "running" /\ proc[s] = "running"
         \/ state'[s] = "dead" /\ proc'[s] # "running"
  BY <1>0, <1>1, <1>2 DEF TypeOK, Killed
<1>5. SlotSound(s)'
  BY <1>4 DEF SlotSound, MigPCs, Requests
<1>6. proc'[s] = "running" => s \in Claims
  BY <1>4 DEF Claims
<1> QED
  BY <1>0, <1>3, <1>4, <1>5, <1>6, OwnStep DEF Requests

-----------------------------------------------------------------------------
(* The target's handlers.                                                  *)

(* handlePrepare spawns a waiting process in a new object.                 *)
LEMMA PrepareSpawnStep ==
  ASSUME IInv, NEW c \in calls, PrepareSpawn(c)
  PROVE  IInv'
<1> USE DEF IInv
<1> DEFINE n == NewSlot
<1>0. /\ c.kind = "prepare" /\ c.st = "sent" /\ c \in Call
      /\ state' = [state EXCEPT ![n] = "receiving"]
      /\ proc' = [proc EXCEPT ![n] = "idle"]
      /\ host' = [host EXCEPT ![n] = c.to]
      /\ files' = [files EXCEPT ![c.to] = @ \cup {Dir}]
      /\ UNCHANGED <<reg, pc, target, ctx, att, attempts, del>>
      /\ trouble \subseteq trouble' /\ trouble' \subseteq trouble \cup {"spawn"}
  BY DEF PrepareSpawn, srcVars, TypeOK
<1>1. /\ n \in Slots /\ n # NoSlot
      /\ proc[n] \in {"none", "killed"} /\ pc[n] = "none"
      /\ \A h \in Hosts : reg[h] # n
      /\ \A d \in calls : d.slot # n
      /\ \A d \in Deletes : del[d].slot # n
  BY NewSlotIsUnused, SlotsAssumption DEF PrepareSpawn
<1>2. PICK d \in Call :
        /\ calls' = (calls \ {c}) \cup {d}
        /\ d.from = c.from /\ d.kind = c.kind /\ d.to = c.to /\ d.att = c.att
        /\ d.orphan = c.orphan
        /\ \/ d.st = "spawned" /\ d.slot = n
           \/ d.st = "err" /\ d.slot = NoSlot
  <2>1. CASE Step(c, "spawned", n)
    BY <1>1, <2>1, StepReplaces DEF TypeOK, CallStates
  <2>2. CASE Step(c, "err", NoSlot)
    BY <2>2, StepReplaces DEF TypeOK, CallStates
  <2> QED
    BY <2>1, <2>2 DEF PrepareSpawn
<1> HIDE DEF n
<1>3. /\ c.to \in Hosts /\ host'[n] = c.to /\ state'[n] = "receiving" /\ proc'[n] = "idle"
      /\ \A x \in Slots : x # n => /\ host'[x] = host[x] /\ state'[x] = state[x]
                                   /\ proc'[x] = proc[x]
  BY <1>0, <1>1 DEF TypeOK, Call
<1>4. TypeOK'
  <2>1. files[c.to] \cup {Dir} \in SUBSET (Kinds \X (0 .. attempts))
    BY <1>3 DEF TypeOK, Kinds, Dir
  <2>2. \A e \in calls' : e \in Call /\ e.att <= attempts
    BY <1>2 DEF TypeOK
  <2> QED
    BY <1>0, <1>1, <1>3, <2>1, <2>2 DEF TypeOK, States, Procs, Troubles
<1>f. Fallen \subseteq Fallen'
  BY <1>0, <1>2, FallenStays
<1>d. \A e \in Deletes : DelSound(e)'
  <2>1. \A x \in Slots : x # n => /\ host'[x] = host[x]
                                  /\ proc[x] = "killed" => proc'[x] = "killed"
                                  /\ proc'[x] = "idle" => proc[x] = "idle"
    BY <1>3
  <2>2. \A e \in calls' : e.st = "spawned" =>
          e.slot = n \/ \E f \in calls : f.st = "spawned" /\ f.slot = e.slot
    BY <1>2
  <2> HIDE DEF IInv
  <2> QED
    BY <1>0, <1>1, <2>1, <2>2, DelStaysBut
<1>5. ASSUME NEW e \in calls' PROVE CallSound(e)'
  <2>1. CASE e = d
    BY <1>0, <1>1, <1>2, <1>3, <2>1 DEF CallSound, Call
  <2>2. CASE e \in calls
    BY <1>0, <1>1, <1>3, <1>f, <2>2 DEF CallSound, TypeOK, Call
  <2> QED
    BY <1>2, <2>1, <2>2
<1>6. CallsApart'
  <2>1. \A e \in calls : e.st = "spawned" => e.slot # NoSlot
    BY SlotsAssumption DEF CallSound
  <2> QED
    BY <1>0, <1>1, <1>2, <2>1 DEF CallsApart
<1>7. \A x \in Slots : SlotSound(x)'
  BY <1>0, <1>1, <1>3 DEF SlotSound, MigPCs, Requests
<1>8. \A h \in Hosts : RegSound(h)'
  BY <1>0, <1>1, <1>3, <1>f DEF RegSound, TypeOK
<1>9. OneClaim'
  <2>1. \A x \in Slots : HandedOver(x) => HandedOver(x)'
    BY <1>0, <1>2, StepKeepsHandover
  <2>2. Claimants' \subseteq Claimants
    BY <1>0, <1>1, <1>2, <1>3, <2>1 DEF Claimants, Claims, Eligible, Loaded, TypeOK
  <2> QED
    BY <1>0, <1>2, <2>2, NoNewClaim
<1> QED
  BY <1>4, <1>5, <1>6, <1>d, <1>7, <1>8, <1>9

(* A handler that only reads the registry, or writes files.                *)
LEMMA ReadingStep ==
  ASSUME IInv, NEW c \in calls, NEW st, NEW n,
         Step(c, st, n),
         c.st \in {"sent", "freed"},
         \/ st \in {"ok", "err"} /\ n = NoSlot
         \/ /\ st = "checked" /\ c.kind \in {"finalize", "abort"}
            /\ n = reg[c.to] /\ n # NoSlot /\ state[n] = "receiving",
         UNCHANGED <<slotVars, reg, srcVars, trouble>>,
         files' \in [Hosts -> SUBSET (Kinds \X (0 .. attempts))]
  PROVE  IInv'
<1> USE DEF IInv
<1>0. c \in Call /\ c.to \in Hosts /\ n \in Slots \cup {NoSlot}
  BY DEF TypeOK, Call
<1>1. PICK d \in Call :
        /\ calls' = (calls \ {c}) \cup {d}
        /\ d.from = c.from /\ d.kind = c.kind /\ d.to = c.to /\ d.att = c.att
        /\ d.orphan = c.orphan /\ d.st = st /\ d.slot = n
  <2>1. calls \subseteq Call
    BY DEF TypeOK
  <2>2. st \in CallStates
    BY DEF CallStates
  <2> HIDE DEF IInv
  <2> QED
    BY <1>0, <2>1, <2>2, StepReplaces
<1>2. TypeOK'
  <2>1. \A e \in calls' : e \in Call /\ e.att <= attempts
    BY <1>1 DEF TypeOK
  <2> QED
    BY <2>1 DEF TypeOK, slotVars, srcVars
<1>f. Fallen \subseteq Fallen'
  BY <1>1, FallenStays DEF srcVars
<1>d. \A e \in Deletes : DelSound(e)'
  BY <1>1, DelStays DEF slotVars, srcVars
<1>3. ASSUME NEW e \in calls' PROVE CallSound(e)'
  <2>1. CASE e = d
    <3>1. n # NoSlot => n \in Slots /\ host[n] = c.to /\ proc[n] # "none"
      BY <1>0 DEF RegSound, SlotSound, TypeOK
    <3> QED
      BY <1>0, <1>1, <2>1, <3>1 DEF CallSound, slotVars, srcVars
  <2>2. CASE e \in calls
    BY <1>f, <2>2 DEF CallSound, slotVars, srcVars
  <2> QED
    BY <1>1, <2>1, <2>2
<1>4. CallsApart'
  <2>1. \A e \in calls : e.st = "spawned" => e.slot # NoSlot /\ (n # NoSlot => e.slot # n)
    BY <1>0, SlotsAssumption DEF CallSound, RegSound, TypeOK, Call
  <2> QED
    BY <1>1, <2>1 DEF CallsApart
<1>5. (\A x \in Slots : SlotSound(x)') /\ (\A h \in Hosts : RegSound(h)')
  BY <1>f DEF SlotSound, RegSound, slotVars, srcVars
<1>6. OneClaim'
  <2>0. UNCHANGED <<state, proc, host, reg, pc, trouble>>
    BY DEF slotVars, srcVars
  <2>1. \A x \in Slots : HandedOver(x) => HandedOver(x)'
    BY <1>1, <2>0, StepKeepsHandover
  <2>2. Claimants' \subseteq Claimants
    BY <1>1, <2>0, <2>1 DEF Claimants, Claims, Eligible, Loaded
  <2>3. \A e \in calls' : (e.kind = "finalize" /\ e.orphan) =>
            e \in calls \/ Excuses({"finalize", "create"})'
    BY <1>1, <2>0 DEF OneClaim, Excuses
  <2> QED
    BY <2>0, <2>2, <2>3, NoNewClaim
<1> QED
  BY <1>2, <1>3, <1>4, <1>d, <1>5, <1>6

(* handleMem and handleVMState.                                            *)
LEMMA ReceiveStep ==
  ASSUME IInv, NEW c \in calls, Receive(c)
  PROVE  IInv'
<1>0. /\ c.st = "sent" /\ c.kind \in {"mem", "final", "vmstate"} /\ c.kind \in Kinds
      /\ UNCHANGED <<slotVars, reg, srcVars, trouble>>
      /\ TypeOK /\ c.to \in Hosts /\ c.att \in 0 .. attempts
  BY DEF Receive, IInv, TypeOK, Call, Kinds
<1>1. /\ Replaced(files[c.to], c.kind, c.att) \in SUBSET (Kinds \X (0 .. attempts))
      /\ files[c.to] \cup {<<c.kind, c.att>>} \in SUBSET (Kinds \X (0 .. attempts))
  BY <1>0, FilesTyped DEF FileSets
<1>2. \/ files' = [files EXCEPT ![c.to] = Replaced(@, c.kind, c.att)]
      \/ files' = [files EXCEPT ![c.to] = @ \cup {<<c.kind, c.att>>}]
      \/ files' = files
  BY DEF Receive
<1>3. files' \in [Hosts -> SUBSET (Kinds \X (0 .. attempts))]
  BY <1>0, <1>1, <1>2 DEF TypeOK
<1>4. Step(c, "ok", NoSlot) \/ Step(c, "err", NoSlot)
  BY DEF Receive
<1> QED
  BY <1>0, <1>3, <1>4, ReadingStep

(* The steps of finalize and abort that change no object.                  *)
LEMMA CheckStep ==
  ASSUME IInv, NEW c \in calls, FinalizeCheck(c) \/ AbortCheck(c) \/ AbortRemove(c)
  PROVE  IInv'
<1>0. c.to \in Hosts /\ TypeOK
  BY DEF IInv, TypeOK, Call
<1>1. CASE FinalizeCheck(c)
  <2>1. /\ c.st = "sent" /\ c.kind = "finalize"
        /\ UNCHANGED <<slotVars, reg, srcVars, files, trouble>>
        /\ \/ /\ Step(c, "checked", reg[c.to])
              /\ reg[c.to] # NoSlot /\ state[reg[c.to]] = "receiving"
           \/ Step(c, "err", NoSlot)
    BY <1>1 DEF FinalizeCheck, Receiving
  <2> QED
    BY <1>0, <2>1, ReadingStep DEF TypeOK
<1>2. CASE AbortCheck(c)
  <2>1. /\ c.st = "sent" /\ c.kind = "abort"
        /\ UNCHANGED <<slotVars, reg, srcVars, files, trouble>>
        /\ \/ /\ Step(c, "checked", reg[c.to])
              /\ reg[c.to] # NoSlot /\ state[reg[c.to]] = "receiving"
           \/ Step(c, "err", NoSlot)
           \/ Step(c, "ok", NoSlot)
    BY <1>2 DEF AbortCheck
  <2> QED
    BY <1>0, <2>1, ReadingStep DEF TypeOK
<1>3. CASE AbortRemove(c)
  <2>1. /\ c.st = "freed" /\ c.kind = "abort"
        /\ UNCHANGED <<slotVars, reg, srcVars, trouble>>
        /\ files' = [files EXCEPT ![c.to] = {}]
        /\ Step(c, "ok", NoSlot)
    BY <1>3 DEF AbortRemove
  <2>2. files' \in [Hosts -> SUBSET (Kinds \X (0 .. attempts))]
    BY <1>0, <2>1 DEF TypeOK
  <2> QED
    BY <2>1, <2>2, ReadingStep
<1> QED
  BY <1>1, <1>2, <1>3

(* An orphan ends unnoticed.                                               *)
LEMMA ForgetStep ==
  ASSUME IInv, NEW c \in calls, Forget(c)
  PROVE  IInv'
<1> USE DEF IInv
<1>0. /\ c.orphan /\ c.st \in {"sent", "ok", "err"} /\ calls' = calls \ {c}
      /\ UNCHANGED <<slotVars, reg, srcVars, files, trouble>>
  BY DEF Forget
<1>1. TypeOK'
  BY <1>0 DEF TypeOK, slotVars, srcVars
<1>f. Fallen \subseteq Fallen' /\ \A d \in Deletes : DelSound(d)'
  BY <1>0, FallenStays, DelStays DEF slotVars, srcVars
<1>2. /\ \A e \in calls' : CallSound(e)'
      /\ CallsApart'
      /\ \A x \in Slots : SlotSound(x)'
      /\ \A h \in Hosts : RegSound(h)'
  BY <1>0, <1>f DEF CallSound, CallsApart, SlotSound, RegSound, slotVars, srcVars
<1>3. OneClaim'
  <2>1. \A x \in Slots : HandedOver(x) => HandedOver(x)'
    BY <1>0 DEF HandedOver, Pending, srcVars
  <2>2. Claimants' \subseteq Claimants
    BY <1>0, <2>1 DEF Claimants, Claims, Eligible, Loaded, slotVars, srcVars
  <2> QED
    BY <1>0, <2>2, NoNewClaim
<1> QED
  BY <1>1, <1>f, <1>2, <1>3

(* handlePrepare takes the registry's slot and kills the VM object that    *)
(* was there, or its own.                                                  *)
LEMMA PrepareFileStep ==
  ASSUME IInv, NEW c \in calls, PrepareFile(c)
  PROVE  IInv'
<1> USE DEF IInv
<1>0. /\ c.kind = "prepare" /\ c.st = "spawned" /\ c \in Call /\ c.to \in Hosts
      /\ c.slot \in Slots /\ host[c.slot] = c.to /\ proc[c.slot] = "idle"
      /\ reg[c.to] # c.slot /\ state[c.slot] = "receiving" /\ pc[c.slot] = "none"
      /\ \A h \in Hosts : reg[h] # c.slot
      /\ \A e \in calls : e.slot = c.slot => e = c
      /\ UNCHANGED <<state, host, pc, target, ctx, att, attempts, del, trouble>>
      /\ c.slot # NoSlot
  BY SlotsAssumption DEF PrepareFile, CallSound, SlotSound, RegSound, CallsApart, TypeOK, Call, srcVars
<1>1. PICK d \in Call :
        /\ calls' = (calls \ {c}) \cup {d}
        /\ d.from = c.from /\ d.kind = c.kind /\ d.to = c.to /\ d.att = c.att
        /\ d.orphan = c.orphan /\ d.st \in {"ok", "err"} /\ d.slot = NoSlot
  <2>1. Step(c, "ok", NoSlot) \/ Step(c, "err", NoSlot)
    BY DEF PrepareFile
  <2> QED
    BY <2>1, StepReplaces DEF TypeOK, CallStates
<1>2. PICK v \in Slots \cup {NoSlot} :
        /\ proc' = IF v = NoSlot THEN proc ELSE [proc EXCEPT ![v] = Killed(@)]
        /\ \/ /\ v = reg[c.to] /\ reg' = [reg EXCEPT ![c.to] = c.slot]
              /\ files' = [files EXCEPT ![c.to] = Prepared(@, c.att)]
           \/ v = c.slot /\ reg' = reg /\ files' = files
  <2>1. reg[c.to] \in Slots \cup {NoSlot}
    BY <1>0 DEF TypeOK
  <2> QED
    BY <1>0, <2>1 DEF PrepareFile
<1>3. /\ v \in Slots => proc'[v] \in {"none", "killed"}
      /\ \A x \in Slots : x # v => proc'[x] = proc[x]
      /\ proc' \in [Slots -> Procs]
  BY <1>2, SlotsAssumption DEF TypeOK, Killed, Procs
<1>f. Fallen \subseteq Fallen'
  BY <1>0, <1>1, FallenStays
<1>4. v \in Slots => host[v] = c.to /\ reg'[c.to] # v
  BY <1>0, <1>2, SlotsAssumption DEF RegSound, TypeOK
<1>5. /\ reg' \in [Hosts -> Slots \cup {NoSlot}]
      /\ \A h \in Hosts : reg'[h] = reg[h] \/ (h = c.to /\ reg'[h] = c.slot /\ v # c.slot)
  BY <1>0, <1>2 DEF TypeOK
<1>6. TypeOK'
  <2>1. files' \in [Hosts -> SUBSET (Kinds \X (0 .. attempts))]
    <3>1. Prepared(files[c.to], c.att) \in SUBSET (Kinds \X (0 .. attempts))
      <4>1. "recv" \in Kinds /\ c.att \in 0 .. attempts
        BY <1>0 DEF Kinds, TypeOK, Call
      <4> QED
        BY <1>0, <4>1, FilesTyped DEF FileSets
    <3> QED
      BY <1>0, <1>2, <3>1 DEF TypeOK
  <2>2. \A e \in calls' : e \in Call /\ e.att <= attempts
    BY <1>0, <1>1 DEF TypeOK
  <2> QED
    BY <1>0, <1>3, <1>5, <2>1, <2>2 DEF TypeOK
<1>m. \A x \in Slots : proc'[x] = proc[x] \/ (proc[x] # "none" /\ proc'[x] = "killed")
  BY <1>2, <1>3, SlotsAssumption DEF TypeOK, Killed
<1>d. \A e \in Deletes : DelSound(e)'
  BY <1>0, <1>1, <1>m, DelStays
<1>7. ASSUME NEW e \in calls' PROVE CallSound(e)'
  <2>1. CASE e = d
    BY <1>0, <1>1, <2>1 DEF CallSound
  <2>2. CASE e \in calls /\ e # c
    <3>1. e.slot # c.slot /\ e.to \in Hosts /\ CallSound(e)
      BY <1>0, <2>2 DEF TypeOK, Call
    <3>2. e.st = "spawned" => e.slot # v /\ e.slot # NoSlot
      BY <1>0, <1>2, <1>4, <3>1, SlotsAssumption DEF CallSound
    <3>3. e.st = "loaded" => /\ proc'[e.slot] \in {"running", "killed"}
                             /\ reg'[e.to] = e.slot => proc'[e.slot] = "running" \/ e.slot \in Fallen'
      <4> HAVE e.st = "loaded"
      <4>1. e.slot \in Slots /\ host[e.slot] = e.to /\ proc[e.slot] \in {"running", "killed"}
        BY <3>1 DEF CallSound
      <4>2. CASE e.slot # v
        BY <1>3, <1>5, <1>f, <3>1, <4>1, <4>2 DEF CallSound
      <4>3. CASE e.slot = v
        <5>1. proc'[v] = "killed"
          BY <1>2, <4>1, <4>3, SlotsAssumption DEF TypeOK, Killed
        <5> QED
          BY <1>4, <4>1, <4>3, <5>1
      <4> QED
        BY <4>2, <4>3
    <3>4. e.st = "spawned" => proc'[e.slot] = "idle" /\ reg'[e.to] # e.slot
      BY <1>3, <1>5, <3>1, <3>2 DEF CallSound
    <3>5. e.st \in {"checked", "loaded", "killed"} =>
            /\ proc'[e.slot] # "none"
            /\ e.st = "killed" => proc'[e.slot] = "killed"
      BY <1>m, <3>1 DEF CallSound
    <3> QED
      BY <1>0, <3>1, <3>3, <3>4, <3>5 DEF CallSound
  <2> QED
    BY <1>1, <2>1, <2>2
<1>8. CallsApart'
  <2>1. \A e \in calls : e.st = "spawned" => e.slot # NoSlot
    BY SlotsAssumption DEF CallSound
  <2> QED
    BY <1>1, <2>1 DEF CallsApart
<1>9. \A x \in Slots : SlotSound(x)'
  BY <1>0, <1>m DEF SlotSound
<1>10. \A h \in Hosts : RegSound(h)'
  <2> TAKE h \in Hosts
  <2>1. CASE reg'[h] = reg[h]
    <3>1. reg[h] # NoSlot => reg[h] # v
      BY <1>0, <1>4, <2>1 DEF RegSound, TypeOK
    <3> QED
      BY <1>0, <1>3, <1>f, <2>1, <3>1 DEF RegSound, TypeOK
  <2>2. CASE h = c.to /\ reg'[h] = c.slot /\ v # c.slot
    BY <1>0, <1>3, <2>2 DEF RegSound
  <2> QED
    BY <1>5, <2>1, <2>2
<1>11. OneClaim'
  <2>1. \A x \in Slots : HandedOver(x) => HandedOver(x)'
    BY <1>0, <1>1, StepKeepsHandover
  <2>2. Claims' \subseteq Claims
    BY <1>0, <1>3, <2>1 DEF Claims
  <2>3. Eligible' \subseteq Eligible
    BY <1>0, <1>5 DEF Eligible, TypeOK
  <2>4. Loaded' \subseteq Loaded
    BY <1>1 DEF Loaded
  <2>5. Claimants' \subseteq Claimants
    BY <2>2, <2>3, <2>4 DEF Claimants
  <2> QED
    BY <1>0, <1>1, <2>5, NoNewClaim
<1> QED
  BY <1>6, <1>7, <1>8, <1>d, <1>9, <1>10, <1>11

(* The process of a VM object is killed, by an abort or by a DELETE that   *)
(* goes on to free the registry's slot.                                    *)
LEMMA KillStep ==
  ASSUME IInv, TypeOK', NEW v \in Slots,
         proc' = [proc EXCEPT ![v] = Killed(@)],
         UNCHANGED <<state, host, reg, pc, target>>, trouble \subseteq trouble',
         \A e \in calls : ~(e.st = "spawned" /\ e.slot = v),
         \A e \in calls' : \/ e \in calls
                           \/ /\ CallSound(e)' /\ e.st # "loaded"
                              /\ e.kind = "finalize" => ~e.orphan,
         CallsApart', \A d \in Deletes : DelSound(d)',
         \A x \in Slots : HandedOver(x) => HandedOver(x)',
         Fallen \cup {v} \subseteq Fallen'
  PROVE  IInv'
<1> USE DEF IInv
<1>1. /\ \A x \in Slots : x # v => proc'[x] = proc[x]
      /\ proc'[v] = IF proc[v] = "none" THEN "none" ELSE "killed"
  BY DEF TypeOK, Killed
<1>2. ASSUME NEW e \in calls', e \in calls PROVE CallSound(e)'
  <2>1. CallSound(e)
    BY <1>2
  <2> QED
    BY <1>1, <1>2, <2>1 DEF CallSound
<1>3. \A x \in Slots : SlotSound(x)'
  BY <1>1 DEF SlotSound
<1>4. \A h \in Hosts : RegSound(h)'
  BY <1>1 DEF RegSound, TypeOK
<1>5. OneClaim'
  <2>1. Claimants' \subseteq Claimants
    BY <1>1 DEF Claimants, Claims, Eligible, Loaded
  <2> QED
    BY <2>1, NoNewClaim
<1> QED
  BY <1>2, <1>3, <1>4, <1>5

(* The registry's slot of an agent is freed, whoever is in it.             *)
LEMMA FreeStep ==
  ASSUME IInv, TypeOK', NEW h \in Hosts,
         reg' = [reg EXCEPT ![h] = NoSlot],
         UNCHANGED <<state, proc, host, pc, target>>, trouble \subseteq trouble',
         \A e \in calls' : \/ e \in calls
                           \/ /\ CallSound(e)' /\ e.st # "loaded"
                              /\ e.kind = "finalize" => ~e.orphan,
         CallsApart', \A d \in Deletes : DelSound(d)',
         \A x \in Slots : HandedOver(x) => HandedOver(x)',
         \A x \in Fallen : x \in Fallen' \/ host[x] = h
  PROVE  IInv'
<1> USE DEF IInv
<1>1. reg'[h] = NoSlot /\ \A g \in Hosts : g # h => reg'[g] = reg[g]
  BY DEF TypeOK
<1>2. ASSUME NEW e \in calls', e \in calls PROVE CallSound(e)'
  <2>1. CallSound(e) /\ e.to \in Hosts
    BY <1>2 DEF TypeOK, Call
  <2>2. CASE e.to = h
    BY <1>1, <1>2, <2>1, <2>2, SlotsAssumption DEF CallSound
  <2>3. CASE e.to # h
    BY <1>1, <1>2, <2>1, <2>3 DEF CallSound
  <2> QED
    BY <2>2, <2>3
<1>3. \A x \in Slots : SlotSound(x)'
  BY DEF SlotSound
<1>4. \A g \in Hosts : RegSound(g)'
  BY <1>1 DEF RegSound, TypeOK
<1>5. OneClaim'
  <2>1. Eligible' \subseteq Eligible
    BY <1>1, SlotsAssumption DEF Eligible, TypeOK
  <2>2. Claimants' \subseteq Claimants
    BY <2>1 DEF Claimants, Claims, Loaded
  <2> QED
    BY <2>2, NoNewClaim
<1> QED
  BY <1>2, <1>3, <1>4, <1>5

(* handleAbort kills what it has found.                                    *)
LEMMA AbortKillStep ==
  ASSUME IInv, NEW c \in calls, AbortKill(c)
  PROVE  IInv'
<1>0. /\ c.kind = "abort" /\ c.st = "checked" /\ c \in Call /\ c.to \in Hosts
      /\ c.slot \in Slots /\ host[c.slot] = c.to /\ TypeOK /\ proc[c.slot] # "none"
      /\ proc' = [proc EXCEPT ![c.slot] = Killed(@)]
      /\ UNCHANGED <<state, host, reg, pc, target, ctx, att, attempts, del, files, trouble>>
  BY DEF AbortKill, IInv, CallSound, TypeOK, Call, srcVars
<1>1. PICK d \in Call :
        /\ calls' = (calls \ {c}) \cup {d}
        /\ d.from = c.from /\ d.kind = c.kind /\ d.to = c.to /\ d.att = c.att
        /\ d.orphan = c.orphan /\ d.st = "killed" /\ d.slot = c.slot
  <2>1. calls \subseteq Call /\ c.slot \in Slots \cup {NoSlot} /\ "killed" \in CallStates
    BY <1>0 DEF TypeOK, CallStates
  <2>2. Step(c, "killed", c.slot)
    BY DEF AbortKill
  <2> QED
    BY <2>1, <2>2, StepReplaces
<1>2. TypeOK'
  <2>1. \A e \in calls' : e \in Call /\ e.att <= attempts
    BY <1>0, <1>1 DEF TypeOK
  <2> QED
    BY <1>0, <2>1 DEF TypeOK, Procs, Killed
<1>3. \A e \in calls : ~(e.st = "spawned" /\ e.slot = c.slot)
  BY <1>0 DEF IInv, CallsApart
<1>4. CallSound(d)' /\ d.st # "loaded"
  <2>1. proc'[c.slot] = "killed"
    BY <1>0 DEF TypeOK, Killed
  <2> QED
    BY <1>0, <1>1, <2>1 DEF CallSound, IInv
<1>5. CallsApart'
  <2>1. \A e \in calls : e.st = "spawned" => e.slot # c.slot
    BY <1>3
  <2> QED
    BY <1>1, <2>1 DEF CallsApart, IInv
<1>6. \A x \in Slots : HandedOver(x) => HandedOver(x)'
  BY <1>0, <1>1, StepKeepsHandover
<1>7. Fallen \cup {c.slot} \subseteq Fallen'
  <2>1. Fallen \subseteq Fallen'
    BY <1>0, <1>1, FallenStays
  <2>2. d \in calls' /\ d.kind = "abort"
    BY <1>0, <1>1
  <2> QED
    BY <1>0, <1>1, <2>1, <2>2 DEF Fallen, Doomed
<1>8. \A e \in Deletes : DelSound(e)'
  <2>1. \A x \in Slots : proc'[x] = proc[x] \/ proc'[x] = "killed"
    BY <1>0 DEF TypeOK, Killed
  <2> QED
    BY <1>0, <1>1, <2>1, DelStays
<1> QED
  BY <1>0, <1>1, <1>2, <1>3, <1>4, <1>5, <1>6, <1>7, <1>8, KillStep

(* handleAbort frees the slot.                                             *)
LEMMA AbortFreeStep ==
  ASSUME IInv, NEW c \in calls, AbortFree(c)
  PROVE  IInv'
<1>0. /\ c.kind = "abort" /\ c.st = "killed" /\ c \in Call /\ c.to \in Hosts
      /\ host[c.slot] = c.to /\ TypeOK
      /\ reg' = [reg EXCEPT ![c.to] = NoSlot]
      /\ UNCHANGED <<state, proc, host, pc, target, ctx, att, attempts, del, files, trouble>>
  BY DEF AbortFree, IInv, CallSound, TypeOK, Call, slotVars, srcVars
<1>1. PICK d \in Call :
        /\ calls' = (calls \ {c}) \cup {d}
        /\ d.from = c.from /\ d.kind = c.kind /\ d.to = c.to /\ d.att = c.att
        /\ d.orphan = c.orphan /\ d.st = "freed" /\ d.slot = NoSlot
  BY StepReplaces DEF AbortFree, IInv, TypeOK, CallStates
<1>2. TypeOK'
  <2>1. \A e \in calls' : e \in Call /\ e.att <= attempts
    BY <1>0, <1>1 DEF TypeOK
  <2> QED
    BY <1>0, <2>1 DEF TypeOK
<1>4. CallSound(d)' /\ d.st # "loaded"
  BY <1>0, <1>1 DEF CallSound, IInv
<1>5. CallsApart'
  <2>1. \A e \in calls : e.st = "spawned" => e.slot # NoSlot
    BY SlotsAssumption DEF CallSound, IInv
  <2> QED
    BY <1>1, <2>1 DEF CallsApart, IInv
<1>6. \A x \in Slots : HandedOver(x) => HandedOver(x)'
  BY <1>0, <1>1, StepKeepsHandover
<1>7. \A x \in Fallen : x \in Fallen' \/ host[x] = c.to
  BY <1>0, <1>1 DEF Fallen, Doomed
<1>8. \A e \in Deletes : DelSound(e)'
  BY <1>0, <1>1, DelStays
<1> QED
  BY <1>0, <1>1, <1>2, <1>4, <1>5, <1>6, <1>7, <1>8, FreeStep

(* The step in which the claim goes over: the target loads the snapshot,   *)
(* and the source, which waits for the reply, stops claiming.              *)
LEMMA FinalizeLoadStep ==
  ASSUME IInv, NEW c \in calls, FinalizeLoad(c)
  PROVE  IInv'
<1> USE DEF IInv
<1> DEFINE x == c.slot
<1>0. /\ c.kind = "finalize" /\ c.st = "checked" /\ c \in Call /\ c.to \in Hosts
      /\ x \in Slots /\ host[x] = c.to /\ c.from \in Slots /\ x # NoSlot
      /\ \A e \in calls : ~(e.st = "spawned" /\ e.slot = x)
      /\ UNCHANGED <<state, host, reg, pc, target, ctx, att, attempts, del, files>>
  BY SlotsAssumption DEF FinalizeLoad, CallSound, CallsApart, TypeOK, Call, srcVars
<1>1. PICK d \in Call :
        /\ calls' = (calls \ {c}) \cup {d}
        /\ d.from = c.from /\ d.kind = c.kind /\ d.to = c.to /\ d.att = c.att
        /\ d.orphan = c.orphan
        /\ \/ /\ d.st = "loaded" /\ d.slot = x
              /\ proc[x] = "idle" /\ proc' = [proc EXCEPT ![x] = "running"] /\ trouble' = trouble
           \/ /\ d.st = "err" /\ d.slot = NoSlot /\ proc' = proc /\ trouble' = trouble
           \/ /\ d.st = "err" /\ d.slot = NoSlot
              /\ proc[x] = "idle" /\ proc' = [proc EXCEPT ![x] = "running"]
              /\ trouble' = trouble \cup {"finalize"}
  <2>0. calls \subseteq Call
    BY DEF TypeOK
  <2>1. CASE /\ Step(c, "loaded", x)
             /\ proc[x] = "idle" /\ proc' = [proc EXCEPT ![x] = "running"] /\ trouble' = trouble
    BY <1>0, <2>0, <2>1, StepReplaces DEF CallStates
  <2>2. CASE /\ Step(c, "err", NoSlot)
             /\ \/ proc' = proc /\ trouble' = trouble
                \/ /\ proc[x] = "idle" /\ proc' = [proc EXCEPT ![x] = "running"]
                   /\ trouble' = trouble \cup {"finalize"}
    BY <2>0, <2>2, StepReplaces DEF CallStates
  <2> QED
    BY <2>1, <2>2 DEF FinalizeLoad
<1> HIDE DEF x
<1>2. /\ proc' \in [Slots -> Procs]
      /\ \A y \in Slots : y # x => proc'[y] = proc[y]
      /\ proc'[x] = proc[x] \/ (proc[x] = "idle" /\ proc'[x] = "running")
      /\ d.st = "loaded" => proc[x] = "idle" /\ proc'[x] = "running"
      /\ trouble \subseteq trouble' /\ trouble' \subseteq Troubles
  BY <1>0, <1>1 DEF TypeOK, Procs, Troubles, Requests
<1>3. proc[x] = "idle" => state[x] = "receiving" /\ pc[x] = "none"
  BY <1>0 DEF SlotSound
<1>4. TypeOK'
  <2>1. \A e \in calls' : e \in Call /\ e.att <= attempts
    BY <1>1 DEF TypeOK
  <2> QED
    BY <1>0, <1>2, <2>1 DEF TypeOK
<1>5. \A e \in calls : e.st \in {"loaded", "killed"} /\ e.slot = x => proc[x] # "idle"
  BY DEF CallSound
<1>f. Fallen \subseteq Fallen'
  BY <1>0, <1>1, FallenStays
<1>d. \A e \in Deletes : DelSound(e)'
  BY <1>0, <1>1, <1>2, DelStays
<1>6. ASSUME NEW e \in calls' PROVE CallSound(e)'
  <2>1. CASE e = d
    BY <1>0, <1>1, <1>2, <1>3, <2>1 DEF CallSound
  <2>2. CASE e \in calls
    BY <1>0, <1>2, <1>5, <1>f, <2>2 DEF CallSound
  <2> QED
    BY <1>1, <2>1, <2>2
<1>7. CallsApart'
  <2>1. \A e \in calls : e.st = "spawned" => e.slot # NoSlot
    BY SlotsAssumption DEF CallSound
  <2> QED
    BY <1>0, <1>1, <1>5, <2>1 DEF CallsApart
<1>8. \A y \in Slots : SlotSound(y)'
  BY <1>0, <1>2, <1>3 DEF SlotSound, MigPCs, Requests
<1>9. \A h \in Hosts : RegSound(h)'
  BY <1>0, <1>2, <1>3, <1>f DEF RegSound, TypeOK
<1>10. \A y \in Slots : HandedOver(y) => HandedOver(y)'
  BY <1>0, <1>1, StepKeepsHandover
<1>11. OneClaim'
  <2>0. CASE "finalize" \in trouble'
    BY <2>0 DEF OneClaim, Excuses
  <2>1. CASE d.st = "err" /\ trouble' = trouble /\ "finalize" \notin trouble'
    <3>1. proc' = proc
      BY <1>1, <2>1
    <3>2. Claimants' \subseteq Claimants
      BY <1>0, <1>1, <1>10, <2>1, <3>1 DEF Claimants, Claims, Eligible, Loaded
    <3> QED
      BY <1>0, <1>1, <2>1, <3>2, NoNewClaim DEF OneClaim, Excuses
  <2>2. CASE d.st = "loaded" /\ Excuses({"finalize", "create"})
    BY <1>2, <2>2 DEF OneClaim, Excuses
  <2>3. CASE d.st = "loaded" /\ ~Excuses({"finalize", "create"})
    <3>1. /\ ~c.orphan /\ pc[c.from] = "finalize"
          /\ \A y, z \in Claimants : y = z
          /\ \A e \in calls : e.kind = "finalize" => ~e.orphan
      BY <1>0, <2>3 DEF OneClaim, CallSound
    <3>2. c.from \in Claimants
      <4>1. ~HandedOver(c.from)
        BY <1>0, <3>1 DEF HandedOver, Pending, CallsApart
      <4> QED
        BY <1>0, <3>1, <4>1 DEF Claimants, Claims, Requests
    <3>3. HandedOver(c.from)'
      BY <1>0, <1>1, <2>3, <3>1 DEF HandedOver, Pending
    <3>4. proc[c.from] # "running"
      BY <1>0, <3>1 DEF SlotSound
    <3>6. state[c.from] # "running" /\ c.from \notin Loaded
      BY <1>0, <3>1 DEF SlotSound, MigPCs, Requests, Loaded, CallSound
    <3>5. \A y \in Claimants' : y = x
      <4> TAKE y \in Claimants'
      <4> SUFFICES ASSUME y # x PROVE FALSE
        OBVIOUS
      <4>1. CASE y \in Claims'
        <5>1. y \in Claims
          BY <1>0, <1>2, <1>10, <4>1 DEF Claims
        <5>2. y = c.from
          BY <3>1, <3>2, <5>1 DEF Claimants
        <5> QED
          BY <1>0, <1>2, <3>1, <3>3, <3>4, <4>1, <5>2 DEF Claims
      <4>2. CASE y \in Eligible'
        <5>1. y \in Eligible
          BY <1>0, <4>2 DEF Eligible
        <5> QED
          BY <3>1, <3>2, <3>6, <5>1 DEF Claimants, Eligible
      <4>3. CASE y \in Loaded'
        <5>1. y \in Loaded
          BY <1>1, <2>3, <4>3 DEF Loaded
        <5> QED
          BY <3>1, <3>2, <3>6, <5>1 DEF Claimants
      <4> QED
        BY <4>1, <4>2, <4>3 DEF Claimants
    <3> QED
      BY <1>0, <1>1, <3>1, <3>5 DEF OneClaim
  <2> QED
    BY <1>1, <2>0, <2>1, <2>2, <2>3
<1> QED
  BY <1>4, <1>6, <1>7, <1>d, <1>8, <1>9, <1>11

(* handleFinalize's object is marked running.                              *)
LEMMA FinalizeRunStep ==
  ASSUME IInv, NEW c \in calls, FinalizeRun(c)
  PROVE  IInv'
<1> USE DEF IInv
<1> DEFINE x == c.slot
<1>0. /\ c.kind = "finalize" /\ c.st = "loaded" /\ c \in Call /\ c.to \in Hosts
      /\ x \in Slots /\ c.slot = x /\ host[x] = c.to /\ proc[x] \in {"running", "killed"}
      /\ reg[c.to] = x => proc[x] = "running" \/ x \in Fallen
      /\ pc[x] = "none"
      /\ \A e \in calls : (e.st = "loaded" /\ e.slot = x) => e = c
      /\ state' = [state EXCEPT ![x] = "running"]
      /\ UNCHANGED <<proc, host, reg, pc, target, ctx, att, attempts, del, files, trouble>>
  BY DEF FinalizeRun, CallSound, CallsApart, TypeOK, Call, srcVars
<1>1. PICK d \in Call :
        /\ calls' = (calls \ {c}) \cup {d}
        /\ d.from = c.from /\ d.kind = c.kind /\ d.to = c.to /\ d.att = c.att
        /\ d.orphan = c.orphan /\ d.st = "ok" /\ d.slot = NoSlot
  BY StepReplaces DEF FinalizeRun, TypeOK, CallStates
<1> HIDE DEF x
<1>2. state'[x] = "running" /\ \A y \in Slots : y # x => state'[y] = state[y]
  BY <1>0 DEF TypeOK
<1>3. TypeOK'
  <2>1. \A e \in calls' : e \in Call /\ e.att <= attempts
    BY <1>1 DEF TypeOK
  <2> QED
    BY <1>0, <2>1 DEF TypeOK, States
<1>f. Fallen \subseteq Fallen'
  BY <1>0, <1>1, FallenStays
<1>d. \A e \in Deletes : DelSound(e)'
  BY <1>0, <1>1, DelStays
<1>4. ASSUME NEW e \in calls' PROVE CallSound(e)'
  <2>1. CASE e = d
    BY <1>0, <1>1, <2>1 DEF CallSound
  <2>2. CASE e \in calls /\ e # c
    BY <1>0, <1>2, <1>f, <2>2 DEF CallSound
  <2> QED
    BY <1>1, <2>1, <2>2
<1>5. CallsApart'
  <2>1. \A e \in calls : e.st = "spawned" => e.slot # NoSlot
    BY SlotsAssumption DEF CallSound
  <2> QED
    BY <1>1, <2>1 DEF CallsApart
<1>6. \A y \in Slots : SlotSound(y)'
  BY <1>0, <1>2 DEF SlotSound, MigPCs, Requests
<1>7. \A h \in Hosts : RegSound(h)'
  BY <1>0, <1>2, <1>f DEF RegSound, TypeOK
<1>8. OneClaim'
  <2>1. \A y \in Slots : HandedOver(y) => HandedOver(y)'
    BY <1>0, <1>1, StepKeepsHandover
  <2>2. x \in Loaded
    BY <1>0 DEF Loaded
  <2>3. Claimants' \subseteq Claimants
    BY <1>0, <1>1, <1>2, <2>1, <2>2 DEF Claimants, Claims, Eligible, Loaded
  <2> QED
    BY <1>0, <1>1, <2>3, NoNewClaim DEF OneClaim, Excuses
<1> QED
  BY <1>3, <1>4, <1>5, <1>d, <1>6, <1>7, <1>8

-----------------------------------------------------------------------------
(* The public requests.                                                    *)

(* What a DELETE does not change.                                          *)
DelFrame == <<host, pc, target, ctx, att, attempts, calls, files>>

(* handleDeleteVM finds a VM object, or none.                              *)
LEMMA DeleteLookStep ==
  ASSUME IInv, NEW d \in Deletes, NEW h \in Hosts, DeleteLook(d, h)
  PROVE  IInv'
<1> USE DEF IInv
<1>0. /\ UNCHANGED <<state, proc, reg>> /\ UNCHANGED DelFrame
      /\ trouble \subseteq trouble' /\ trouble' \subseteq trouble \cup {"delete"}
      /\ reg[h] # NoSlot => "delete" \in trouble'
      /\ del[d].st = "none"
      /\ del' = [del EXCEPT ![d] = [st |-> "found", host |-> h, slot |-> reg[h]]]
  BY DEF DeleteLook, DelFrame, slotVars
<1>1. TypeOK'
  BY <1>0 DEF TypeOK, DelFrame, DelRequest, DelStates, Troubles
<1>2. del'[d] = [st |-> "found", host |-> h, slot |-> reg[h]] /\ \A e \in Deletes : e # d => del'[e] = del[e]
  BY <1>0 DEF TypeOK
<1>f. Fallen \subseteq Fallen'
  BY <1>0, <1>2 DEF Fallen, Doomed, DelFrame
<1>3. ASSUME NEW e \in Deletes PROVE DelSound(e)'
  <2>1. CASE e = d
    <3>1. reg[h] # NoSlot => /\ host[reg[h]] = h
                             /\ \A c \in calls : c.st = "spawned" => c.slot # reg[h]
      BY DEF RegSound, CallSound
    <3> QED
      BY <1>0, <1>2, <2>1, <3>1 DEF DelSound, DelFrame
  <2>2. CASE e # d
    <3>1. DelSound(e)
      OBVIOUS
    <3> QED
      BY <1>0, <1>2, <2>2, <3>1 DEF DelSound, DelFrame
  <2> QED
    BY <2>1, <2>2
<1>4. /\ \A c \in calls' : CallSound(c)'
      /\ CallsApart'
      /\ \A x \in Slots : SlotSound(x)'
      /\ \A g \in Hosts : RegSound(g)'
  BY <1>0, <1>f DEF CallSound, CallsApart, SlotSound, RegSound, DelFrame
<1>5. OneClaim'
  <2>1. Claimants' \subseteq Claimants
    BY <1>0 DEF Claimants, Claims, Eligible, Loaded, HandedOver, Pending, DelFrame
  <2> QED
    BY <1>0, <2>1, NoNewClaim DEF DelFrame
<1> QED
  BY <1>1, <1>3, <1>4, <1>5

(* It kills the process.                                                   *)
LEMMA DeleteKillStep ==
  ASSUME IInv, NEW d \in Deletes, DeleteKill(d)
  PROVE  IInv'
<1> DEFINE v == del[d].slot
<1>0. /\ v \in Slots /\ v # NoSlot /\ TypeOK /\ DelSound(d)
      /\ proc' = [proc EXCEPT ![v] = Killed(@)]
      /\ del' = [del EXCEPT ![d].st = "killed"]
      /\ UNCHANGED <<state, reg>> /\ UNCHANGED DelFrame
      /\ trouble \subseteq trouble' /\ trouble' \subseteq trouble \cup {"boot"}
      /\ proc[v] = "none" => "boot" \in trouble'
  BY DEF DeleteKill, IInv, TypeOK, DelRequest, DelFrame
<1>1. /\ del'[d].st = "killed" /\ del'[d].slot = v /\ del'[d].host = del[d].host
      /\ \A e \in Deletes : e # d => del'[e] = del[e]
  BY <1>0 DEF TypeOK, DelRequest
<1>2. TypeOK'
  BY <1>0 DEF TypeOK, Procs, Killed, Troubles, DelFrame, DelRequest, DelStates
<1>3. \A e \in calls : ~(e.st = "spawned" /\ e.slot = v)
  BY <1>0 DEF DelSound
<1> HIDE DEF v
<1>4. /\ \A x \in Slots : x # v => proc'[x] = proc[x]
      /\ proc'[v] = IF proc[v] = "none" THEN "none" ELSE "killed"
  BY <1>0 DEF TypeOK, Killed
<1>5. ASSUME NEW e \in Deletes PROVE DelSound(e)'
  <2>1. DelSound(e) /\ del[e].slot \in Slots \cup {NoSlot}
    BY <1>0 DEF IInv, TypeOK, DelRequest
  <2>2. CASE e = d
    BY <1>0, <1>1, <1>4, <2>1, <2>2 DEF DelSound, DelFrame
  <2>3. CASE e # d
    BY <1>0, <1>1, <1>4, <2>1, <2>3 DEF DelSound, DelFrame
  <2> QED
    BY <2>2, <2>3
<1>6. Fallen \cup {v} \subseteq Fallen'
  BY <1>0, <1>1 DEF Fallen, Doomed, DelFrame
<1>7. CallsApart' /\ \A x \in Slots : HandedOver(x) => HandedOver(x)'
  BY <1>0 DEF CallsApart, IInv, HandedOver, Pending, DelFrame
<1> QED
  BY <1>0, <1>2, <1>3, <1>5, <1>6, <1>7, KillStep DEF DelFrame

(* It sets the state.                                                      *)
LEMMA DeleteStateStep ==
  ASSUME IInv, NEW d \in Deletes, DeleteState(d)
  PROVE  IInv'
<1> USE DEF IInv
<1> DEFINE v == del[d].slot
<1>0. /\ v \in Slots /\ proc[v] # "idle"
      /\ state' = [state EXCEPT ![v] = "dead"]
      /\ del[d].st = "killed" /\ del' = [del EXCEPT ![d].st = "dead"]
      /\ UNCHANGED <<proc, reg, trouble>> /\ UNCHANGED DelFrame
  BY DEF DeleteState, DelSound, TypeOK, DelRequest, DelFrame
<1>1. /\ del'[d].st = "dead" /\ del'[d].slot = v /\ del'[d].host = del[d].host
      /\ \A e \in Deletes : e # d => del'[e] = del[e]
  BY <1>0 DEF TypeOK, DelRequest
<1>2. TypeOK'
  BY <1>0 DEF TypeOK, States, DelFrame, DelRequest, DelStates
<1> HIDE DEF v
<1>3. state'[v] = "dead" /\ \A x \in Slots : x # v => state'[x] = state[x]
  BY <1>0 DEF TypeOK
<1>f. Fallen \subseteq Fallen'
  BY <1>0, <1>1 DEF Fallen, Doomed, DelFrame
<1>4. ASSUME NEW e \in Deletes PROVE DelSound(e)'
  <2>1. DelSound(e)
    OBVIOUS
  <2> QED
    BY <1>0, <1>1, <2>1 DEF DelSound, DelFrame
<1>5. ASSUME NEW e \in calls PROVE CallSound(e)'
  <2>1. CallSound(e)
    OBVIOUS
  <2> QED
    BY <1>0, <1>3, <1>f, <2>1 DEF CallSound, DelFrame
<1>6. CallsApart' /\ calls' = calls
  BY <1>0 DEF CallsApart, DelFrame
<1>7. \A x \in Slots : SlotSound(x)'
  BY <1>0, <1>3 DEF SlotSound, DelFrame
<1>8. \A g \in Hosts : RegSound(g)'
  BY <1>0, <1>3, <1>f DEF RegSound, DelFrame, TypeOK
<1>9. OneClaim'
  <2>1. Claimants' \subseteq Claimants
    BY <1>0, <1>3 DEF Claimants, Claims, Eligible, Loaded, HandedOver, Pending, DelFrame
  <2> QED
    BY <1>0, <2>1, NoNewClaim DEF DelFrame
<1> QED
  BY <1>2, <1>4, <1>5, <1>6, <1>7, <1>8, <1>9

(* It frees the slot.                                                      *)
LEMMA DeleteFreeStep ==
  ASSUME IInv, NEW d \in Deletes, DeleteFree(d)
  PROVE  IInv'
<1> DEFINE h == del[d].host
<1>0. /\ h \in Hosts /\ TypeOK /\ DelSound(d)
      /\ reg' = [reg EXCEPT ![h] = NoSlot]
      /\ del' = [del EXCEPT ![d].st = "none", ![d].slot = NoSlot]
      /\ UNCHANGED <<state, proc>> /\ UNCHANGED DelFrame
      /\ trouble \subseteq trouble' /\ trouble' \subseteq trouble \cup {"drop"}
  BY DEF DeleteFree, IInv, TypeOK, DelRequest, DelFrame, slotVars
<1>1. /\ del'[d].st = "none" /\ del'[d].slot = NoSlot
      /\ \A e \in Deletes : e # d => del'[e] = del[e]
  BY <1>0 DEF TypeOK, DelRequest
<1>2. TypeOK'
  <2>1. del' \in [Deletes -> DelRequest]
    <3>1. del[d] \in DelRequest /\ "none" \in DelStates
      BY DEF IInv, TypeOK, DelStates
    <3>2. [del[d] EXCEPT !.st = "none", !.slot = NoSlot] \in DelRequest
      BY <3>1 DEF DelRequest
    <3> QED
      BY <1>0, <3>2 DEF TypeOK
  <2>2. reg' \in [Hosts -> Slots \cup {NoSlot}]
    BY <1>0 DEF TypeOK
  <2> QED
    BY <1>0, <2>1, <2>2 DEF TypeOK, Troubles, DelFrame
<1>3. ASSUME NEW e \in Deletes PROVE DelSound(e)'
  <2>1. DelSound(e)
    BY DEF IInv
  <2>2. CASE e = d
    BY <1>0, <1>1, <2>1, <2>2 DEF DelSound, DelFrame
  <2>3. CASE e # d
    BY <1>0, <1>1, <2>1, <2>3 DEF DelSound, DelFrame
  <2> QED
    BY <2>2, <2>3
<1>4. \A x \in Fallen : x \in Fallen' \/ host[x] = h
  <2> TAKE x \in Fallen
  <2>1. CASE del[d].slot = x
    BY <1>0, <2>1, SlotsAssumption DEF DelSound, Fallen
  <2>2. CASE del[d].slot # x
    BY <1>0, <1>1, <2>2 DEF Fallen, Doomed, DelFrame
  <2> QED
    BY <2>1, <2>2
<1> HIDE DEF h
<1>5. CallsApart' /\ \A x \in Slots : HandedOver(x) => HandedOver(x)'
  BY <1>0 DEF CallsApart, IInv, HandedOver, Pending, DelFrame
<1> QED
  BY <1>0, <1>2, <1>3, <1>4, <1>5, FreeStep DEF DelFrame

(* The operator creates an object; beside a guest that is on record.       *)
LEMMA CreateStep ==
  ASSUME IInv, NEW h \in Hosts, Create(h)
  PROVE  IInv'
<1> USE DEF IInv
<1> DEFINE n == NewSlot
<1>0. /\ trouble' = IF Holders # {} \/ ~Quiet THEN trouble \cup {"create"} ELSE trouble
      /\ UNCHANGED <<target, ctx, att, attempts, del, calls, files>>
  BY DEF Create
<1>1. CASE Conflict(h)
  <2>0. reg' = [reg EXCEPT ![h] = NoSlot] /\ UNCHANGED <<state, proc, host, pc>>
    BY <1>1 DEF Create, slotVars
  <2>1. TypeOK'
    BY <1>0, <2>0 DEF TypeOK, Troubles
  <2>2. \A g \in Hosts : reg'[g] \in {reg[g], NoSlot}
    BY <2>0 DEF TypeOK
  <2>f. Fallen \subseteq Fallen' /\ \A d \in Deletes : DelSound(d)'
    BY <1>0, <2>0, FallenStays, DelStays
  <2>3. \A e \in calls' : CallSound(e)'
    BY <1>0, <2>0, <2>2, <2>f, SlotsAssumption DEF CallSound, TypeOK, Call
  <2>4. CallsApart' /\ \A x \in Slots : SlotSound(x)'
    BY <1>0, <2>0 DEF CallsApart, SlotSound
  <2>5. \A g \in Hosts : RegSound(g)'
    BY <2>0, <2>2, <2>f DEF RegSound
  <2>6. OneClaim'
    <3>1. Claimants' \subseteq Claimants
      BY <1>0, <2>0, <2>2, SlotsAssumption
         DEF Claimants, Claims, Eligible, Loaded, HandedOver, Pending, TypeOK
    <3> QED
      BY <1>0, <3>1, NoNewClaim
  <2> QED
    BY <2>1, <2>f, <2>3, <2>4, <2>5, <2>6
<1>2. CASE ~Conflict(h)
  <2>0. /\ reg' = [reg EXCEPT ![h] = n]
        /\ state' = [state EXCEPT ![n] = "new"]
        /\ proc' = [proc EXCEPT ![n] = "none"]
        /\ host' = [host EXCEPT ![n] = h]
        /\ pc' = [pc EXCEPT ![n] = "spawn"]
    BY <1>2 DEF Create
  <2>1. /\ n \in Slots /\ n # NoSlot /\ pc[n] = "none"
        /\ \A g \in Hosts : reg[g] # n
        /\ \A e \in calls : e.slot # n
        /\ \A d \in Deletes : del[d].slot # n
    BY NewSlotIsUnused, SlotsAssumption DEF Create
  <2> HIDE DEF n
  <2>2. /\ state'[n] = "new" /\ proc'[n] = "none" /\ host'[n] = h /\ pc'[n] = "spawn"
        /\ \A x \in Slots : x # n => /\ host'[x] = host[x] /\ state'[x] = state[x]
                                     /\ proc'[x] = proc[x] /\ pc'[x] = pc[x]
        /\ reg'[h] = n /\ \A g \in Hosts : g # h => reg'[g] = reg[g]
    BY <2>0, <2>1 DEF TypeOK
  <2>3. TypeOK'
    BY <1>0, <2>0, <2>1 DEF TypeOK, Troubles, States, Procs, PCs
  <2>f. Fallen \subseteq Fallen'
    BY <1>0, FallenStays
  <2>d. \A d \in Deletes : DelSound(d)'
    BY <1>0, <2>1, <2>2, DelStaysBut
  <2>4. ASSUME NEW e \in calls PROVE CallSound(e)'
    <3>1. CallSound(e) /\ e.slot # n /\ e.to \in Hosts /\ (~e.orphan => e.from # n)
          /\ e.from \in Slots
      BY <2>1 DEF CallSound, TypeOK, Call, Requests
    <3>2. reg'[e.to] = e.slot => reg[e.to] = e.slot
      BY <2>2, <3>1
    <3> QED
      BY <1>0, <2>2, <2>f, <3>1, <3>2 DEF CallSound
  <2>5. CallsApart'
    BY <1>0 DEF CallsApart
  <2>6. \A x \in Slots : SlotSound(x)'
    BY <2>2 DEF SlotSound, MigPCs, Requests
  <2>7. \A g \in Hosts : RegSound(g)'
    BY <2>1, <2>2, <2>f DEF RegSound, TypeOK
  <2>8. OneClaim'
    <3>1. CASE Holders # {} \/ ~Quiet
      BY <1>0, <3>1 DEF OneClaim, Excuses
    <3>2. CASE Holders = {} /\ Quiet
      <4>1. \A x \in Slots : proc[x] # "running" /\ pc[x] = "none"
        BY <3>2 DEF Holders, Quiet
      <4>4. Fallen = {} /\ Loaded = {}
        BY <3>2 DEF Fallen, Doomed, Quiet, Loaded
      <4>5. Eligible = {}
        BY <4>1, <4>4, SlotsAssumption DEF Eligible, IInv, RegSound, TypeOK
      <4>2. \A x \in Claimants' : x = n
        <5>1. Eligible' = {}
          BY <2>1, <2>2, <4>5 DEF Eligible, TypeOK
        <5>2. Loaded' = {}
          BY <1>0, <3>2 DEF Quiet, Loaded
        <5>3. \A x \in Claims' : x = n
          BY <2>2, <4>1 DEF Claims, Requests
        <5> QED
          BY <5>1, <5>2, <5>3 DEF Claimants
      <4>3. calls' = {}
        BY <1>0, <3>2 DEF Quiet
      <4> QED
        BY <4>2, <4>3 DEF OneClaim
    <3> QED
      BY <3>1, <3>2
  <2> QED
    BY <1>0, <2>3, <2>4, <2>5, <2>d, <2>6, <2>7, <2>8
<1> QED
  BY <1>1, <1>2

-----------------------------------------------------------------------------
(* The invariant.                                                          *)

(* Requests have their type.                                               *)
LEMMA CallsTyped == IInv => calls \subseteq Call
BY DEF IInv, TypeOK

(* One registered object that runs the guest.                              *)
LEMMA IInvInit == Init => IInv
<1> SUFFICES ASSUME Init PROVE IInv
  OBVIOUS
<1> DEFINE s == CHOOSE x \in Slots : TRUE
<1>0. s \in Slots /\ s # NoSlot
  BY SlotsAssumption
<1>1. PICK h \in Hosts :
        /\ state = [x \in Slots |-> IF x = s THEN "running" ELSE "new"]
        /\ proc = [x \in Slots |-> IF x = s THEN "running" ELSE "none"]
        /\ host = [x \in Slots |-> h]
        /\ reg = [x \in Hosts |-> IF x = h THEN s ELSE NoSlot]
        /\ pc = [x \in Slots |-> "none"]
        /\ target = [x \in Slots |-> h]
        /\ ctx = [x \in Slots |-> "live"]
        /\ att = [x \in Slots |-> 0] /\ attempts = 0
        /\ del = [d \in Deletes |-> [st |-> "none", host |-> h, slot |-> NoSlot]]
        /\ calls = {}
        /\ files = [x \in Hosts |-> IF x = h THEN {Dir} ELSE {}]
        /\ trouble = {}
  BY DEF Init
<1> HIDE DEF s
<1>2. TypeOK
  <2>1. {Dir} \in SUBSET (Kinds \X (0 .. attempts))
    BY <1>1 DEF Dir, Kinds
  <2> QED
    BY <1>0, <1>1, <2>1 DEF TypeOK, States, Procs, PCs, DelRequest, DelStates
<1>d. \A d \in Deletes : DelSound(d)
  BY <1>1 DEF DelSound
<1>3. \A x \in Slots : SlotSound(x)
  BY <1>1 DEF SlotSound, MigPCs, Requests
<1>4. \A g \in Hosts : RegSound(g)
  BY <1>0, <1>1 DEF RegSound
<1>5. OneClaim
  BY <1>0, <1>1 DEF OneClaim, Claimants, Claims, Eligible, Loaded, Requests
<1> QED
  BY <1>1, <1>2, <1>d, <1>3, <1>4, <1>5 DEF IInv, CallsApart

(* Every step of agents, network and operator, and none at all.            *)
LEMMA IInvStep == IInv /\ [Next]_vars => IInv'
<1> SUFFICES ASSUME IInv, [Next]_vars PROVE IInv'
  OBVIOUS
<1>1. CASE \E s \in Slots : Source(s) \/ Booting(s)
  <2> PICK s \in Slots : Source(s) \/ Booting(s)
    BY <1>1
  <2>1. CASE FailsAtOnce(s)
    BY <2>1, AbandonStep DEF FailsAtOnce
  <2> QED
    BY <2>1, SendStep, ReadReplyStep, PauseStep, SucceedKillStep, SucceedStep, ResumeStep,
       BootSpawnStep, BootStep DEF Source, Booting
<1>2. CASE \E c \in calls : Handle(c) \/ Forget(c)
  BY <1>2, PrepareSpawnStep, PrepareFileStep, ReceiveStep, CheckStep, FinalizeLoadStep,
     FinalizeRunStep, AbortKillStep, AbortFreeStep, ForgetStep DEF Handle
<1>6. CASE \E d \in Deletes : Deleting(d)
  BY <1>6, DeleteKillStep, DeleteStateStep, DeleteFreeStep DEF Deleting
<1>3. CASE \E s \in Slots : TimeOut(s)
  <2> PICK s \in Slots : TimeOut(s)
    BY <1>3
  <2>1. Abandon(s) /\ pc[s] \in Requests
    BY DEF TimeOut, Pending, IInv, CallSound, TypeOK, Call
  <2> QED
    BY <2>1, AbandonStep
<1>4. CASE Operate
  BY <1>4, MigrateStep, CancelStep, CreateStep, DeleteLookStep DEF Operate
<1>5. CASE UNCHANGED vars
  <2>1. UNCHANGED <<state, proc, host, reg, pc, target, ctx, att, attempts, del, calls, files, trouble>>
    BY <1>5 DEF vars, slotVars, srcVars
  <2>2. TypeOK'
    BY <2>1 DEF IInv, TypeOK
  <2>f. Fallen \subseteq Fallen' /\ \A d \in Deletes : DelSound(d)'
    BY <2>1, FallenStays, DelStays
  <2>3. /\ \A e \in calls' : CallSound(e)'
        /\ CallsApart'
        /\ \A d \in Deletes : DelSound(d)'
        /\ \A x \in Slots : SlotSound(x)'
        /\ \A h \in Hosts : RegSound(h)'
    BY <2>1, <2>f DEF IInv, CallSound, CallsApart, SlotSound, RegSound
  <2>4. OneClaim'
    BY <2>1 DEF IInv, OneClaim, Claimants, Claims, Eligible, Loaded, HandedOver, Pending, Excuses
  <2> QED
    BY <2>2, <2>3, <2>4 DEF IInv
<1> QED
  BY <1>1, <1>2, <1>3, <1>4, <1>5, <1>6 DEF Next, Serve

(* The types and the four facts about requests, VM objects, registries and *)
(* claims hold in every reachable state.                                   *)
THEOREM Invariance == Spec => []IInv
<1> QED
  BY IInvInit, IInvStep, PTL DEF Spec

(* All variables keep their types (Agent.vms, VM.state, the requests).     *)
THEOREM TypeCorrect == Spec => []TypeOK
<1>1. IInv => TypeOK
  BY DEF IInv
<1> QED
  BY <1>1, Invariance, PTL

(* At most one process runs the guest, through refused, lost, late and     *)
(* cancelled requests, time-outs, rollbacks, deletes and any number of     *)
(* migrations among any number of agents, unless a finalize was given up   *)
(* or a second guest created (migrate and handleFinalize).                 *)
THEOREM OneRunnerHolds == Spec => []OneRunner
<1>1. IInv => OneRunner
  BY DEF IInv, OneClaim, OneRunner, NoSplitBrain, Runners, Claims, Claimants
<1> QED
  BY <1>1, Invariance, PTL

-----------------------------------------------------------------------------
(* The guest survives, and has one owner.                                  *)

(* The source of a migration that has not handed the guest over.           *)
Mover(s) == pc[s] \in Requests \cup {"pause", "resume"} /\ ~HandedOver(s)

(* What has happened does not excuse the loss of the guest.                *)
Guarded ==
  /\ ~Excuses({"delete", "boot", "self", "prepare", "abort"})
  /\ Excuses({"finalize", "create"}) => attempts <= 1

(* A VM object that holds the guest for good while nobody moves it.        *)
Safe(z) ==
  /\ pc[z] # "boot" /\ ~HandedOver(z)
  /\ proc[z] = "running" \/ (proc[z] = "paused" /\ "resume" \in trouble)

OneMigration ==
  attempts <= 1 =>
    \A s, t \in Slots : (pc[s] \in MigPCs /\ pc[t] \in MigPCs) => attempts = 1 /\ s = t

(* The requests that kill, prepare and abort, come from the one mover and  *)
(* go to another host than its own; it has the guest.  While there is no   *)
(* mover a safe VM object has it.                                          *)
Survival ==
  /\ OneMigration
  /\ Guarded =>
       /\ \A c \in calls : c.kind \in {"prepare", "abort"} => ~c.orphan
       /\ \A s \in Slots : pc[s] \in MigPCs => target[s] # host[s]
       /\ "create" \notin trouble => \A s \in Slots : pc[s] \notin {"spawn", "boot"}
       /\ \A s \in Slots : (Mover(s) \/ (attempts <= 1 /\ pc[s] \in MigPCs \ {"success"})) => s \in Holders
       /\ (\A s \in Slots : ~Mover(s)) => \E z \in Slots : Safe(z)

-----------------------------------------------------------------------------
(* A step that leaves the mover the mover and whoever has the guest with   *)
(* it.                                                                     *)
Undisturbed ==
  /\ \A s \in Slots : Mover(s)' <=> Mover(s)
  /\ \A s \in Slots :
       (s \in Holders /\ pc'[s] \in MigPCs \ {"success"} /\ (Mover(s) \/ attempts <= 1))
         => s \in Holders'
  /\ (\A s \in Slots : ~Mover(s)) => \A z \in Slots : Safe(z) => Safe(z)'
  /\ \A s \in Claims : host'[s] = host[s]

(* A claim stays, or the one who has it is stopped and another one runs.   *)
Follows ==
  \A s \in Claims : \/ s \in Claims' /\ host'[s] = host[s]
                    \/ proc[s] # "running" /\ Runners' # {}

(* Trouble and attempts only grow, so that what is not excused now was not *)
(* excused before.                                                         *)
LEMMA GuardedBefore ==
  ASSUME IInv, IInv', trouble \subseteq trouble', attempts <= attempts', Guarded'
  PROVE  Guarded
BY DEF Guarded, Excuses, IInv, TypeOK

(* What is left to show of a step of anybody but Migrate.                  *)
LEMMA SurvivalFrom ==
  ASSUME IInv, IInv', Survival, trouble \subseteq trouble', attempts' = attempts,
         \A s \in Slots : pc'[s] \in MigPCs =>
            pc[s] \in MigPCs /\ target'[s] = target[s] /\ host'[s] = host[s],
         \A c \in calls' : (c.kind \in {"prepare", "abort"} /\ c.orphan) =>
            \/ \E d \in calls : c.kind = d.kind /\ d.orphan
            \/ Excuses({"prepare", "abort"})',
         \A s \in Slots : pc'[s] \in {"spawn", "boot"} =>
            pc[s] \in {"spawn", "boot"} \/ "create" \in trouble',
         (Guarded /\ Guarded') =>
            /\ \A s \in Slots :
                 (Mover(s)' \/ (attempts <= 1 /\ pc'[s] \in MigPCs \ {"success"})) => s \in Holders'
            /\ (\A s \in Slots : ~Mover(s)') => \E z \in Slots : Safe(z)'
  PROVE  Survival'
<1>1. OneMigration'
  BY DEF Survival, OneMigration
<1> SUFFICES ASSUME Guarded'
             PROVE  /\ \A c \in calls' : c.kind \in {"prepare", "abort"} => ~c.orphan
                    /\ \A s \in Slots : pc'[s] \in MigPCs => target'[s] # host'[s]
                    /\ "create" \notin trouble' => \A s \in Slots : pc'[s] \notin {"spawn", "boot"}
                    /\ \A s \in Slots :
                         (Mover(s)' \/ (attempts' <= 1 /\ pc'[s] \in MigPCs \ {"success"})) => s \in Holders'
                    /\ (\A s \in Slots : ~Mover(s)') => \E z \in Slots : Safe(z)'
  BY <1>1 DEF Survival
<1>2. Guarded
  BY GuardedBefore DEF IInv, TypeOK
<1>3. ~Excuses({"prepare", "abort"})'
  BY DEF Guarded, Excuses
<1> QED
  BY <1>2, <1>3 DEF Survival

(* Steps that touch neither the guest's process nor a request that could   *)
(* kill it.                                                                *)
LEMMA SurvivalUndisturbed ==
  ASSUME IInv, IInv', Survival, trouble \subseteq trouble', attempts' = attempts,
         \A s \in Slots : pc'[s] \in MigPCs =>
            /\ pc[s] \in MigPCs /\ target'[s] = target[s] /\ host'[s] = host[s]
            /\ pc[s] = "success" => pc'[s] = "success",
         \A c \in calls' : (c.kind \in {"prepare", "abort"} /\ c.orphan) =>
            \/ \E d \in calls : c.kind = d.kind /\ d.orphan
            \/ Excuses({"prepare", "abort"})',
         \A s \in Slots : pc'[s] \in {"spawn", "boot"} =>
            pc[s] \in {"spawn", "boot"} \/ "create" \in trouble',
         (Guarded /\ Guarded') => Undisturbed
  PROVE  Survival' /\ (trouble' = {} => Follows)
<1>1. ASSUME Guarded, Guarded'
      PROVE  /\ \A s \in Slots :
                  (Mover(s)' \/ (attempts <= 1 /\ pc'[s] \in MigPCs \ {"success"})) => s \in Holders'
             /\ (\A s \in Slots : ~Mover(s)') => \E z \in Slots : Safe(z)'
  <2>1. Undisturbed
    BY <1>1
  <2>2. \A s \in Slots : Mover(s)' => pc'[s] \in MigPCs \ {"success"}
    BY DEF Mover, MigPCs, Requests
  <2>3. \A s \in Slots :
           (Mover(s)' \/ (attempts <= 1 /\ pc'[s] \in MigPCs \ {"success"})) => s \in Holders'
    BY <1>1, <2>1, <2>2 DEF Undisturbed, Survival
  <2>4. (\A s \in Slots : ~Mover(s)') => \E z \in Slots : Safe(z)'
    BY <1>1, <2>1 DEF Undisturbed, Survival
  <2> QED
    BY <2>3, <2>4
<1>2. Survival'
  BY <1>1, SurvivalFrom
<1>3. ASSUME trouble' = {}, NEW s \in Claims
      PROVE  s \in Claims' /\ host'[s] = host[s]
  <2>1. trouble = {} /\ Guarded /\ Guarded'
    BY <1>3 DEF Guarded, Excuses
  <2>2. Undisturbed
    BY <2>1
  <2>3. CASE Mover(s)
    BY <2>2, <2>3 DEF Undisturbed, Mover, Claims
  <2>4. CASE ~Mover(s)
    <3>1. proc[s] = "running" /\ s \in Slots
      BY <2>1, <2>4 DEF Claims, Mover, Survival
    <3>2. \A x \in Slots : Mover(x) => x \in Claims
      BY DEF Mover, Claims
    <3>3. \A x \in Slots : ~Mover(x)
      BY <2>1, <2>4, <3>2 DEF IInv, OneClaim, Claimants, Excuses
    <3>4. Safe(s)
      <4>1. pc[s] # "boot"
        BY <2>1, <3>1 DEF Survival
      <4>2. ~HandedOver(s)
        BY <3>1, HandoverAtFinalize DEF IInv, SlotSound
      <4> QED
        BY <3>1, <4>1, <4>2 DEF Safe
    <3>5. Safe(s)'
      BY <2>2, <3>1, <3>3, <3>4 DEF Undisturbed
    <3>6. proc'[s] = "running"
      BY <1>3, <3>5 DEF Safe
    <3> QED
      BY <2>2, <3>1, <3>6 DEF Claims, Undisturbed
  <2> QED
    BY <2>3, <2>4
<1> QED
  BY <1>2, <1>3 DEF Follows

-----------------------------------------------------------------------------
(* A handler's progress short of a load hands nothing over.                *)
LEMMA StepHandsNothingOver ==
  ASSUME NEW c \in calls, NEW d, calls' = (calls \ {c}) \cup {d},
         d.from = c.from, d.kind = c.kind, d.orphan = c.orphan,
         \/ c.kind # "finalize"
         \/ c.st \in {"loaded", "ok"}
         \/ d.st \notin {"loaded", "ok"},
         NEW s \in Slots, pc'[s] = pc[s], HandedOver(s)'
  PROVE  HandedOver(s)
<1>1. CASE pc'[s] = "success"
  BY <1>1 DEF HandedOver
<1>2. CASE \E e \in Pending(s)' : e.kind = "finalize" /\ e.st \in {"loaded", "ok"}
  <2> PICK e \in Pending(s)' : e.kind = "finalize" /\ e.st \in {"loaded", "ok"}
    BY <1>2
  <2>0. e \in calls' /\ e.from = s /\ ~e.orphan
    BY DEF Pending
  <2>1. CASE e = d
    <3>1. c \in Pending(s) /\ c.kind = "finalize" /\ c.st \in {"loaded", "ok"}
      BY <2>0, <2>1 DEF Pending
    <3> QED
      BY <3>1 DEF HandedOver
  <2>2. CASE e # d
    <3>1. e \in Pending(s)
      BY <2>0, <2>2 DEF Pending
    <3> QED
      BY <3>1 DEF HandedOver
  <2> QED
    BY <2>1, <2>2
<1> QED
  BY <1>1, <1>2 DEF HandedOver

(* There is one mover.                                                     *)
LEMMA OneMover ==
  ASSUME IInv, Survival, Guarded, NEW s \in Slots, NEW t \in Slots, Mover(s), Mover(t)
  PROVE  s = t
<1>1. CASE attempts <= 1
  BY <1>1 DEF Survival, OneMigration, Mover, MigPCs
<1>2. CASE ~(attempts <= 1)
  BY <1>2 DEF Guarded, IInv, OneClaim, Claims, Claimants, Mover
<1> QED
  BY <1>1, <1>2

(* Who kills, and where.                                                   *)
LEMMA MoverKills ==
  ASSUME IInv, Survival, Guarded, NEW c \in calls, c.kind \in {"prepare", "abort"}
  PROVE  /\ c.from \in Slots /\ Mover(c.from)
         /\ c.to # host[c.from]
         /\ attempts <= 1 => \A s \in Slots : pc[s] \in MigPCs => s = c.from
<1>1. /\ ~c.orphan /\ c.from \in Slots /\ pc[c.from] \in {"prepare", "abort"}
      /\ c.to = target[c.from]
  BY DEF Survival, IInv, CallSound, TypeOK, Call
<1>2. Mover(c.from)
  BY <1>1, HandoverAtFinalize DEF Mover, Requests
<1>3. pc[c.from] \in MigPCs
  BY <1>1 DEF MigPCs, Requests
<1> QED
  BY <1>1, <1>2, <1>3 DEF Survival, OneMigration

(* Steps that touch neither processes nor goroutines, nor hand over.       *)
LEMMA StillStep ==
  ASSUME IInv, IInv', Survival, trouble \subseteq trouble',
         UNCHANGED <<proc, host, pc, target, attempts>>,
         \A s \in Slots : HandedOver(s)' <=> HandedOver(s),
         \A c \in calls' : c.orphan => \E d \in calls : c.kind = d.kind /\ d.orphan
  PROVE  Survival' /\ (trouble' = {} => Follows)
<1>1. Undisturbed
  <2>1. \A s \in Slots : Mover(s)' <=> Mover(s)
    BY DEF Mover
  <2>2. \A s \in Slots : Safe(s) => Safe(s)'
    BY DEF Safe
  <2>3. Holders' = Holders
    BY DEF Holders
  <2> QED
    BY <2>1, <2>2, <2>3 DEF Undisturbed
<1> QED
  BY <1>1, SurvivalUndisturbed

(* The request's progress, for the handlers below.                         *)
LEMMA StepProgress ==
  ASSUME IInv, NEW c \in calls,
         NEW st \in CallStates,
         NEW n \in Slots \cup {NoSlot}, Step(c, st, n), UNCHANGED pc,
         \/ c.kind # "finalize"
         \/ c.st \in {"sent", "checked"} /\ st \in {"checked", "err"}
         \/ c.st \in {"loaded", "ok"} /\ st \in {"loaded", "ok"}
  PROVE  /\ \A s \in Slots : HandedOver(s)' <=> HandedOver(s)
         /\ \A e \in calls' : e.orphan => \E d \in calls : e.kind = d.kind /\ d.orphan
<1>1. PICK d \in Call :
        /\ calls' = (calls \ {c}) \cup {d}
        /\ d.st = st /\ d.slot = n
        /\ d.from = c.from /\ d.kind = c.kind /\ d.to = c.to /\ d.att = c.att
        /\ d.orphan = c.orphan
  BY StepReplaces, CallsTyped
<1>2. \A s \in Slots : HandedOver(s) => HandedOver(s)'
  BY <1>1, StepKeepsHandover
<1>3. \A s \in Slots : HandedOver(s)' => HandedOver(s)
  BY <1>1, StepHandsNothingOver
<1> QED
  BY <1>1, <1>2, <1>3

-----------------------------------------------------------------------------
(* The steps.                                                              *)

(* While nobody moves the guest no abort is under way, and no DELETE was.  *)
LEMMA NotDoomed ==
  ASSUME IInv, Survival, Guarded, \A x \in Slots : ~Mover(x), NEW s \in Slots
  PROVE  ~Doomed(s)
<1>1. \A d \in Deletes : del[d].slot # s
  BY SlotsAssumption DEF IInv, DelSound, Guarded, Excuses
<1>2. \A c \in calls : c.kind # "abort"
  BY MoverKills
<1> QED
  BY <1>1, <1>2 DEF Doomed

(* A migration starts from the object that runs the guest.                 *)
LEMMA SurvivalMigrate ==
  ASSUME IInv, IInv', Survival, NEW s \in Slots, NEW t \in Hosts, Migrate(s, t)
  PROVE  Survival' /\ (trouble' = {} => Follows)
<1>0. /\ pc[s] = "none" /\ s \in Eligible
      /\ proc[s] = "running" \/ Doomed(s)
      /\ pc' = [pc EXCEPT ![s] = "prepare"]
      /\ target' = [target EXCEPT ![s] = t]
      /\ attempts' = attempts + 1 /\ attempts \in Nat
      /\ trouble \subseteq trouble' /\ (t = host[s] => "self" \in trouble')
      /\ UNCHANGED <<proc, host, calls>>
  BY SlotsAssumption DEF Migrate, IInv, RegSound, TypeOK, Eligible, Fallen
<1>1. /\ pc'[s] = "prepare" /\ target'[s] = t
      /\ \A x \in Slots : x # s => pc'[x] = pc[x] /\ target'[x] = target[x]
  BY <1>0 DEF IInv, TypeOK
<1>2. \A x \in Slots : x # s => (HandedOver(x)' <=> HandedOver(x))
  BY <1>0, <1>1 DEF HandedOver, Pending
<1>3. ASSUME Guarded'
      PROVE  Guarded /\ proc[s] = "running" /\ \A x \in Slots : ~Mover(x)
  <2>1. Guarded
    BY <1>0, <1>3, GuardedBefore
  <2>2. CASE attempts' <= 1
    <3>1. attempts = 0
      BY <1>0, <2>2
    <3>2. \A x \in Slots : pc[x] \notin MigPCs
      BY <3>1 DEF Survival, OneMigration
    <3>3. \A x \in Slots : ~Mover(x)
      BY <3>2 DEF Mover, MigPCs
    <3> QED
      BY <1>0, <2>1, <3>3, NotDoomed
  <2>3. CASE ~(attempts' <= 1)
    <3>1. ~Excuses({"finalize", "create"})
      BY <1>0, <1>3, <2>3 DEF Guarded, Excuses
    <3>2. \A x \in Slots : Mover(x) => x = s
      BY <1>0, <3>1 DEF IInv, OneClaim, Claims, Claimants, Mover
    <3>3. ~Mover(s)
      BY <1>0 DEF Mover, Requests
    <3> QED
      BY <1>0, <2>1, <3>2, <3>3, NotDoomed
  <2> QED
    BY <2>2, <2>3
<1>4. OneMigration'
  <2>1. attempts' <= 1 => attempts = 0
    BY <1>0
  <2>2. attempts = 0 => \A x \in Slots : pc[x] \notin MigPCs
    BY DEF Survival, OneMigration
  <2> QED
    BY <1>0, <1>1, <2>1, <2>2 DEF OneMigration
<1>5. Survival'
  <2> SUFFICES ASSUME Guarded'
               PROVE  /\ \A c \in calls' : c.kind \in {"prepare", "abort"} => ~c.orphan
                      /\ \A x \in Slots : pc'[x] \in MigPCs => target'[x] # host'[x]
                      /\ "create" \notin trouble' => \A x \in Slots : pc'[x] \notin {"spawn", "boot"}
                      /\ \A x \in Slots :
                           (Mover(x)' \/ (attempts' <= 1 /\ pc'[x] \in MigPCs \ {"success"})) => x \in Holders'
                      /\ (\A x \in Slots : ~Mover(x)') => \E z \in Slots : Safe(z)'
    BY <1>4 DEF Survival
  <2>1. Guarded /\ (\A x \in Slots : ~Mover(x)) /\ t # host[s]
    BY <1>0, <1>3 DEF Guarded, Excuses
  <2>2. ~HandedOver(s)'
    BY <1>0, <1>1 DEF HandedOver, Pending, IInv, CallSound
  <2>3. Mover(s)' /\ s \in Holders'
    BY <1>0, <1>1, <1>3, <2>2 DEF Mover, Requests, Holders
  <2>4. \A x \in Slots : Mover(x)' => x = s
    BY <1>1, <1>2, <2>1 DEF Mover
  <2>5. \A x \in Slots : (attempts' <= 1 /\ pc'[x] \in MigPCs) => x = s
    BY <1>1, <1>4, <2>3 DEF OneMigration, Mover, MigPCs
  <2>6. \A x \in Slots : pc'[x] \in MigPCs => target'[x] # host'[x]
    BY <1>0, <1>1, <2>1 DEF Survival
  <2>7. "create" \notin trouble' => \A x \in Slots : pc'[x] \notin {"spawn", "boot"}
    BY <1>0, <1>1, <2>1 DEF Survival
  <2> QED
    BY <1>0, <2>1, <2>3, <2>4, <2>5, <2>6, <2>7 DEF Survival
<1>6. ASSUME trouble' = {}, NEW x \in Claims PROVE x \in Claims' /\ host'[x] = host[x]
  <2>1. Guarded'
    BY <1>6 DEF Guarded, Excuses
  <2>2. pc[x] = "spawn" \/ proc[x] = "running"
    BY <1>3, <2>1 DEF Claims, Mover
  <2>3. trouble = {}
    BY <1>0, <1>6
  <2> QED
    BY <1>0, <1>3, <2>1, <2>2, <2>3 DEF Claims, Survival
<1> QED
  BY <1>5, <1>6 DEF Follows

(* Sending kills nothing.                                                  *)
LEMMA SurvivalSend ==
  ASSUME IInv, IInv', Survival, NEW s \in Slots, Send(s)
  PROVE  Survival' /\ (trouble' = {} => Follows)
<1>0. /\ calls' = calls \cup {Request(s)}
      /\ UNCHANGED <<proc, host, pc, target, attempts, trouble>>
  BY DEF Send, slotVars, srcVars
<1>1. Request(s).st = "sent" /\ Request(s).orphan = FALSE
  BY DEF Request
<1>2. \A x \in Slots : HandedOver(x)' <=> HandedOver(x)
  BY <1>0, <1>1 DEF HandedOver, Pending
<1> QED
  BY <1>0, <1>1, <1>2, StillStep

(* After an error the source sends abort, and only while it holds the      *)
(* guest itself.                                                           *)
LEMMA SurvivalReadReply ==
  ASSUME IInv, IInv', Survival, NEW s \in Slots, ReadReply(s)
  PROVE  Survival' /\ (trouble' = {} => Follows)
<1> PICK c \in Pending(s) :
      /\ c.st \in {"ok", "err"}
      /\ pc' = [pc EXCEPT ![s] = IF c.st = "ok" THEN AfterReply[@] ELSE AfterError(@)]
      /\ calls' = calls \ {c}
  BY DEF ReadReply
<1>0. /\ UNCHANGED <<proc, host, target, attempts, trouble>>
      /\ c \in calls /\ c.from = s /\ ~c.orphan /\ c.kind = pc[s] /\ pc[s] \in Requests
  BY DEF ReadReply, Pending, IInv, CallSound, TypeOK, Call, slotVars
<1>1. \A x \in Slots : x # s => pc'[x] = pc[x] /\ (HandedOver(x)' <=> HandedOver(x))
  BY <1>0 DEF HandedOver, Pending, IInv, TypeOK
<1>2. \A e \in calls' : e.from = s => e.orphan
  BY <1>0 DEF IInv, CallsApart
<1>3. HandedOver(s) <=> pc[s] = "finalize" /\ c.st = "ok"
  BY <1>0 DEF HandedOver, Pending, IInv, CallsApart, Requests
<1>4. /\ pc'[s] \in MigPCs /\ pc[s] \in MigPCs
      /\ pc'[s] = "success" <=> HandedOver(s)
  BY <1>0, <1>3 DEF AfterReply, AfterError, IInv, TypeOK, MigPCs, Requests
<1>5. HandedOver(s)' <=> pc'[s] = "success"
  BY <1>2 DEF HandedOver, Pending
<1>6. \A x \in Slots : Mover(x)' <=> Mover(x)
  BY <1>0, <1>1, <1>4, <1>5 DEF Mover, MigPCs
<1>7. Undisturbed
  <2>1. Holders' = Holders
    BY <1>0 DEF Holders
  <2>2. \A z \in Slots : Safe(z) => Safe(z)'
    BY <1>0, <1>1, <1>4, <1>5 DEF Safe, MigPCs, Requests
  <2> QED
    BY <1>0, <1>6, <2>1, <2>2 DEF Undisturbed
<1>8. \A x \in Slots : /\ pc'[x] \in MigPCs =>
                            pc[x] \in MigPCs /\ (pc[x] = "success" => pc'[x] = "success")
                       /\ pc'[x] \in {"spawn", "boot"} => pc[x] \in {"spawn", "boot"}
  BY <1>0, <1>1, <1>4 DEF MigPCs, Requests
<1> QED
  BY <1>0, <1>7, <1>8, SurvivalUndisturbed

(* Giving up on a finalize makes a mover of a source that has handed over; *)
(* it still has the guest when there was no other attempt.                 *)
LEMMA SurvivalAbandon ==
  ASSUME IInv, IInv', Survival, NEW s \in Slots, pc[s] \in Requests, Abandon(s)
  PROVE  Survival' /\ (trouble' = {} => Follows)
<1>0. /\ UNCHANGED <<proc, host, target, attempts>>
      /\ pc' = [pc EXCEPT ![s] = AfterError(@)]
      /\ trouble' = trouble \cup {c.kind : c \in Pending(s)}
  BY DEF Abandon, slotVars
<1>1. /\ Pending(s) \subseteq calls
      /\ \A c \in Pending(s) : c \in Call /\ c.from = s /\ ~c.orphan
      /\ calls' = (calls \ Pending(s)) \cup {Orphaned(c) : c \in Pending(s)}
  BY AbandonOrphans DEF IInv, TypeOK
<1>2. /\ pc'[s] \in {"abort", "resume"} /\ \A x \in Slots : x # s => pc'[x] = pc[x]
  BY <1>0 DEF IInv, TypeOK, AfterError
<1>3. \A e \in {Orphaned(c) : c \in Pending(s)} :
        e.orphan /\ e.from = s /\ \E c \in Pending(s) : e.kind = c.kind
  BY <1>1, OrphanedIsCall
<1>4. \A x \in Slots : x # s => (HandedOver(x)' <=> HandedOver(x))
  BY <1>1, <1>2, <1>3 DEF HandedOver, Pending
<1>5. ~HandedOver(s)' /\ Mover(s)'
  <2>1. \A e \in calls' : e.from = s => e.orphan
    BY <1>1, <1>3 DEF Pending
  <2> QED
    BY <1>2, <2>1 DEF HandedOver, Pending, Mover, Requests
<1>6. pc[s] \in MigPCs \ {"success"} /\ pc'[s] \in MigPCs
  BY <1>2 DEF MigPCs, Requests
<1>7. HandedOver(s) => "finalize" \in trouble'
  BY <1>0 DEF HandedOver, Pending, Requests
<1>8. Holders' = Holders
  BY <1>0 DEF Holders
<1>9. Survival'
  <2>1. ASSUME Guarded, Guarded', NEW x \in Slots,
               Mover(x)' \/ (attempts <= 1 /\ pc'[x] \in MigPCs \ {"success"})
        PROVE  x \in Holders'
    <3>1. CASE x # s
      BY <1>2, <1>4, <1>8, <2>1, <3>1 DEF Survival, Mover
    <3>2. CASE x = s /\ ~HandedOver(s)
      BY <1>8, <2>1, <3>2 DEF Survival, Mover
    <3>3. CASE x = s /\ HandedOver(s)
      <4>1. attempts <= 1
        BY <1>0, <1>7, <2>1, <3>3 DEF Guarded, Excuses
      <4> QED
        BY <1>6, <1>8, <2>1, <3>3, <4>1 DEF Survival
    <3> QED
      BY <3>1, <3>2, <3>3
  <2>2. \A c \in calls' : (c.kind \in {"prepare", "abort"} /\ c.orphan) =>
            \/ \E d \in calls : c.kind = d.kind /\ d.orphan
            \/ Excuses({"prepare", "abort"})'
    BY <1>0, <1>1, <1>3 DEF Excuses
  <2>3. \A x \in Slots : /\ pc'[x] \in MigPCs => pc[x] \in MigPCs
                         /\ pc'[x] \in {"spawn", "boot"} => pc[x] \in {"spawn", "boot"}
    BY <1>2, <1>6
  <2>4. trouble \subseteq trouble'
    BY <1>0
  <2> QED
    BY <1>0, <1>5, <2>1, <2>2, <2>3, <2>4, SurvivalFrom
<1>10. ASSUME trouble' = {}, NEW x \in Claims PROVE x \in Claims' /\ host'[x] = host[x]
  <2>1. CASE x = s
    BY <1>0, <1>5, <2>1 DEF Claims, Mover
  <2>2. CASE x # s
    BY <1>0, <1>2, <1>4, <2>2 DEF Claims
  <2> QED
    BY <2>1, <2>2
<1> QED
  BY <1>9, <1>10 DEF Follows

(* A cancelled context acts at the next request, not before.               *)
LEMMA SurvivalCancel ==
  ASSUME IInv, IInv', Survival, NEW s \in Slots, Cancel(s)
  PROVE  Survival' /\ (trouble' = {} => Follows)
<1>0. UNCHANGED <<proc, host, pc, target, attempts, calls>> /\ trouble \subseteq trouble'
  BY DEF Cancel, slotVars
<1>1. \A x \in Slots : HandedOver(x)' <=> HandedOver(x)
  BY <1>0 DEF HandedOver, Pending
<1> QED
  BY <1>0, <1>1, StillStep

(* The source pauses its own process, which still holds the guest.         *)
LEMMA SurvivalPause ==
  ASSUME IInv, IInv', Survival, NEW s \in Slots, Pause(s)
  PROVE  Survival' /\ (trouble' = {} => Follows)
<1>0. /\ pc[s] = "pause" /\ UNCHANGED <<host, target, attempts, calls, trouble>>
      /\ pc'[s] \in {"final", "abort"} /\ proc'[s] \in {"paused", proc[s]}
      /\ \A x \in Slots : x # s => proc'[x] = proc[x] /\ pc'[x] = pc[x]
  BY DEF Pause, Paused, IInv, TypeOK
<1>1. \A x \in Slots : HandedOver(x)' <=> HandedOver(x)
  BY <1>0 DEF HandedOver, Pending
<1>2. /\ \A x \in Slots : Mover(x)' <=> Mover(x)
      /\ Mover(s)
  <2>1. ~HandedOver(s)
    BY <1>0, HandoverAtFinalize
  <2> QED
    BY <1>0, <1>1, <2>1 DEF Mover, Requests
<1>3. Undisturbed
  BY <1>0, <1>2 DEF Undisturbed, Holders
<1>4. \A x \in Slots : /\ pc'[x] \in MigPCs =>
                            pc[x] \in MigPCs /\ (pc[x] = "success" => pc'[x] = "success")
                       /\ pc'[x] \in {"spawn", "boot"} => pc[x] \in {"spawn", "boot"}
  BY <1>0 DEF MigPCs, Requests
<1> QED
  BY <1>0, <1>3, <1>4, SurvivalUndisturbed

(* The source kills its process only when the target runs the guest.       *)
LEMMA SurvivalSucceedKill ==
  ASSUME IInv, IInv', Survival, NEW s \in Slots, SucceedKill(s)
  PROVE  Survival' /\ (trouble' = {} => Follows)
<1>0. /\ pc[s] = "success" /\ UNCHANGED <<host, pc, target, attempts, calls, trouble>>
      /\ \A x \in Slots : x # s => proc'[x] = proc[x]
  BY DEF SucceedKill, IInv, TypeOK, srcVars
<1>1. HandedOver(s) /\ \A x \in Slots : HandedOver(x)' <=> HandedOver(x)
  BY <1>0 DEF HandedOver, Pending
<1>2. \A x \in Slots : Mover(x)' <=> Mover(x)
  BY <1>0, <1>1 DEF Mover
<1>3. \A z \in Slots : Safe(z) => Safe(z)'
  BY <1>0, <1>1 DEF Safe
<1>4. Undisturbed
  BY <1>0, <1>2, <1>3 DEF Undisturbed, Holders
<1> QED
  BY <1>0, <1>4, SurvivalUndisturbed

(* It says so, and the migration is over.                                  *)
LEMMA SurvivalSucceed ==
  ASSUME IInv, IInv', Survival, NEW s \in Slots, Succeed(s)
  PROVE  Survival' /\ (trouble' = {} => Follows)
<1>0. /\ pc[s] = "success" /\ UNCHANGED <<host, target, attempts, calls, trouble>>
      /\ pc'[s] = "none"
      /\ \A x \in Slots : x # s => proc'[x] = proc[x] /\ pc'[x] = pc[x]
  BY DEF Succeed, IInv, TypeOK
<1>1. HandedOver(s) /\ \A x \in Slots : x # s => (HandedOver(x)' <=> HandedOver(x))
  BY <1>0 DEF HandedOver, Pending
<1>2. \A x \in Slots : Mover(x)' <=> Mover(x)
  BY <1>0, <1>1 DEF Mover, Requests
<1>3. \A z \in Slots : Safe(z) => Safe(z)'
  BY <1>0, <1>1 DEF Safe
<1>4. Undisturbed
  BY <1>0, <1>2, <1>3 DEF Undisturbed, Holders, MigPCs, Requests
<1>5. \A x \in Slots : /\ pc'[x] \in MigPCs =>
                            pc[x] \in MigPCs /\ (pc[x] = "success" => pc'[x] = "success")
                       /\ pc'[x] \in {"spawn", "boot"} => pc[x] \in {"spawn", "boot"}
  BY <1>0 DEF MigPCs, Requests
<1> QED
  BY <1>0, <1>4, <1>5, SurvivalUndisturbed

(* The rollback resumes the guest, or the failure of that is on record.    *)
LEMMA SurvivalResume ==
  ASSUME IInv, IInv', Survival, NEW s \in Slots, Resume(s)
  PROVE  Survival' /\ (trouble' = {} => Follows)
<1>0. /\ pc[s] = "resume" /\ UNCHANGED <<host, target, attempts, calls>>
      /\ pc'[s] = "none"
      /\ \A x \in Slots : x # s => proc'[x] = proc[x] /\ pc'[x] = pc[x]
      /\ \/ proc'[s] = "running" /\ trouble' = trouble
         \/ /\ proc' = proc \/ proc'[s] = "running"
            /\ trouble' = trouble \cup {"resume"}
  BY DEF Resume, IInv, TypeOK
<1>1. /\ \A x \in Slots : x # s => (HandedOver(x)' <=> HandedOver(x))
      /\ ~HandedOver(s) /\ Mover(s) /\ ~HandedOver(s)' /\ ~Mover(s)'
  <2>1. ~HandedOver(s)
    BY <1>0, HandoverAtFinalize
  <2>2. ~HandedOver(s)'
    BY <1>0, HandoverAtFinalize, <2>1 DEF HandedOver, Pending
  <2> QED
    BY <1>0, <2>1, <2>2 DEF HandedOver, Pending, Mover, Requests
<1>2. ASSUME Guarded
      PROVE  /\ \A x \in Slots :
                  (Mover(x)' \/ (attempts <= 1 /\ pc'[x] \in MigPCs \ {"success"})) => x \in Holders'
             /\ \E z \in Slots : Safe(z)'
  <2>1. proc[s] \in {"running", "paused"}
    BY <1>1, <1>2 DEF Survival, Holders
  <2>2. Safe(s)'
    BY <1>0, <1>1, <2>1 DEF Safe
  <2>3. \A x \in Slots : ~Mover(x)'
    BY <1>0, <1>1, <1>2, OneMover DEF Mover
  <2>4. \A x \in Slots : attempts <= 1 => pc'[x] \notin MigPCs
    BY <1>0 DEF Survival, OneMigration, MigPCs, Requests
  <2> QED
    BY <2>2, <2>3, <2>4
<1>3. \A x \in Slots : /\ pc'[x] \in MigPCs =>
                            pc[x] \in MigPCs /\ (pc[x] = "success" => pc'[x] = "success")
                       /\ pc'[x] \in {"spawn", "boot"} => pc[x] \in {"spawn", "boot"}
  BY <1>0 DEF MigPCs, Requests
<1>4. Survival'
  <2>1. trouble \subseteq trouble'
    BY <1>0
  <2> QED
    BY <1>0, <1>2, <1>3, <2>1, SurvivalFrom
<1>5. ASSUME trouble' = {}, NEW x \in Claims PROVE x \in Claims' /\ host'[x] = host[x]
  <2>1. proc'[s] = "running"
    BY <1>0, <1>5
  <2>2. CASE x = s
    BY <1>0, <2>1, <2>2 DEF Claims
  <2>3. CASE x # s
    BY <1>0, <1>1, <2>3 DEF Claims
  <2> QED
    BY <2>2, <2>3
<1> QED
  BY <1>4, <1>5 DEF Follows

(* A boot starts its own process and stops no other.                       *)
LEMMA SurvivalBooting ==
  ASSUME IInv, IInv', Survival, NEW s \in Slots, Booting(s)
  PROVE  Survival' /\ (trouble' = {} => Follows)
<1>0. /\ pc[s] \in {"spawn", "boot"} /\ UNCHANGED <<host, target, attempts, calls, trouble>>
      /\ pc'[s] \in {"boot", "none"}
      /\ \A x \in Slots : x # s => proc'[x] = proc[x] /\ pc'[x] = pc[x]
  BY DEF Booting, BootSpawn, Boot, IInv, TypeOK
<1>1. \A x \in Slots : HandedOver(x)' <=> HandedOver(x)
  BY <1>0 DEF HandedOver, Pending
<1>2. \A x \in Slots : Mover(x)' <=> Mover(x)
  BY <1>0, <1>1 DEF Mover, Requests
<1>3. ~Safe(s)
  BY <1>0 DEF Safe, IInv, SlotSound
<1>4. \A z \in Slots : Safe(z) => Safe(z)'
  BY <1>0, <1>1, <1>3 DEF Safe
<1>5. Undisturbed
  BY <1>0, <1>2, <1>4 DEF Undisturbed, Holders, MigPCs, Requests
<1>6. \A x \in Slots : /\ pc'[x] \in MigPCs =>
                            pc[x] \in MigPCs /\ (pc[x] = "success" => pc'[x] = "success")
                       /\ pc'[x] \in {"spawn", "boot"} => pc[x] \in {"spawn", "boot"}
  BY <1>0 DEF MigPCs, Requests
<1> QED
  BY <1>0, <1>5, <1>6, SurvivalUndisturbed

(* prepare spawns a waiting process and stops none.                        *)
LEMMA SurvivalPrepareSpawn ==
  ASSUME IInv, IInv', Survival, NEW c \in calls, PrepareSpawn(c)
  PROVE  Survival' /\ (trouble' = {} => Follows)
<1> DEFINE n == NewSlot
<1>0. /\ c.kind = "prepare" /\ UNCHANGED <<pc, target, attempts>>
      /\ trouble \subseteq trouble'
      /\ Step(c, "spawned", n) \/ Step(c, "err", NoSlot)
  BY DEF PrepareSpawn, srcVars
<1>1. n \in Slots /\ proc[n] \in {"none", "killed"} /\ pc[n] = "none"
  BY NewSlotIsUnused DEF PrepareSpawn
<1>2. \A x \in Slots : x # n => proc'[x] = proc[x] /\ host'[x] = host[x]
  BY <1>1 DEF PrepareSpawn, IInv, TypeOK
<1> HIDE DEF n
<1>3. /\ \A x \in Slots : HandedOver(x)' <=> HandedOver(x)
      /\ \A e \in calls' : e.orphan => \E d \in calls : e.kind = d.kind /\ d.orphan
  <2>1. CASE Step(c, "spawned", n)
    BY <1>0, <1>1, <2>1, StepProgress DEF CallStates
  <2>2. CASE Step(c, "err", NoSlot)
    BY <1>0, <2>2, StepProgress DEF CallStates
  <2> QED
    BY <1>0, <2>1, <2>2
<1>4. Undisturbed
  <2>1. \A x \in Slots : Mover(x)' <=> Mover(x)
    BY <1>0, <1>3 DEF Mover
  <2>2. \A z \in Slots : Safe(z) => Safe(z)'
    BY <1>0, <1>1, <1>2, <1>3 DEF Safe
  <2>3. \A x \in Holders : x \in Holders'
    BY <1>1, <1>2 DEF Holders
  <2>4. n \notin Claims
    BY <1>1 DEF Claims, Requests
  <2> QED
    BY <1>2, <2>1, <2>2, <2>3, <2>4 DEF Undisturbed, Claims
<1>5. \A x \in Slots : pc'[x] \in MigPCs => x # n
  BY <1>0, <1>1 DEF MigPCs, Requests
<1> QED
  BY <1>0, <1>2, <1>3, <1>4, <1>5, SurvivalUndisturbed

(* A prepare or an abort kills at most VM objects of the host it goes to,  *)
(* which is not the mover's.                                               *)
LEMMA SurvivalKill ==
  ASSUME IInv, IInv', Survival, NEW c \in calls, c.kind \in {"prepare", "abort"},
         NEW st \in {"killed", "ok", "err"}, NEW n \in Slots \cup {NoSlot}, Step(c, st, n),
         UNCHANGED <<host, pc, target, attempts, trouble>>,
         \A x \in Slots : proc'[x] = proc[x] \/ host[x] = c.to
  PROVE  Survival' /\ (trouble' = {} => Follows)
<1>1. /\ \A x \in Slots : HandedOver(x)' <=> HandedOver(x)
      /\ \A e \in calls' : e.orphan => \E d \in calls : e.kind = d.kind /\ d.orphan
  BY StepProgress DEF CallStates
<1>2. ASSUME Guarded PROVE Undisturbed
  <2>1. /\ c.from \in Slots /\ Mover(c.from) /\ c.to # host[c.from]
        /\ attempts <= 1 => \A s \in Slots : pc[s] \in MigPCs => s = c.from
    BY <1>2, MoverKills
  <2>2. \A x \in Slots : Mover(x)' <=> Mover(x)
    BY <1>1 DEF Mover
  <2>3. \A x \in Slots : Mover(x) => x = c.from
    BY <1>2, <2>1, OneMover
  <2>4. proc'[c.from] = proc[c.from]
    BY <2>1
  <2> QED
    BY <2>1, <2>2, <2>3, <2>4 DEF Undisturbed, Holders, Claims
<1> QED
  BY <1>1, <1>2, SurvivalUndisturbed

(* prepare kills what was registered on its host, or its own waiting       *)
(* process if it fails: never the holder, which is the sender, on another  *)
(* host.                                                                   *)
LEMMA SurvivalPrepareFile ==
  ASSUME IInv, IInv', Survival, NEW c \in calls, PrepareFile(c)
  PROVE  Survival' /\ (trouble' = {} => Follows)
<1>0. /\ c.kind = "prepare" /\ c.st = "spawned" /\ c.to \in Hosts
      /\ c.slot \in Slots /\ host[c.slot] = c.to
      /\ Step(c, "ok", NoSlot) \/ Step(c, "err", NoSlot)
      /\ UNCHANGED <<host, pc, target, attempts, trouble>>
  BY DEF PrepareFile, IInv, CallSound, TypeOK, Call, srcVars
<1>1. reg[c.to] # NoSlot => reg[c.to] \in Slots /\ host[reg[c.to]] = c.to
  BY <1>0 DEF IInv, RegSound, TypeOK
<1>2. \A x \in Slots : proc'[x] = proc[x] \/ host[x] = c.to
  BY <1>0, <1>1 DEF PrepareFile, IInv, TypeOK
<1> QED
  BY <1>0, <1>2, SurvivalKill

(* abort kills what it has found on its host: its sender holds the guest   *)
(* on another.                                                             *)
LEMMA SurvivalAbortKill ==
  ASSUME IInv, IInv', Survival, NEW c \in calls, AbortKill(c)
  PROVE  Survival' /\ (trouble' = {} => Follows)
<1>0. /\ c.kind = "abort" /\ c.st = "checked"
      /\ c.slot \in Slots /\ host[c.slot] = c.to
      /\ Step(c, "killed", c.slot)
      /\ UNCHANGED <<host, pc, target, attempts, trouble>>
  BY DEF AbortKill, IInv, CallSound, srcVars
<1>1. \A x \in Slots : proc'[x] = proc[x] \/ host[x] = c.to
  BY <1>0 DEF AbortKill, IInv, TypeOK
<1> QED
  BY <1>0, <1>1, SurvivalKill

(* Handlers that leave the processes alone.                                *)
LEMMA SurvivalRead ==
  ASSUME IInv, IInv', Survival, NEW c \in calls,
         \/ Receive(c) \/ FinalizeCheck(c) \/ FinalizeRun(c)
         \/ AbortCheck(c) \/ AbortFree(c) \/ AbortRemove(c)
  PROVE  Survival' /\ (trouble' = {} => Follows)
<1>0. UNCHANGED <<proc, host, pc, target, attempts, trouble>> /\ reg[c.to] \in Slots \cup {NoSlot}
  BY DEF Receive, FinalizeCheck, FinalizeRun, AbortCheck, AbortFree, AbortRemove, slotVars, srcVars,
         IInv, TypeOK, Call
<1>1. PICK st \in {"checked", "freed", "ok", "err"}, n \in Slots \cup {NoSlot} :
        /\ Step(c, st, n)
        /\ \/ c.kind # "finalize"
           \/ c.st = "sent" /\ st \in {"checked", "err"}
           \/ c.st = "loaded" /\ st = "ok"
  BY <1>0 DEF Receive, FinalizeCheck, FinalizeRun, AbortCheck, AbortFree, AbortRemove
<1>2. /\ \A x \in Slots : HandedOver(x)' <=> HandedOver(x)
      /\ \A e \in calls' : e.orphan => \E d \in calls : e.kind = d.kind /\ d.orphan
  BY <1>0, <1>1, StepProgress DEF CallStates
<1> QED
  BY <1>0, <1>2, StillStep

(* The hand-over: the VM object that has loaded the snapshot has the guest.*)
LEMMA SurvivalFinalizeLoad ==
  ASSUME IInv, IInv', Survival, NEW c \in calls, FinalizeLoad(c)
  PROVE  Survival' /\ (trouble' = {} => Follows)
<1> DEFINE x == c.slot
<1>0. /\ c.kind = "finalize" /\ c.st = "checked" /\ x \in Slots /\ c.from \in Slots
      /\ UNCHANGED <<state, host, pc, target, attempts>> /\ trouble \subseteq trouble'
  BY DEF FinalizeLoad, IInv, CallSound, TypeOK, Call, srcVars
<1>1. CASE Step(c, "err", NoSlot) /\ proc' = proc
  <2>1. /\ \A y \in Slots : HandedOver(y)' <=> HandedOver(y)
        /\ \A e \in calls' : e.orphan => \E d \in calls : e.kind = d.kind /\ d.orphan
    BY <1>0, <1>1, StepProgress DEF CallStates
  <2> QED
    BY <1>0, <1>1, <2>1, StillStep
<1>2. CASE /\ proc[x] = "idle" /\ proc' = [proc EXCEPT ![x] = "running"]
           /\ Step(c, "loaded", x) /\ trouble' = trouble
  <2>1. PICK d \in Call :
          /\ calls' = (calls \ {c}) \cup {d}
          /\ d.st = "loaded" /\ d.slot = x
          /\ d.from = c.from /\ d.kind = c.kind /\ d.to = c.to /\ d.att = c.att
          /\ d.orphan = c.orphan
    BY <1>0, <1>2, StepReplaces, CallsTyped DEF CallStates
  <2> HIDE DEF x
  <2>2. /\ proc'[x] = "running" /\ \A y \in Slots : y # x => proc'[y] = proc[y]
        /\ pc[x] = "none"
    BY <1>0, <1>2 DEF IInv, TypeOK, SlotSound
  <2>3. \A y \in Slots : y # c.from => (HandedOver(y)' <=> HandedOver(y))
    BY <1>0, <2>1 DEF HandedOver, Pending
  <2>4. \A y \in Slots : Mover(y)' => Mover(y)
    <3>1. \A y \in Slots : HandedOver(y) => HandedOver(y)'
      BY <1>0, <2>1, StepKeepsHandover
    <3> QED
      BY <1>0, <3>1 DEF Mover
  <2>5. Safe(x)'
    <3>1. ~HandedOver(x)'
      BY <1>0, <2>2, HandoverAtFinalize DEF HandedOver, Pending, IInv, CallSound
    <3> QED
      BY <1>0, <2>2, <3>1 DEF Safe
  <2>6. Survival'
    <3>1. ASSUME Guarded
          PROVE  \A y \in Slots :
                   (Mover(y)' \/ (attempts <= 1 /\ pc'[y] \in MigPCs \ {"success"}))
                     => y \in Holders'
      BY <1>0, <2>2, <2>4, <3>1 DEF Survival, Holders
    <3> QED
      BY <1>0, <2>1, <2>5, <3>1, SurvivalFrom
  <2>7. ASSUME trouble' = {}, NEW y \in Claims PROVE proc[y] # "running" /\ Runners' # {}
    <3>1. ~c.orphan /\ pc[c.from] = "finalize"
      BY <1>0, <2>7 DEF IInv, OneClaim, Excuses, CallSound
    <3>2. ~HandedOver(c.from)
      BY <1>0, <3>1 DEF HandedOver, Pending, IInv, CallsApart
    <3>3. c.from \in Claims
      BY <1>0, <3>1, <3>2 DEF Claims, Requests
    <3>4. y = c.from
      BY <1>0, <2>7, <3>3 DEF IInv, OneClaim, Claimants, Excuses
    <3>5. proc[c.from] # "running"
      BY <1>0, <3>1 DEF IInv, SlotSound
    <3> QED
      BY <1>0, <2>2, <3>4, <3>5 DEF Runners
  <2> QED
    BY <2>6, <2>7 DEF Follows
<1>3. CASE /\ proc[x] = "idle" /\ proc' = [proc EXCEPT ![x] = "running"]
           /\ Step(c, "err", NoSlot) /\ trouble' = trouble \cup {"finalize"}
  <2>1. /\ \A y \in Slots : HandedOver(y)' <=> HandedOver(y)
        /\ \A e \in calls' : e.orphan => \E d \in calls : e.kind = d.kind /\ d.orphan
    BY <1>0, <1>3, StepProgress DEF CallStates
  <2> HIDE DEF x
  <2>2. proc'[x] = "running" /\ \A y \in Slots : y # x => proc'[y] = proc[y]
    BY <1>0, <1>3 DEF IInv, TypeOK
  <2>3. Undisturbed
    <3>1. \A y \in Slots : Mover(y)' <=> Mover(y)
      BY <1>0, <2>1 DEF Mover
    <3>2. \A z \in Slots : Safe(z) => Safe(z)'
      BY <1>0, <1>3, <2>1, <2>2 DEF Safe
    <3> QED
      BY <1>0, <2>2, <3>1, <3>2 DEF Undisturbed, Holders, Claims
  <2> QED
    BY <1>0, <2>1, <2>3, SurvivalUndisturbed
<1> QED
  BY <1>1, <1>2, <1>3 DEF FinalizeLoad

(* An orphan that is dropped can kill no more.                             *)
LEMMA SurvivalForget ==
  ASSUME IInv, IInv', Survival, NEW c \in calls, Forget(c)
  PROVE  Survival' /\ (trouble' = {} => Follows)
<1>0. /\ c.orphan /\ calls' = calls \ {c}
      /\ UNCHANGED <<proc, host, pc, target, attempts, trouble>>
  BY DEF Forget, slotVars, srcVars
<1>1. \A x \in Slots : HandedOver(x)' <=> HandedOver(x)
  BY <1>0 DEF HandedOver, Pending
<1> QED
  BY <1>0, <1>1, StillStep

(* A second guest does not touch the first.                                *)
LEMMA SurvivalCreate ==
  ASSUME IInv, IInv', Survival, NEW h \in Hosts, Create(h)
  PROVE  Survival' /\ (trouble' = {} => Follows)
<1> DEFINE n == NewSlot
<1>0. /\ trouble' = IF Holders # {} \/ ~Quiet THEN trouble \cup {"create"} ELSE trouble
      /\ UNCHANGED <<target, attempts, calls>>
  BY DEF Create
<1>1. /\ n \in Slots /\ proc[n] \in {"none", "killed"} /\ pc[n] = "none"
  BY NewSlotIsUnused DEF Create
<1>2. /\ \A x \in Slots : x # n => pc'[x] = pc[x] /\ proc'[x] = proc[x] /\ host'[x] = host[x]
      /\ \/ pc'[n] = "spawn"
         \/ UNCHANGED <<proc, host, pc>>
  BY <1>1 DEF Create, IInv, TypeOK, slotVars
<1> HIDE DEF n
<1>3. \A x \in Slots : HandedOver(x)' <=> HandedOver(x)
  BY <1>0, <1>1, <1>2 DEF HandedOver, Pending
<1>4. Undisturbed
  <2>1. \A x \in Slots : Mover(x)' <=> Mover(x)
    BY <1>1, <1>2, <1>3 DEF Mover, Requests
  <2>2. \A z \in Slots : Safe(z) => Safe(z)'
    BY <1>0, <1>1, <1>2, <1>3 DEF Safe
  <2>3. \A x \in Holders : x \in Holders'
    BY <1>1, <1>2 DEF Holders
  <2>4. n \notin Claims
    BY <1>1 DEF Claims, Requests
  <2> QED
    BY <1>2, <2>1, <2>2, <2>3, <2>4 DEF Undisturbed, Claims
<1>5. \A x \in Slots : pc'[x] \in MigPCs =>
        pc[x] \in MigPCs /\ host'[x] = host[x] /\ pc'[x] = pc[x]
  BY <1>1, <1>2 DEF MigPCs, Requests
<1>6. CASE Guarded
  <2>1. Holders # {}
    BY <1>6 DEF Survival, Safe, Holders
  <2>2. "create" \in trouble'
    BY <1>0, <2>1
  <2> QED
    BY <1>0, <1>4, <1>5, <2>2, SurvivalUndisturbed
<1>7. CASE ~Guarded
  <2>1. ~Guarded' /\ trouble' # {}
    <3>1. trouble \subseteq trouble' /\ attempts <= attempts'
      BY <1>0 DEF IInv, TypeOK
    <3>2. ~Guarded'
      BY <1>7, <3>1, GuardedBefore
    <3> QED
      BY <3>2 DEF Guarded, Excuses
  <2>2. OneMigration'
    BY <1>0, <1>5 DEF Survival, OneMigration
  <2> QED
    BY <2>1, <2>2 DEF Survival
<1> QED
  BY <1>6, <1>7

(* The process that a DELETE kills is excused; nothing else it does        *)
(* touches one.                                                            *)
LEMMA SurvivalDelete ==
  ASSUME IInv, IInv', Survival, NEW d \in Deletes,
         (\E h \in Hosts : DeleteLook(d, h)) \/ Deleting(d)
  PROVE  Survival' /\ (trouble' = {} => Follows)
<1>1. CASE DeleteKill(d)
  <2>0. UNCHANGED <<pc, attempts>> /\ trouble \subseteq trouble' /\ del[d].slot # NoSlot
    BY <1>1 DEF DeleteKill
  <2>1. "delete" \in trouble'
    BY <2>0 DEF IInv, DelSound
  <2>2. ~Guarded' /\ trouble' # {}
    BY <2>1 DEF Guarded, Excuses
  <2>3. OneMigration'
    BY <2>0 DEF Survival, OneMigration
  <2> QED
    BY <2>2, <2>3 DEF Survival
<1>2. CASE (\E h \in Hosts : DeleteLook(d, h)) \/ DeleteState(d) \/ DeleteFree(d)
  <2>1. UNCHANGED <<proc, host, pc, target, attempts, calls>> /\ trouble \subseteq trouble'
    BY <1>2 DEF DeleteLook, DeleteState, DeleteFree, slotVars
  <2>2. \A x \in Slots : HandedOver(x)' <=> HandedOver(x)
    BY <2>1 DEF HandedOver, Pending
  <2> QED
    BY <2>1, <2>2, StillStep
<1> QED
  BY <1>1, <1>2 DEF Deleting

-----------------------------------------------------------------------------
(* No failure loses the guest.                                             *)

(* In the beginning one process runs the guest.                            *)
LEMMA SurvivalInit == Init => Survival
<1> SUFFICES ASSUME Init PROVE Survival
  OBVIOUS
<1> DEFINE s == CHOOSE x \in Slots : TRUE
<1>0. s \in Slots
  BY SlotsAssumption
<1>1. /\ proc = [x \in Slots |-> IF x = s THEN "running" ELSE "none"]
      /\ pc = [x \in Slots |-> "none"]
      /\ attempts = 0 /\ calls = {} /\ trouble = {}
  BY DEF Init
<1> HIDE DEF s
<1>2. Safe(s)
  BY <1>0, <1>1 DEF Safe, HandedOver, Pending
<1>3. \A x \in Slots : pc[x] \notin MigPCs
  BY <1>1 DEF MigPCs, Requests
<1>4. \A x \in Slots : ~Mover(x)
  BY <1>1 DEF Mover, Requests
<1> QED
  BY <1>0, <1>1, <1>2, <1>3, <1>4 DEF Survival, OneMigration

(* Every step of the control plane keeps the guest alive, and where        *)
(* nothing went wrong it moves the claim as GuestOwner does.               *)
LEMMA SurvivalStep ==
  ASSUME IInv, IInv', Survival, [Next]_vars
  PROVE  Survival' /\ (trouble' = {} => Follows)
<1>1. CASE \E s \in Slots : Source(s) \/ Booting(s)
  <2> PICK s \in Slots : Source(s) \/ Booting(s)
    BY <1>1
  <2>1. CASE FailsAtOnce(s)
    BY <2>1, SurvivalAbandon DEF FailsAtOnce
  <2> QED
    BY <2>1, SurvivalSend, SurvivalReadReply, SurvivalPause, SurvivalSucceedKill,
       SurvivalSucceed, SurvivalResume, SurvivalBooting DEF Source
<1>2. CASE \E c \in calls : Handle(c) \/ Forget(c)
  BY <1>2, SurvivalPrepareSpawn, SurvivalPrepareFile, SurvivalRead, SurvivalFinalizeLoad,
     SurvivalAbortKill, SurvivalForget DEF Handle
<1>3. CASE \E s \in Slots : TimeOut(s)
  <2> PICK s \in Slots : TimeOut(s)
    BY <1>3
  <2>1. Abandon(s) /\ pc[s] \in Requests
    BY DEF TimeOut, Pending, IInv, CallSound, TypeOK, Call
  <2> QED
    BY <2>1, SurvivalAbandon
<1>4. CASE Operate \/ \E d \in Deletes : Deleting(d)
  BY <1>4, SurvivalMigrate, SurvivalCancel, SurvivalCreate, SurvivalDelete DEF Operate
<1>5. CASE UNCHANGED vars
  <2>1. UNCHANGED <<proc, host, pc, target, attempts, calls, trouble>>
    BY <1>5 DEF vars, slotVars, srcVars
  <2>2. \A x \in Slots : HandedOver(x)' <=> HandedOver(x)
    BY <2>1 DEF HandedOver, Pending
  <2> QED
    BY <2>1, <2>2, StillStep
<1> QED
  BY <1>1, <1>2, <1>3, <1>4, <1>5 DEF Next, Serve

(* Some process holds the guest, and no request under way can kill it:     *)
(* through any failures, timeouts and cancellations of migrateInner,       *)
(* unless a request that could was lost or the operator removed the VM.    *)
THEOREM SurvivalInvariance == Spec => []Survival
<1>1. IInv /\ IInv' /\ Survival /\ [Next]_vars => Survival'
  BY SurvivalStep
<1> QED
  BY <1>1, Invariance, SurvivalInit, PTL DEF Spec

(* Some process holds the guest, running or paused, whatever requests are  *)
(* refused, lost or cancelled, whichever processes do not start or resume, *)
(* for any number of agents and migrations: migrate's order of steps (the  *)
(* source is killed only after finalize has answered) keeps it.            *)
THEOREM GuestIsNeverLost == Spec => []GuestSurvives
<1>1. IInv /\ Survival => GuestSurvives
  <2> SUFFICES ASSUME IInv, Survival, Guarded PROVE Holders # {}
    BY DEF GuestSurvives, Guarded, Excuses, IInv, TypeOK
  <2>1. CASE \E s \in Slots : Mover(s)
    BY <2>1 DEF Survival
  <2>2. CASE \A s \in Slots : ~Mover(s)
    BY <2>2 DEF Survival, Safe, Holders
  <2> QED
    BY <2>1, <2>2
<1> QED
  BY <1>1, Invariance, SurvivalInvariance, PTL

-----------------------------------------------------------------------------
(* The refinement.                                                         *)

(* Without trouble one VM object owns the guest.                           *)
OwnedBy(s) ==
  /\ Claims = {s} /\ OwnerOf = host[s]
  /\ {host[x] : x \in Runners} = IF proc[s] = "running" THEN {host[s]} ELSE {}

Owned == trouble = {} => \E s \in Slots : OwnedBy(s)

(* Where nothing went wrong there is exactly one claim.                    *)
LEMMA OwnerKnown == IInv /\ Survival => Owned
<1> SUFFICES ASSUME IInv, Survival, trouble = {} PROVE \E s \in Slots : OwnedBy(s)
  BY DEF Owned
<1>1. Guarded
  BY DEF Guarded, Excuses
<1>2. Claims # {}
  <2>1. CASE \E s \in Slots : Mover(s)
    BY <2>1 DEF Mover, Claims
  <2>2. CASE \A s \in Slots : ~Mover(s)
    BY <1>1, <2>2 DEF Survival, Safe, Claims
  <2> QED
    BY <2>1, <2>2
<1>3. PICK s \in Slots : Claims = {s}
  BY <1>2 DEF IInv, OneClaim, Excuses, Claims, Claimants
<1>4. OwnerOf = host[s]
  BY <1>3 DEF OwnerOf
<1>5. Runners = IF proc[s] = "running" THEN {s} ELSE {}
  BY <1>3 DEF Runners, Claims
<1> QED
  BY <1>3, <1>4, <1>5 DEF OwnedBy

(* A step that moves the claim that way is a step of GuestOwner, or none.  *)
LEMMA OwnerStep ==
  ASSUME IInv, IInv', Owned, Owned', trouble \subseteq trouble', trouble' = {} => Follows
  PROVE  [Owner!Next]_Owner!ownerVars
<1>1. CASE trouble' # {}
  BY <1>1 DEF Owner!Next, Owner!Excused
<1>2. CASE trouble' = {}
  <2>0. trouble = {} /\ Follows
    BY <1>2
  <2>1. PICK s \in Slots : OwnedBy(s)
    BY <2>0 DEF Owned
  <2>2. PICK t \in Slots : OwnedBy(t)'
    BY <1>2 DEF Owned
  <2>3. host[s] \in Hosts /\ host'[t] \in Hosts
    BY DEF IInv, TypeOK
  <2>4. (trouble # {})' = (trouble # {})
    BY <1>2, <2>0
  <2>5. CASE s \in Claims' /\ host'[s] = host[s]
    <3>1. t = s
      BY <2>2, <2>5 DEF OwnedBy
    <3> QED
      BY <2>1, <2>2, <2>3, <2>4, <2>5, <3>1
         DEF OwnedBy, Owner!Next, Owner!Stop, Owner!RunOn, Owner!ownerVars
  <2>6. CASE proc[s] # "running" /\ Runners' # {}
    <3>1. proc'[t] = "running"
      BY <2>2, <2>6 DEF OwnedBy, Runners, Claims
    <3> QED
      BY <2>1, <2>2, <2>3, <2>4, <2>6, <3>1 DEF OwnedBy, Owner!Next, Owner!RunOn
  <2> QED
    BY <2>0, <2>1, <2>5, <2>6 DEF Follows, OwnedBy
<1> QED
  BY <1>1, <1>2

(* What went wrong stays on record.                                        *)
LEMMA TroubleGrows == [Next]_vars => trouble \subseteq trouble'
BY DEF Next, Serve, Operate, Source, Booting, Handle, Forget, TimeOut, Abandon, FailsAtOnce, vars,
       Migrate, Send, ReadReply, Cancel, Pause, SucceedKill, Succeed, Resume, PrepareSpawn,
       PrepareFile, Receive, FinalizeCheck, FinalizeLoad, FinalizeRun, AbortCheck, AbortKill,
       AbortFree, AbortRemove, Create, BootSpawn, Boot, Deleting, DeleteLook, DeleteKill,
       DeleteState, DeleteFree

(* The agents implement GuestOwner: every step of the control plane is a   *)
(* stop of the guest where it is, a start of a stopped guest, a step that  *)
(* does not show, or one after something went wrong that excuses it.       *)
THEOREM ImplementsOwner == Spec => Owner!Safety
<1>1. Init => Owner!Init
  <2> SUFFICES ASSUME Init PROVE Owner!Init
    OBVIOUS
  <2>1. trouble = {} /\ IInv /\ Survival
    BY IInvInit, SurvivalInit DEF Init
  <2>2. PICK s \in Slots : OwnedBy(s)
    BY <2>1, OwnerKnown DEF Owned
  <2>3. proc[s] = "running" /\ host[s] \in Hosts
    <3>1. \A x \in Slots : pc[x] = "none" /\ host[x] \in Hosts
      BY DEF Init
    <3> QED
      BY <2>2, <3>1 DEF OwnedBy, Claims, Requests
  <2> QED
    BY <2>1, <2>2, <2>3 DEF OwnedBy, Owner!Init
<1>2. IInv /\ IInv' /\ Survival /\ Owned /\ Owned' /\ [Next]_vars
        => [Owner!Next]_Owner!ownerVars
  BY SurvivalStep, TroubleGrows, OwnerStep
<1> QED
  BY <1>1, <1>2, Invariance, SurvivalInvariance, OwnerKnown, PTL DEF Spec, Owner!Safety

-----------------------------------------------------------------------------
(* The image that the target resumes is whole.                             *)

(* No request was given up and no second guest created.                    *)
Unmixed == ~Excuses(Requests \cup {"create"})

(* The mover's request has been served.                                    *)
Served(s) == \E c \in Pending(s) : c.st = "ok"

(* But for final.vmstate the target's directory holds these pieces of the  *)
(* mover's attempt, and no others.                                         *)
Holds(s, kinds) ==
  {x \in files[target[s]] : x[1] # "vmstate"} = {Dir} \cup (kinds \X {att[s]})

(* How far the image has come at each point of migrateInner.               *)
Stage(s) ==
  /\ ((pc[s] = "prepare" /\ Served(s)) \/ (pc[s] = "mem" /\ ~Served(s)))
       => Holds(s, {"recv"})
  /\ ((pc[s] = "mem" /\ Served(s)) \/ pc[s] = "pause" \/ (pc[s] = "final" /\ ~Served(s)))
       => Holds(s, {"recv", "mem"})
  /\ ((pc[s] = "final" /\ Served(s)) \/ pc[s] = "vmstate")
       => Holds(s, {"recv", "mem", "final"})
  /\ ((pc[s] = "vmstate" /\ Served(s)) \/ pc[s] = "finalize")
       => files[target[s]] = {Dir} \cup ({"recv", "mem", "final", "vmstate"} \X {att[s]})

ImageSound ==
  /\ \A h \in Hosts : \A x \in files[h] : x[1] = "dir" => x = Dir
  /\ \A c \in calls : ~c.orphan => c.att = att[c.from]
  /\ \A s \in Slots : pc[s] \in MigPCs => att[s] >= 1
  /\ Unmixed =>
       /\ \A c \in calls : ~c.orphan
       /\ \A s \in Slots : Mover(s) => Stage(s)

-----------------------------------------------------------------------------
(* What is left to show of a step.                                         *)
LEMMA ImageFrom ==
  ASSUME ImageSound, trouble \subseteq trouble',
         \A h \in Hosts : \A x \in files'[h] : x[1] = "dir" => x = Dir,
         \A c \in calls' : ~c.orphan => c.att = att'[c.from],
         \A s \in Slots : pc'[s] \in MigPCs => att'[s] >= 1,
         (Unmixed /\ Unmixed') => /\ \A c \in calls' : ~c.orphan
                                 /\ \A s \in Slots : Mover(s)' => Stage(s)'
  PROVE  ImageSound'
<1>1. Unmixed' => Unmixed
  BY DEF Unmixed, Excuses
<1> QED
  BY <1>1 DEF ImageSound

(* A stage holds on as long as its source and its file are left alone.     *)
LEMMA StageKept ==
  ASSUME NEW s \in Slots, Stage(s), Served(s)' <=> Served(s),
         pc'[s] = pc[s], target'[s] = target[s], att'[s] = att[s],
         files'[target[s]] = files[target[s]]
  PROVE  Stage(s)'
BY DEF Stage, Holds

(* Steps that touch neither requests nor files nor where a mover is.       *)
LEMMA ImageStill ==
  ASSUME ImageSound, trouble \subseteq trouble', UNCHANGED <<calls, files, target, att>>,
         \A s \in Slots : pc'[s] \in MigPCs => pc[s] \in MigPCs,
         \A s \in Slots : Mover(s)' => Mover(s) /\ (pc'[s] = pc[s] \/ pc'[s] \in {"abort", "resume"})
  PROVE  ImageSound'
<1>1. \A s \in Slots : Served(s)' <=> Served(s)
  BY DEF Served, Pending
<1>2. ASSUME Unmixed, NEW s \in Slots, Mover(s)' PROVE Stage(s)'
  <2>1. Stage(s)
    BY <1>2 DEF ImageSound
  <2>2. CASE pc'[s] = pc[s]
    BY <1>1, <2>1, <2>2, StageKept
  <2>3. CASE pc'[s] \in {"abort", "resume"}
    BY <2>3 DEF Stage
  <2> QED
    BY <1>2, <2>2, <2>3
<1> QED
  BY <1>2, ImageFrom DEF ImageSound

(* Without excuse every request that is not a finalize is the mover's.     *)
LEMMA MoverAsks ==
  ASSUME IInv, ImageSound, Unmixed, NEW c \in calls
  PROVE  /\ c \in Call /\ c.from \in Slots /\ c.to \in Hosts /\ ~c.orphan
         /\ c.kind = pc[c.from] /\ c.to = target[c.from] /\ c.att = att[c.from]
         /\ \A e \in calls : e.from = c.from => e = c
         /\ c.kind # "finalize" => /\ Mover(c.from)
                                  /\ \A s \in Slots : Mover(s) => s = c.from
<1>1. /\ c \in Call /\ c.from \in Slots /\ c.to \in Hosts /\ ~c.orphan
      /\ c.kind = pc[c.from] /\ c.to = target[c.from] /\ c.att = att[c.from]
      /\ c.kind \in Requests
  BY DEF IInv, ImageSound, CallSound, TypeOK, Call
<1>2. \A e \in calls : e.from = c.from => e = c
  BY <1>1 DEF IInv, ImageSound, CallsApart
<1>3. c.kind # "finalize" => Mover(c.from)
  BY <1>1, HandoverAtFinalize DEF Mover, Requests
<1>4. \A s, t \in Slots : Mover(s) /\ Mover(t) => s = t
  BY DEF IInv, OneClaim, Claimants, Unmixed, Excuses, Mover, Claims, Requests
<1> QED
  BY <1>1, <1>2, <1>3, <1>4

(* A handler's progress: the request of one source changes its state.      *)
LEMMA ServedByStep ==
  ASSUME IInv, ImageSound, Unmixed, NEW c \in calls, NEW d,
         calls' = (calls \ {c}) \cup {d}, d.from = c.from, d.orphan = c.orphan
  PROVE  /\ Served(c.from)' <=> d.st = "ok"
         /\ Served(c.from) <=> c.st = "ok"
         /\ \A s \in Slots : s # c.from => (Served(s)' <=> Served(s))
<1>1. ~c.orphan /\ \A e \in calls : e.from = c.from => e = c
  BY MoverAsks
<1> QED
  BY <1>1 DEF Served, Pending

-----------------------------------------------------------------------------
(* The steps.                                                              *)

(* A new attempt: nothing of it has been received yet.                     *)
LEMMA ImageMigrate ==
  ASSUME IInv, IInv', ImageSound, NEW s \in Slots, NEW t \in Hosts, Migrate(s, t)
  PROVE  ImageSound'
<1>0. /\ pc[s] = "none" /\ s \in Eligible
      /\ pc' = [pc EXCEPT ![s] = "prepare"]
      /\ target' = [target EXCEPT ![s] = t]
      /\ attempts' = attempts + 1 /\ attempts \in Nat
      /\ att' = [att EXCEPT ![s] = attempts + 1]
      /\ trouble \subseteq trouble'
      /\ UNCHANGED <<proc, calls, files>>
  BY DEF Migrate, IInv, TypeOK, Eligible
<1>1. /\ pc'[s] = "prepare" /\ att'[s] = attempts + 1
      /\ \A x \in Slots : x # s => /\ pc'[x] = pc[x] /\ target'[x] = target[x]
                                   /\ att'[x] = att[x]
  BY <1>0 DEF IInv, TypeOK
<1>2. \A c \in calls : c.from \in Slots /\ (~c.orphan => c.from # s)
  BY <1>0 DEF IInv, CallSound, TypeOK, Call, Requests
<1>3. ASSUME Unmixed, NEW x \in Slots, Mover(x)' PROVE Stage(x)'
  <2>1. CASE x = s
    BY <1>0, <1>1, <1>2, <2>1 DEF Stage, Served, Pending
  <2>2. CASE x # s
    <3>1. Mover(x)
      BY <1>0, <1>1, <1>3, <2>2 DEF Mover, HandedOver, Pending
    <3>2. x = s
      BY <1>0, <1>3, <3>1 DEF IInv, OneClaim, Claimants, Unmixed, Excuses, Mover, Claims, Requests
    <3> QED
      BY <2>2, <3>2
  <2> QED
    BY <2>1, <2>2
<1>4. \A x \in Slots : pc'[x] \in MigPCs => att'[x] >= 1
  BY <1>0, <1>1 DEF ImageSound
<1>5. \A c \in calls' : ~c.orphan => c.att = att'[c.from]
  BY <1>0, <1>1, <1>2 DEF ImageSound
<1> QED
  BY <1>0, <1>3, <1>4, <1>5, ImageFrom DEF ImageSound

(* A request is sent; the files are as they were.                          *)
LEMMA ImageSend ==
  ASSUME IInv, IInv', ImageSound, NEW s \in Slots, Send(s)
  PROVE  ImageSound'
<1>0. /\ Pending(s) = {} /\ calls' = calls \cup {Request(s)}
      /\ UNCHANGED <<pc, target, att, files, trouble>>
  BY DEF Send, slotVars, srcVars
<1>1. /\ Request(s).st = "sent" /\ Request(s).orphan = FALSE /\ Request(s).from = s
      /\ Request(s).att = att[s]
  BY DEF Request
<1>2. \A x \in Slots : /\ Served(x)' <=> Served(x)
                       /\ HandedOver(x)' <=> HandedOver(x)
  BY <1>0, <1>1 DEF Served, HandedOver, Pending
<1>3. ASSUME Unmixed, NEW x \in Slots, Mover(x)' PROVE Stage(x)'
  <2>1. Mover(x) /\ Stage(x)
    BY <1>0, <1>2, <1>3 DEF Mover, ImageSound
  <2> QED
    BY <1>0, <1>2, <2>1, StageKept
<1>4. \A c \in calls' : ~c.orphan => c.att = att'[c.from]
  BY <1>0, <1>1 DEF ImageSound
<1> QED
  BY <1>0, <1>1, <1>3, <1>4, ImageFrom DEF ImageSound

(* The source goes on to the next request: what it had asked for is there. *)
LEMMA ImageReadReply ==
  ASSUME IInv, IInv', ImageSound, NEW s \in Slots, ReadReply(s)
  PROVE  ImageSound'
<1> PICK c \in Pending(s) :
      /\ c.st \in {"ok", "err"}
      /\ pc' = [pc EXCEPT ![s] = IF c.st = "ok" THEN AfterReply[@] ELSE AfterError(@)]
      /\ calls' = calls \ {c}
  BY DEF ReadReply
<1>0. /\ UNCHANGED <<target, att, files, trouble>>
      /\ c \in calls /\ c.from = s /\ ~c.orphan /\ c.kind = pc[s] /\ pc[s] \in Requests
  BY DEF ReadReply, Pending, IInv, CallSound, TypeOK, Call, slotVars
<1>1. \A x \in Slots : x # s => /\ pc'[x] = pc[x] /\ (HandedOver(x)' <=> HandedOver(x))
                                /\ Served(x)' <=> Served(x)
  BY <1>0 DEF HandedOver, Served, Pending, IInv, TypeOK
<1>2. pc'[s] = IF c.st = "ok" THEN AfterReply[pc[s]] ELSE AfterError(pc[s])
  BY DEF IInv, TypeOK
<1>3. ~Served(s)'
  BY <1>0 DEF Served, Pending, IInv, CallsApart
<1>4. c.st = "ok" => Served(s)
  BY DEF Served
<1>5. ASSUME Unmixed, NEW x \in Slots, Mover(x)' PROVE Stage(x)'
  <2>1. CASE x # s
    <3>1. Mover(x) /\ Stage(x)
      BY <1>1, <1>5, <2>1 DEF Mover, ImageSound
    <3> QED
      BY <1>0, <1>1, <2>1, <3>1, StageKept
  <2>2. CASE x = s /\ c.st = "err"
    BY <1>2, <2>2 DEF Stage, AfterError
  <2>3. CASE x = s /\ c.st = "ok"
    <3>1. Mover(s) /\ Stage(s)
      <4>1. pc[s] # "finalize"
        BY <1>2, <1>5, <2>3 DEF AfterReply, Mover, Requests
      <4> QED
        BY <1>0, <1>5, <4>1, HandoverAtFinalize DEF Mover, ImageSound, Requests
    <3>2. Holds(s, {"recv"})' = Holds(s, {"recv"})
      BY <1>0 DEF Holds
    <3>3. Holds(s, {"recv", "mem"})' = Holds(s, {"recv", "mem"})
      BY <1>0 DEF Holds
    <3>4. Holds(s, {"recv", "mem", "final"})' = Holds(s, {"recv", "mem", "final"})
      BY <1>0 DEF Holds
    <3>5. pc'[s] = AfterReply[pc[s]]
      BY <1>2, <2>3
    <3> QED
      BY <1>0, <1>3, <1>4, <2>3, <3>1, <3>2, <3>3, <3>4, <3>5 DEF Stage, AfterReply, Requests
  <2> QED
    BY <2>1, <2>2, <2>3
<1>6. \A x \in Slots : pc'[x] \in MigPCs => att'[x] >= 1
  BY <1>0, <1>1 DEF ImageSound, MigPCs
<1> QED
  BY <1>0, <1>5, <1>6, ImageFrom DEF ImageSound

(* A request that is given up is a lost one, which the property excuses.   *)
LEMMA ImageAbandon ==
  ASSUME IInv, IInv', ImageSound, NEW s \in Slots, pc[s] \in Requests, Abandon(s)
  PROVE  ImageSound'
<1>0. /\ UNCHANGED <<target, att, files>>
      /\ pc' = [pc EXCEPT ![s] = AfterError(@)]
      /\ trouble' = trouble \cup {c.kind : c \in Pending(s)}
  BY DEF Abandon
<1>1. /\ Pending(s) \subseteq calls
      /\ \A c \in Pending(s) : c \in Call /\ c.from = s /\ ~c.orphan
      /\ calls' = (calls \ Pending(s)) \cup {Orphaned(c) : c \in Pending(s)}
  BY AbandonOrphans DEF IInv, TypeOK
<1>2. /\ pc'[s] \in {"abort", "resume"} /\ \A x \in Slots : x # s => pc'[x] = pc[x]
  BY <1>0 DEF IInv, TypeOK, AfterError
<1>3. \A x \in Slots : pc'[x] \in MigPCs => att'[x] >= 1
  BY <1>0, <1>2 DEF ImageSound, MigPCs
<1>4. \A c \in calls' : ~c.orphan => c \in calls
  BY <1>1, OrphanedIsCall
<1>5. ASSUME Unmixed, Unmixed'
      PROVE  /\ \A c \in calls' : ~c.orphan
             /\ \A x \in Slots : Mover(x)' => Stage(x)'
  <2>1. Pending(s) = {}
    <3>1. \A c \in Pending(s) : c.kind \in Requests
      BY <1>1 DEF Call
    <3> QED
      BY <1>0, <1>5, <3>1 DEF Unmixed, Excuses
  <2>2. calls' = calls
    BY <1>1, <2>1
  <2>3. ASSUME NEW x \in Slots, Mover(x)' PROVE Stage(x)'
    <3>1. CASE x = s
      BY <1>2, <3>1 DEF Stage
    <3>2. CASE x # s
      <4>1. (Served(x)' <=> Served(x)) /\ Mover(x)
        BY <1>2, <2>2, <2>3, <3>2 DEF Served, Mover, HandedOver, Pending
      <4>2. Stage(x)
        BY <1>5, <4>1 DEF ImageSound
      <4> QED
        BY <1>0, <1>2, <3>2, <4>1, <4>2, StageKept
    <3> QED
      BY <3>1, <3>2
  <2> QED
    BY <1>5, <2>2, <2>3 DEF ImageSound
<1> QED
  BY <1>0, <1>3, <1>4, <1>5, ImageFrom DEF ImageSound

(* The final dump writes to the source's own directory.                    *)
LEMMA ImagePause ==
  ASSUME IInv, IInv', ImageSound, NEW s \in Slots, Pause(s)
  PROVE  ImageSound'
<1>0. /\ pc[s] = "pause" /\ UNCHANGED <<target, att, calls, trouble>> /\ host[s] \in Hosts
      /\ pc'[s] \in {"final", "abort"}
      /\ \A x \in Slots : x # s => pc'[x] = pc[x]
      /\ \/ files' = files
         \/ files' = [files EXCEPT ![host[s]] = Replaced(@, "vmstate", att[s])]
  BY DEF Pause, IInv, TypeOK
<1>1. \A h \in Hosts : {x \in files'[h] : x[1] # "vmstate"} = {x \in files[h] : x[1] # "vmstate"}
  BY <1>0 DEF IInv, TypeOK, Replaced
<1>2. \A h \in Hosts : \A x \in files'[h] : x[1] = "dir" => x = Dir
  BY <1>1 DEF ImageSound
<1>3. ASSUME Unmixed, NEW x \in Slots, Mover(x)' PROVE Stage(x)'
  <2>1. CASE x = s
    <3>1. Mover(s) /\ Stage(s) /\ target[s] \in Hosts
      BY <1>0, <1>3, HandoverAtFinalize DEF Mover, ImageSound, IInv, TypeOK
    <3>2. Holds(s, {"recv", "mem"})'
      BY <1>0, <1>1, <3>1 DEF Stage, Holds
    <3>3. ~Served(s)'
      BY <1>0 DEF Served, Pending, IInv, CallSound, TypeOK, Call, Requests
    <3> QED
      BY <1>0, <2>1, <3>2, <3>3 DEF Stage
  <2>2. CASE x # s
    <3>1. Mover(x) /\ Mover(s)
      BY <1>0, <1>3, <2>2, HandoverAtFinalize DEF Mover, HandedOver, Pending
    <3> QED
      BY <1>3, <2>2, <3>1 DEF IInv, OneClaim, Claimants, Unmixed, Excuses, Mover, Claims, Requests
  <2> QED
    BY <2>1, <2>2
<1>4. \A x \in Slots : pc'[x] \in MigPCs => att'[x] >= 1
  BY <1>0 DEF ImageSound, MigPCs
<1> QED
  BY <1>0, <1>2, <1>3, <1>4, ImageFrom DEF ImageSound

(* Steps that change a VM object, and neither requests nor files.          *)
LEMMA ImageObject ==
  ASSUME IInv, IInv', ImageSound,
         \/ \E s \in Slots : SucceedKill(s) \/ Succeed(s) \/ Resume(s) \/ Boot(s) \/ Cancel(s)
         \/ \E d \in Deletes : (\E h \in Hosts : DeleteLook(d, h)) \/ Deleting(d)
  PROVE  ImageSound'
<1>0. /\ UNCHANGED <<calls, files, target, att>> /\ trouble \subseteq trouble'
      /\ \A x \in Slots : pc'[x] \in {pc[x], "none"}
  <2>1. CASE \E s \in Slots : SucceedKill(s) \/ Cancel(s)
    BY <2>1 DEF SucceedKill, Cancel, srcVars
  <2>2. CASE \E s \in Slots : Succeed(s) \/ Resume(s) \/ Boot(s)
    BY <2>2 DEF Succeed, Resume, Boot, IInv, TypeOK
  <2>3. CASE \E d \in Deletes : (\E h \in Hosts : DeleteLook(d, h)) \/ Deleting(d)
    BY <2>3 DEF Deleting, DeleteLook, DeleteKill, DeleteState, DeleteFree
  <2> QED
    BY <2>1, <2>2, <2>3
<1>1. \A x \in Slots : Mover(x)' => Mover(x) /\ pc'[x] = pc[x]
  BY <1>0 DEF Mover, HandedOver, Pending, Requests
<1>2. \A x \in Slots : pc'[x] \in MigPCs => pc[x] \in MigPCs
  BY <1>0 DEF MigPCs, Requests
<1> QED
  BY <1>0, <1>1, <1>2, ImageStill

(* A boot makes the directory and puts nothing of a transfer into it.      *)
LEMMA ImageBootSpawn ==
  ASSUME IInv, IInv', ImageSound, NEW s \in Slots, BootSpawn(s)
  PROVE  ImageSound'
<1>0. /\ pc[s] = "spawn" /\ UNCHANGED <<target, att, calls, trouble>>
      /\ pc'[s] = "boot"
      /\ \A x \in Slots : x # s => pc'[x] = pc[x]
      /\ \A h \in Hosts : files'[h] \subseteq files[h] \cup {Dir}
  BY DEF BootSpawn, IInv, TypeOK
<1>1. ASSUME Unmixed, NEW x \in Slots, Mover(x)' PROVE FALSE
  <2>1. x # s /\ Mover(x)
    BY <1>0, <1>1 DEF Mover, HandedOver, Pending, Requests
  <2> QED
    BY <1>0, <1>1, <2>1 DEF IInv, OneClaim, Claimants, Unmixed, Excuses, Mover, Claims, Requests
<1>2. \A x \in Slots : pc'[x] \in MigPCs => att'[x] >= 1
  BY <1>0 DEF ImageSound, MigPCs, Requests
<1>3. \A h \in Hosts : \A x \in files'[h] : x[1] = "dir" => x = Dir
  BY <1>0 DEF ImageSound
<1> QED
  BY <1>0, <1>1, <1>2, <1>3, ImageFrom DEF ImageSound

(* A second VM of the name is excused; a first one touches no file.        *)
LEMMA ImageCreate ==
  ASSUME IInv, IInv', ImageSound, NEW h \in Hosts, Create(h)
  PROVE  ImageSound'
<1>0. /\ trouble' = IF Holders # {} \/ ~Quiet THEN trouble \cup {"create"} ELSE trouble
      /\ UNCHANGED <<target, att, calls, files>>
  BY DEF Create
<1>1. \A x \in Slots : pc'[x] \in {pc[x], "spawn"}
  BY DEF Create, IInv, TypeOK
<1>2. ASSUME Unmixed', NEW x \in Slots, Mover(x)' PROVE FALSE
  <2>1. Quiet
    BY <1>0, <1>2 DEF Unmixed, Excuses
  <2> QED
    BY <1>1, <1>2, <2>1 DEF Quiet, Mover, Requests
<1>3. \A x \in Slots : pc'[x] \in MigPCs => att'[x] >= 1
  BY <1>0, <1>1 DEF ImageSound, MigPCs, Requests
<1>4. trouble \subseteq trouble'
  BY <1>0
<1> QED
  BY <1>0, <1>2, <1>3, <1>4, ImageFrom DEF ImageSound

(* An orphan that is dropped was lost already.                             *)
LEMMA ImageForget ==
  ASSUME IInv, IInv', ImageSound, NEW c \in calls, Forget(c)
  PROVE  ImageSound'
<1>0. /\ c.orphan /\ calls' = calls \ {c}
      /\ UNCHANGED <<pc, target, att, files, trouble>>
  BY DEF Forget, srcVars
<1>1. ~Unmixed
  BY <1>0 DEF ImageSound
<1> QED
  BY <1>0, <1>1, ImageFrom DEF ImageSound

(* The handlers, once it is known what has become of the directory.        *)
LEMMA ImageHandler ==
  ASSUME IInv, IInv', ImageSound, trouble \subseteq trouble',
         NEW c \in calls, NEW d,
         calls' = (calls \ {c}) \cup {d}, d.from = c.from, d.kind = c.kind,
         d.att = c.att, d.orphan = c.orphan,
         UNCHANGED <<pc, target, att>>,
         c.st = "sent" \/ c.kind \in {"prepare", "abort", "finalize"},
         (c.kind = "finalize" /\ c.st \in {"loaded", "ok"}) => d.st \in {"loaded", "ok"},
         c.kind = "finalize" => files' = files,
         \A h \in Hosts : \A x \in files'[h] : x[1] = "dir" => x = Dir,
         (Unmixed /\ c.kind \notin {"finalize", "abort"}) => Stage(c.from)'
  PROVE  ImageSound'
<1>1. \A e \in calls' : ~e.orphan => e.att = att'[e.from]
  BY DEF ImageSound
<1>2. ASSUME Unmixed, NEW x \in Slots, Mover(x)' PROVE Stage(x)'
  <2>1. Mover(x)
    <3>1. HandedOver(x) => HandedOver(x)'
      BY StepKeepsHandover
    <3> QED
      BY <1>2, <3>1 DEF Mover
  <2>2. /\ ~c.orphan /\ c.kind = pc[c.from] /\ c.from \in Slots
        /\ c.kind # "finalize" => x = c.from
    BY <1>2, <2>1, MoverAsks
  <2>3. CASE c.kind \notin {"finalize", "abort"}
    BY <1>2, <2>2, <2>3
  <2>4. CASE c.kind = "abort"
    BY <2>2, <2>4 DEF Stage
  <2>5. CASE c.kind = "finalize"
    <3>1. Stage(x)
      BY <1>2, <2>1 DEF ImageSound
    <3>2. x # c.from => (Served(x)' <=> Served(x))
      BY <1>2, ServedByStep
    <3>3. CASE x = c.from
      BY <2>2, <2>5, <3>1, <3>3 DEF Stage
    <3>4. CASE x # c.from
      BY <2>5, <3>1, <3>2, <3>4, StageKept
    <3> QED
      BY <3>3, <3>4
  <2> QED
    BY <2>3, <2>4, <2>5
<1>3. Unmixed => \A e \in calls' : ~e.orphan
  BY DEF ImageSound
<1> QED
  BY <1>1, <1>2, <1>3, ImageFrom DEF ImageSound

(* finalize reads the files; abort comes after the image is needed.        *)
LEMMA ImageFinalizeAbort ==
  ASSUME IInv, IInv', ImageSound, NEW c \in calls,
         \/ FinalizeCheck(c) \/ FinalizeLoad(c) \/ FinalizeRun(c)
         \/ AbortCheck(c) \/ AbortKill(c) \/ AbortFree(c) \/ AbortRemove(c)
  PROVE  ImageSound'
<1>0. /\ UNCHANGED <<pc, target, att>> /\ trouble \subseteq trouble'
      /\ c.kind \in {"finalize", "abort"} /\ (c.kind = "finalize" => files' = files)
      /\ reg[c.to] \in Slots \cup {NoSlot}
      /\ c.st = "checked" => c.slot \in Slots
      /\ files' = files \/ files' = [files EXCEPT ![c.to] = {}]
  BY DEF FinalizeCheck, FinalizeLoad, FinalizeRun, AbortCheck, AbortKill, AbortFree, AbortRemove,
         srcVars, IInv, TypeOK, Call, CallSound
<1>1. PICK st \in {"checked", "loaded", "killed", "freed", "ok", "err"}, n \in Slots \cup {NoSlot} :
        /\ Step(c, st, n)
        /\ (c.kind = "finalize" /\ c.st \in {"loaded", "ok"}) => st \in {"loaded", "ok"}
  BY <1>0 DEF FinalizeCheck, FinalizeLoad, FinalizeRun, AbortCheck, AbortKill, AbortFree, AbortRemove
<1>2. PICK d \in Call :
        /\ calls' = (calls \ {c}) \cup {d}
        /\ d.st = st /\ d.slot = n
        /\ d.from = c.from /\ d.kind = c.kind /\ d.to = c.to /\ d.att = c.att
        /\ d.orphan = c.orphan
  <2>1. calls \subseteq Call /\ st \in CallStates
    BY DEF IInv, TypeOK, CallStates
  <2> QED
    BY <1>1, <2>1, StepReplaces DEF CallStates
<1>3. \A h \in Hosts : files'[h] \subseteq files[h]
  BY <1>0 DEF IInv, TypeOK
<1>4. \A h \in Hosts : \A x \in files'[h] : x[1] = "dir" => x = Dir
  BY <1>3 DEF ImageSound
<1> QED
  BY <1>0, <1>1, <1>2, <1>4, ImageHandler

(* prepare makes the directory; recv.mem is created in its next step.      *)
LEMMA ImagePrepareSpawn ==
  ASSUME IInv, IInv', ImageSound, NEW c \in calls, PrepareSpawn(c)
  PROVE  ImageSound'
<1>0. /\ c.kind = "prepare" /\ UNCHANGED <<pc, target, att>> /\ trouble \subseteq trouble'
      /\ \A h \in Hosts : files'[h] \subseteq files[h] \cup {Dir}
      /\ NewSlot \in Slots
  BY NewSlotIsUnused DEF PrepareSpawn, srcVars, IInv, TypeOK
<1>1. PICK d \in Call :
        /\ calls' = (calls \ {c}) \cup {d} /\ d.st # "ok"
        /\ d.from = c.from /\ d.kind = c.kind /\ d.att = c.att /\ d.orphan = c.orphan
  <2>0. calls \subseteq Call
    BY DEF IInv, TypeOK
  <2>1. CASE Step(c, "spawned", NewSlot)
    BY <1>0, <2>0, <2>1, StepReplaces DEF CallStates
  <2>2. CASE Step(c, "err", NoSlot)
    BY <2>0, <2>2, StepReplaces DEF CallStates
  <2> QED
    BY <2>1, <2>2 DEF PrepareSpawn
<1>2. ASSUME Unmixed PROVE Stage(c.from)'
  <2>1. pc'[c.from] = "prepare"
    BY <1>0, <1>2, MoverAsks
  <2>2. ~Served(c.from)'
    BY <1>1, <1>2, ServedByStep
  <2> QED
    BY <2>1, <2>2 DEF Stage
<1>3. \A h \in Hosts : \A x \in files'[h] : x[1] = "dir" => x = Dir
  BY <1>0 DEF ImageSound
<1> QED
  BY <1>0, <1>1, <1>2, <1>3, ImageHandler

(* prepare creates an empty recv.mem for its own attempt.                  *)
LEMMA ImagePrepareFile ==
  ASSUME IInv, IInv', ImageSound, NEW c \in calls, PrepareFile(c)
  PROVE  ImageSound'
<1>0. /\ c.kind = "prepare" /\ UNCHANGED <<pc, target, att, trouble>> /\ c.to \in Hosts
      /\ calls \subseteq Call
  BY DEF PrepareFile, srcVars, IInv, TypeOK, Call
<1>1. CASE /\ Dir \in files[c.to] /\ Step(c, "ok", NoSlot)
           /\ files' = [files EXCEPT ![c.to] = Prepared(@, c.att)]
  <2>1. PICK d \in Call :
          /\ calls' = (calls \ {c}) \cup {d} /\ d.st = "ok"
          /\ d.from = c.from /\ d.kind = c.kind /\ d.att = c.att /\ d.orphan = c.orphan
    BY <1>0, <1>1, StepReplaces DEF CallStates
  <2>2. /\ files'[c.to] = Prepared(files[c.to], c.att)
        /\ \A h \in Hosts : h # c.to => files'[h] = files[h]
    BY <1>0, <1>1 DEF IInv, TypeOK
  <2>3. \A h \in Hosts : \A x \in files'[h] : x[1] = "dir" => x = Dir
    BY <2>2 DEF ImageSound, Prepared
  <2>4. ASSUME Unmixed PROVE Stage(c.from)'
    <3>1. c.to = target[c.from] /\ c.att = att[c.from] /\ pc[c.from] = "prepare"
      BY <1>0, <2>4, MoverAsks
    <3>2. {x \in Prepared(files[c.to], c.att) : x[1] # "vmstate"} = {Dir} \cup ({"recv"} \X {c.att})
      <4>1. {x \in Prepared(files[c.to], c.att) : x[1] # "vmstate"} = {Dir, <<"recv", c.att>>}
        BY <1>0, <1>1 DEF Prepared, Dir, ImageSound
      <4> QED
        BY <4>1
    <3>3. Holds(c.from, {"recv"})'
      BY <1>0, <2>2, <3>1, <3>2 DEF Holds
    <3> QED
      BY <1>0, <3>1, <3>3 DEF Stage
  <2> QED
    BY <1>0, <2>1, <2>3, <2>4, ImageHandler
<1>2. CASE Step(c, "err", NoSlot) /\ files' = files
  <2>1. PICK d \in Call :
          /\ calls' = (calls \ {c}) \cup {d} /\ d.st = "err"
          /\ d.from = c.from /\ d.kind = c.kind /\ d.att = c.att /\ d.orphan = c.orphan
    BY <1>0, <1>2, StepReplaces DEF CallStates
  <2>2. ASSUME Unmixed PROVE Stage(c.from)'
    <3>1. pc'[c.from] = "prepare"
      BY <1>0, <2>2, MoverAsks
    <3>2. ~Served(c.from)'
      BY <2>1, <2>2, ServedByStep
    <3> QED
      BY <3>1, <3>2 DEF Stage
  <2> QED
    BY <1>0, <1>2, <2>1, <2>2, ImageHandler DEF ImageSound
<1> QED
  BY <1>1, <1>2 DEF PrepareFile

(* handleMem and handleVMState add the piece that the source is waiting    *)
(* for, and nobody else's.                                                 *)
LEMMA ImageReceive ==
  ASSUME IInv, IInv', ImageSound, NEW c \in calls, Receive(c)
  PROVE  ImageSound'
<1>0. /\ c.kind \in {"mem", "final", "vmstate"} /\ c.st = "sent"
      /\ UNCHANGED <<pc, target, att, trouble>> /\ c.to \in Hosts /\ calls \subseteq Call
  BY DEF Receive, srcVars, IInv, TypeOK, Call
<1>1. ASSUME Unmixed
      PROVE  /\ c.to = target[c.from] /\ c.att = att[c.from] /\ pc[c.from] = c.kind
             /\ c.from \in Slots /\ Stage(c.from) /\ ~Served(c.from)
  <2>1. /\ c.to = target[c.from] /\ c.att = att[c.from] /\ pc[c.from] = c.kind
        /\ c.from \in Slots /\ Mover(c.from)
        /\ \A e \in calls : e.from = c.from => e = c
    BY <1>0, <1>1, MoverAsks
  <2> QED
    BY <1>0, <1>1, <2>1 DEF ImageSound, Served, Pending
<1>2. CASE /\ Step(c, "ok", NoSlot)
           /\ files' = [files EXCEPT ![c.to] = IF c.kind = "vmstate" THEN Replaced(@, c.kind, c.att)
                                               ELSE @ \cup {<<c.kind, c.att>>}]
  <2>1. PICK d \in Call :
          /\ calls' = (calls \ {c}) \cup {d} /\ d.st = "ok"
          /\ d.from = c.from /\ d.kind = c.kind /\ d.att = c.att /\ d.orphan = c.orphan
    BY <1>0, <1>2, StepReplaces DEF CallStates
  <2>2. /\ c.kind = "vmstate" => files'[c.to] = Replaced(files[c.to], "vmstate", c.att)
        /\ c.kind # "vmstate" => files'[c.to] = files[c.to] \cup {<<c.kind, c.att>>}
        /\ \A h \in Hosts : h # c.to => files'[h] = files[h]
    BY <1>0, <1>2 DEF IInv, TypeOK
  <2>3. \A h \in Hosts : \A x \in files'[h] : x[1] = "dir" => x = Dir
    BY <1>0, <2>2 DEF ImageSound, Replaced
  <2>4. ASSUME Unmixed PROVE Stage(c.from)'
    <3> DEFINE f == files[c.to]
               a == c.att
               Rest(g) == {x \in g : x[1] # "vmstate"}
    <3>0. Served(c.from)'
      BY <2>1, <2>4, ServedByStep
    <3>1. CASE c.kind = "mem"
      <4>1. Rest(f) = {Dir} \cup ({"recv"} \X {a})
        BY <1>1, <2>4, <3>1 DEF Stage, Holds
      <4>2. Rest(files'[c.to]) = Rest(f) \cup {<<"mem", a>>}
        BY <2>2, <3>1
      <4>3. ({"recv"} \X {a}) \cup {<<"mem", a>>} = {"recv", "mem"} \X {a}
        OBVIOUS
      <4>4. Rest(files'[c.to]) = {Dir} \cup ({"recv", "mem"} \X {a})
        BY <4>1, <4>2, <4>3
      <4>5. Holds(c.from, {"recv", "mem"})'
        BY <1>0, <1>1, <2>4, <4>4 DEF Holds
      <4> QED
        BY <1>0, <1>1, <2>4, <3>0, <3>1, <4>5 DEF Stage
    <3>2. CASE c.kind = "final"
      <4>1. Rest(f) = {Dir} \cup ({"recv", "mem"} \X {a})
        BY <1>1, <2>4, <3>2 DEF Stage, Holds
      <4>2. Rest(files'[c.to]) = Rest(f) \cup {<<"final", a>>}
        BY <2>2, <3>2
      <4>3. ({"recv", "mem"} \X {a}) \cup {<<"final", a>>} = {"recv", "mem", "final"} \X {a}
        OBVIOUS
      <4>4. Rest(files'[c.to]) = {Dir} \cup ({"recv", "mem", "final"} \X {a})
        BY <4>1, <4>2, <4>3
      <4>5. Holds(c.from, {"recv", "mem", "final"})'
        BY <1>0, <1>1, <2>4, <4>4 DEF Holds
      <4> QED
        BY <1>0, <1>1, <2>4, <3>0, <3>2, <4>5 DEF Stage
    <3>3. CASE c.kind = "vmstate"
      <4>1. Rest(f) = {Dir} \cup ({"recv", "mem", "final"} \X {a})
        BY <1>1, <2>4, <3>3 DEF Stage, Holds
      <4>2. files'[c.to] = Rest(f) \cup {<<"vmstate", a>>}
        BY <2>2, <3>3 DEF Replaced
      <4>3. Rest(files'[c.to]) = Rest(f)
        BY <4>2
      <4>4. ({"recv", "mem", "final"} \X {a}) \cup {<<"vmstate", a>>}
              = {"recv", "mem", "final", "vmstate"} \X {a}
        OBVIOUS
      <4>5. files'[c.to] = {Dir} \cup ({"recv", "mem", "final", "vmstate"} \X {a})
        BY <4>1, <4>2, <4>4
      <4>6. Holds(c.from, {"recv", "mem", "final"})'
        BY <1>0, <1>1, <2>4, <4>1, <4>3 DEF Holds
      <4> QED
        BY <1>0, <1>1, <2>4, <3>0, <3>3, <4>5, <4>6 DEF Stage
    <3> QED
      BY <1>0, <3>1, <3>2, <3>3
  <2> QED
    BY <1>0, <2>1, <2>3, <2>4, ImageHandler
<1>3. CASE Step(c, "err", NoSlot) /\ files' = files
  <2>1. PICK d \in Call :
          /\ calls' = (calls \ {c}) \cup {d} /\ d.st = "err"
          /\ d.from = c.from /\ d.kind = c.kind /\ d.att = c.att /\ d.orphan = c.orphan
    BY <1>0, <1>3, StepReplaces DEF CallStates
  <2>2. ASSUME Unmixed PROVE Stage(c.from)'
    <3>1. ~Served(c.from)'
      BY <2>1, <2>2, ServedByStep
    <3> QED
      BY <1>0, <1>1, <1>3, <2>2, <3>1, StageKept
  <2> QED
    BY <1>0, <1>3, <2>1, <2>2, ImageHandler DEF ImageSound
<1> QED
  BY <1>2, <1>3 DEF Receive

-----------------------------------------------------------------------------
(* No image has been received before the first attempt.                    *)
LEMMA ImageInit == Init => ImageSound
<1> SUFFICES ASSUME Init PROVE ImageSound
  OBVIOUS
<1>1. /\ \A h \in Hosts : files[h] \subseteq {Dir}
      /\ pc = [x \in Slots |-> "none"] /\ calls = {}
  BY DEF Init
<1> QED
  BY <1>1 DEF ImageSound, MigPCs, Requests, Mover

(* Every step of the control plane keeps what the image holds.             *)
LEMMA ImageStep ==
  ASSUME IInv, IInv', ImageSound, [Next]_vars
  PROVE  ImageSound'
<1>1. CASE \E s \in Slots : Source(s) \/ Booting(s)
  <2> PICK s \in Slots : Source(s) \/ Booting(s)
    BY <1>1
  <2>1. CASE FailsAtOnce(s)
    BY <2>1, ImageAbandon DEF FailsAtOnce
  <2> QED
    BY <2>1, ImageSend, ImageReadReply, ImagePause, ImageObject, ImageBootSpawn DEF Source, Booting
<1>2. CASE \E c \in calls : Handle(c) \/ Forget(c)
  BY <1>2, ImagePrepareSpawn, ImagePrepareFile, ImageReceive, ImageFinalizeAbort, ImageForget
     DEF Handle
<1>3. CASE \E s \in Slots : TimeOut(s)
  <2> PICK s \in Slots : TimeOut(s)
    BY <1>3
  <2>1. Abandon(s) /\ pc[s] \in Requests
    BY DEF TimeOut, Pending, IInv, CallSound, TypeOK, Call
  <2> QED
    BY <2>1, ImageAbandon
<1>4. CASE Operate \/ \E d \in Deletes : Deleting(d)
  BY <1>4, ImageMigrate, ImageObject, ImageCreate DEF Operate
<1>5. CASE UNCHANGED vars
  <2>1. UNCHANGED <<pc, target, att, calls, files, trouble>>
    BY <1>5 DEF vars, slotVars, srcVars
  <2>2. \A x \in Slots : Mover(x)' => Mover(x)
    BY <2>1 DEF Mover, HandedOver, Pending
  <2> QED
    BY <2>1, <2>2, ImageStill
<1> QED
  BY <1>1, <1>2, <1>3, <1>4, <1>5 DEF Next, Serve

(* At each point of migrateInner the target's recv.mem holds the pieces of *)
(* that attempt which have been acknowledged, and no others.               *)
THEOREM ImageInvariance == Spec => []ImageSound
<1>1. IInv /\ IInv' /\ ImageSound /\ [Next]_vars => ImageSound'
  BY ImageStep
<1> QED
  BY <1>1, Invariance, ImageInit, PTL DEF Spec

(* A guest begins to run in a waiting process by a finalize only.          *)
LEMMA OnlyFinalizeLoads ==
  ASSUME IInv, [Next]_vars, NEW s \in Slots, proc[s] = "idle", proc'[s] = "running"
  PROVE  \E c \in calls : c.kind = "finalize" /\ c.st = "checked" /\ c.slot = s
<1>0. pc[s] = "none"
  BY DEF IInv, SlotSound
<1>1. CASE \E x \in Slots : Source(x) \/ Booting(x)
  <2> PICK x \in Slots : Source(x) \/ Booting(x)
    BY <1>1
  <2>1. x # s => proc'[s] = proc[s]
    BY DEF Source, Booting, Send, ReadReply, FailsAtOnce, Abandon, Pause,
           SucceedKill, Succeed, Resume, BootSpawn, Boot, Killed, slotVars, IInv, TypeOK
  <2>2. x = s => proc'[s] = proc[s]
    BY <1>0 DEF Source, Booting, Send, ReadReply, FailsAtOnce, Abandon, Pause,
                SucceedKill, Succeed, Resume, BootSpawn, Boot, slotVars, Requests
  <2> QED
    BY <2>1, <2>2
<1>2. CASE \E c \in calls : Handle(c) \/ Forget(c)
  <2> PICK c \in calls : Handle(c) \/ Forget(c)
    BY <1>2
  <2>1. CASE FinalizeLoad(c)
    BY <2>1 DEF FinalizeLoad, IInv, TypeOK
  <2>2. CASE PrepareSpawn(c)
    BY <2>2, NewSlotIsUnused DEF PrepareSpawn, IInv, TypeOK
  <2>3. CASE PrepareFile(c) \/ AbortKill(c)
    BY <2>3 DEF PrepareFile, AbortKill, IInv, TypeOK, Killed
  <2>4. CASE \/ Receive(c) \/ FinalizeCheck(c) \/ FinalizeRun(c) \/ AbortCheck(c)
             \/ AbortFree(c) \/ AbortRemove(c) \/ Forget(c)
    BY <2>4 DEF Receive, FinalizeCheck, FinalizeRun, AbortCheck, AbortFree,
               AbortRemove, Forget, slotVars
  <2> QED
    BY <2>1, <2>2, <2>3, <2>4 DEF Handle
<1>3. CASE \E x \in Slots : TimeOut(x)
  BY <1>3 DEF TimeOut, Abandon, slotVars
<1>4. CASE Operate \/ \E d \in Deletes : Deleting(d)
  <2>1. CASE \E x \in Slots, t \in Hosts : Migrate(x, t)
    BY <2>1 DEF Migrate
  <2>2. CASE \E x \in Slots : Cancel(x)
    BY <2>2 DEF Cancel, slotVars
  <2>3. CASE \E h \in Hosts : Create(h)
    BY <2>3, NewSlotIsUnused DEF Create, slotVars, IInv, TypeOK
  <2>4. CASE \E d \in Deletes : (\E h \in Hosts : DeleteLook(d, h)) \/ Deleting(d)
    BY <2>4 DEF Deleting, DeleteLook, DeleteKill, DeleteState, DeleteFree, slotVars,
                IInv, TypeOK, Killed
  <2> QED
    BY <1>4, <2>1, <2>2, <2>3, <2>4 DEF Operate
<1>5. CASE UNCHANGED vars
  BY <1>5 DEF vars, slotVars
<1> QED
  BY <1>1, <1>2, <1>3, <1>4, <1>5 DEF Next, Serve

(* The target resumes a whole image of one attempt (receive.go's prepare,  *)
(* mem, vmstate and finalize carry no attempt number), for any number of   *)
(* agents, attempts and refused requests, unless a request was given up or *)
(* a second guest created.                                                 *)
THEOREM ImageIsWhole == Spec => LoadedWhole
<1>1. ASSUME IInv, ImageSound, [Next]_vars, NEW s \in Slots,
             proc[s] = "idle", proc'[s] = "running"
      PROVE  Whole(host[s]) \/ Excuses(Requests \cup {"create"})
  <2> SUFFICES ASSUME Unmixed PROVE Whole(host[s])
    BY DEF Unmixed
  <2>1. PICK c \in calls : c.kind = "finalize" /\ c.st = "checked" /\ c.slot = s
    BY <1>1, OnlyFinalizeLoads
  <2>2. /\ c.from \in Slots /\ ~c.orphan /\ pc[c.from] = "finalize"
        /\ c.to = target[c.from]
        /\ \A e \in calls : e.from = c.from => e = c
    BY <1>1, <2>1, MoverAsks
  <2>3. host[s] = target[c.from]
    BY <1>1, <2>1, <2>2 DEF IInv, CallSound
  <2>4. Mover(c.from)
    BY <2>1, <2>2 DEF Mover, HandedOver, Pending, Requests
  <2>5. files[host[s]] = {Dir} \cup ({"recv", "mem", "final", "vmstate"} \X {att[c.from]})
    BY <1>1, <2>2, <2>3, <2>4 DEF ImageSound, Stage
  <2>6. att[c.from] \in 1 .. attempts
    <3>1. att[c.from] \in 0 .. attempts /\ attempts \in Nat
      BY <1>1, <2>2 DEF IInv, TypeOK
    <3>2. att[c.from] >= 1
      BY <1>1, <2>2 DEF ImageSound, MigPCs, Requests
    <3> QED
      BY <3>1, <3>2
  <2> QED
    BY <2>5, <2>6 DEF Whole
<1>2. IInv /\ ImageSound /\ [Next]_vars =>
        [\A s \in Slots : (proc[s] = "idle" /\ proc'[s] = "running") =>
           Whole(host[s]) \/ Excuses(Requests \cup {"create"})]_vars
  BY <1>1
<1> QED
  BY <1>2, Invariance, ImageInvariance, PTL DEF Spec, LoadedWhole
=============================================================================
