-------------------------------- MODULE Bench --------------------------------
(***************************************************************************)
(* The benchmark (runBench, oneMigration, rebootVM and orderAgents in      *)
(* cmd/fcprobe/main.go) as the client of the two agents: it moves the      *)
(* guest to and fro, and after an error clears both hosts and boots a      *)
(* fresh guest.                                                            *)
(*                                                                         *)
(*   bpc       "off" if there is no benchmark; the call it is at           *)
(*   bsrc      src, the host it takes the guest to be on                   *)
(*   bvm       the VM object whose migrate or boot it waits for            *)
(*   bdel      the DELETE it waits for                                     *)
(*   bk        which of the two hosts a loop over hosts is at              *)
(*   brun      i, the current run                                          *)
(*   bmiss     history: how many of its calls failed on their way or were  *)
(*             given up, which rebootVM ignores                            *)
(***************************************************************************)
EXTENDS Handover, Sequences

CONSTANTS
  HostSeq,    \* hosts, in the order of the command line
  BenchRuns,  \* n
  Mishaps     \* what the benchmark may meet

ASSUME HostSeqAssumption == HostSeq \in [1 .. 2 -> Hosts] /\ HostSeq[1] # HostSeq[2]
ASSUME BenchRunsAssumption == BenchRuns \in Nat \ {0}
ASSUME MishapsAssumption ==
  Mishaps \subseteq {"call",    \* a call fails on its way, or is given up
                     "panic"}   \* the guest's kernel dies under its process

VARIABLES bpc, bsrc, bvm, bdel, bk, brun, bmiss

benchVars == <<bpc, bsrc, bvm, bdel, bk, brun, bmiss>>
allVars == <<vars, benchVars>>

BenchTypeOK ==
  /\ TypeOK
  /\ bpc \in {"off", "order", "reorder", "migrate", "wait", "status", "delete", "deleting",
              "post", "boot", "fatal", "done"}
  /\ bsrc \in Hosts /\ bvm \in Slots \cup {NoSlot} /\ bdel \in Deletes \cup {NoSlot}
  /\ bk \in 1 .. 2 /\ brun \in 1 .. BenchRuns + 1 /\ bmiss \in Nat

BenchInit ==
  /\ bpc = "order" /\ bk = 1 /\ brun = 1
  /\ bsrc = HostSeq[1] /\ bvm = NoSlot /\ bdel = NoSlot /\ bmiss = 0

NoBenchInit ==
  /\ bpc = "off" /\ bk = 1 /\ brun = 1
  /\ bsrc = HostSeq[1] /\ bvm = NoSlot /\ bdel = NoSlot /\ bmiss = 0

Other(h) == IF h = HostSeq[1] THEN HostSeq[2] ELSE HostSeq[1]

(* The same call for the other host, or what follows the loop.             *)
NextHost(call, then) ==
  IF bk = 1 THEN bk' = 2 /\ bpc' = call ELSE bk' = 1 /\ bpc' = then

(* A run is over; runBench has another one to make, or not.                *)
NextRun == brun' = brun + 1 /\ bpc' = IF brun < BenchRuns THEN "migrate" ELSE "done"

(* A run failed: rebootVM.                                                 *)
RunFails == bpc' = "delete" /\ bk' = 1 /\ UNCHANGED brun

(* Variant: it asks the agents until one of them has the guest.            *)
NoPlacement_Retry == "order"

(* log.Fatalf.                                                             *)
NoPlacement == "fatal"

Listed(h) == reg[h] # NoSlot /\ state[reg[h]] = "running"

(* orderAgents: the first agent that lists the VM as running.  It is asked *)
(* at the start, and when no reboot succeeded, which ends a run.           *)
Order ==
  /\ bpc \in {"order", "reorder"}
  /\ LET h == HostSeq[bk] IN
     \/ /\ Listed(h)
        /\ bsrc' = h /\ bk' = 1
        /\ IF bpc = "order" THEN bpc' = "migrate" /\ UNCHANGED brun ELSE NextRun
        /\ UNCHANGED bmiss
     \/ /\ ~Listed(h)
        /\ NextHost(bpc, NoPlacement)
        /\ UNCHANGED <<bsrc, brun, bmiss>>
     \/ /\ "call" \in Mishaps
        /\ NextHost(bpc, NoPlacement)
        /\ bmiss' = bmiss + 1
        /\ UNCHANGED <<bsrc, brun>>
  /\ UNCHANGED <<vars, bvm, bdel>>

(* oneMigration: POST /vms/{id}/migrate on the source, ...                 *)
PostMigrate ==
  /\ bpc = "migrate"
  /\ \/ /\ Listed(bsrc)
        /\ Migrate(reg[bsrc], Other(bsrc))
        /\ bvm' = reg[bsrc] /\ bpc' = "wait"
        /\ UNCHANGED <<bk, brun, bmiss>>
     \/ /\ ~Listed(bsrc)
        /\ RunFails
        /\ UNCHANGED <<vars, bvm, bmiss>>
     \/ /\ "call" \in Mishaps
        /\ RunFails
        /\ bmiss' = bmiss + 1
        /\ UNCHANGED <<vars, bvm>>
  /\ UNCHANGED <<bsrc, bdel>>

(* ... until the agent answers ...                                         *)
MigrateReturns ==
  /\ bpc = "wait"
  /\ pc[bvm] = "none"
  /\ IF state[bvm] = "migrated" THEN bpc' = "status" /\ UNCHANGED <<bk, brun>> ELSE RunFails
  /\ bvm' = NoSlot
  /\ UNCHANGED <<vars, bsrc, bdel, bmiss>>

(* ... or migrateHTTP gives up on it, which cancels the request's context. *)
MigrateGivenUp ==
  /\ bpc = "wait"
  /\ "call" \in Mishaps
  /\ Cancel(bvm)
  /\ RunFails
  /\ bvm' = NoSlot /\ bmiss' = bmiss + 1
  /\ UNCHANGED <<bsrc, bdel>>

(* Variant: the source of the next run is the one of this run.             *)
PingPong_Not(h) == h
PingPong(h) == Other(h)

(* waitGuestStatus: some process has to answer for the guest.              *)
GuestStatus ==
  /\ bpc = "status"
  /\ \/ /\ \E s \in Slots : proc[s] = "running"
        /\ bsrc' = PingPong(bsrc)
        /\ NextRun
        /\ UNCHANGED bk
     \/ /\ "panic" \in Mishaps \/ \A s \in Slots : proc[s] # "running"
        /\ RunFails
        /\ UNCHANGED bsrc
  /\ UNCHANGED <<vars, bvm, bdel, bmiss>>

(* rebootVM: DELETE on both hosts, one after the other, ...                *)
RebootDelete ==
  /\ bpc = "delete"
  /\ \/ \E d \in Deletes :
          /\ DeleteLook(d, HostSeq[bk])
          /\ bdel' = d /\ bpc' = "deleting"
          /\ UNCHANGED <<bk, bmiss>>
     \/ /\ "call" \in Mishaps
        /\ NextHost("delete", "post")
        /\ bmiss' = bmiss + 1
        /\ UNCHANGED <<vars, bdel>>
  /\ UNCHANGED <<bsrc, bvm, brun>>

DeleteReturns ==
  /\ bpc = "deleting"
  /\ del[bdel].st = "none"
  /\ NextHost("delete", "post")
  /\ bdel' = NoSlot
  /\ UNCHANGED <<vars, bsrc, bvm, brun, bmiss>>

(* ... whatever comes of it: ctrlHTTP may give up on a handler that goes   *)
(* on, ...                                                                 *)
DeleteGivenUp ==
  /\ bpc = "deleting"
  /\ "call" \in Mishaps
  /\ del[bdel].st # "none"
  /\ NextHost("delete", "post")
  /\ bdel' = NoSlot /\ bmiss' = bmiss + 1
  /\ UNCHANGED <<vars, bsrc, bvm, brun>>

(* ... POST /vms on one after the other, until one of them accepts.        *)
RebootPost ==
  /\ bpc = "post"
  /\ LET h == HostSeq[bk] IN
     \/ /\ ~Conflict(h)
        /\ Create(h)
        /\ bvm' = NewSlot /\ bpc' = "boot"
        /\ UNCHANGED <<bk, bmiss>>
     \/ /\ Conflict(h)
        /\ Create(h)
        /\ NextHost("post", "reorder")
        /\ UNCHANGED <<bvm, bmiss>>
     \/ /\ "call" \in Mishaps
        /\ NextHost("post", "reorder")
        /\ bmiss' = bmiss + 1
        /\ UNCHANGED <<vars, bvm>>
  /\ UNCHANGED <<bsrc, bdel, brun>>

RebootReturns ==
  /\ bpc = "boot"
  /\ pc[bvm] = "none"
  /\ IF state[bvm] = "running"
     THEN bsrc' = HostSeq[bk] /\ bk' = 1 /\ NextRun
     ELSE NextHost("post", "reorder") /\ UNCHANGED <<bsrc, brun>>
  /\ bvm' = NoSlot
  /\ UNCHANGED <<vars, bdel, bmiss>>

(* bootHTTP gives up; the boot, past its wait for the guest, goes on.      *)
RebootGivenUp ==
  /\ bpc = "boot"
  /\ "call" \in Mishaps
  /\ pc[bvm] # "none"
  /\ NextHost("post", "reorder")
  /\ bvm' = NoSlot /\ bmiss' = bmiss + 1
  /\ UNCHANGED <<vars, bsrc, bdel, brun>>

BenchStep ==
  \/ Order \/ PostMigrate \/ MigrateReturns \/ MigrateGivenUp \/ GuestStatus
  \/ RebootDelete \/ DeleteReturns \/ DeleteGivenUp
  \/ RebootPost \/ RebootReturns \/ RebootGivenUp

(* The benchmark is the agents' only client.                               *)
BenchNext == BenchStep \/ ((Serve \/ \E s \in Slots : TimeOut(s)) /\ UNCHANGED benchVars)

BenchSpec == Init /\ BenchInit /\ [][BenchNext]_allVars

-----------------------------------------------------------------------------
(* Before every run there is one guest, on the host that the benchmark     *)
(* takes it to be on, listed by that agent, whatever the runs before it    *)
(* met: refused requests, failed boots and resumes, dead guests.  Excused  *)
(* are calls that were lost on their way: a DELETE that did not arrive, or *)
(* a request of a migration that still has its effect.                     *)
BenchOnGuest ==
  (bpc = "migrate" /\ bmiss = 0 /\ ~Excuses(Requests)) =>
    Listed(bsrc) /\ Runners = {reg[bsrc]}

(* "... blocks in connect forever, deadlocking the run instead of          *)
(* surfacing an error the bench can recover from": the benchmark ends.     *)
BenchEnds == (bpc # "off") ~> (bpc \in {"done", "fatal"})
=============================================================================
