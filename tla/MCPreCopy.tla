----------------------------- MODULE MCPreCopy ------------------------------
(* Small instances of PreCopy.  The files a host keeps make the state      *)
(* space large, so the inputs of a run are bounded: stores that change     *)
(* memory, migration attempts and reboots.                                 *)
EXTENDS PreCopy, TLC

CONSTANTS MaxStores, MaxTries, MaxReboots

VARIABLES stores, tries, reboots

MCPageOf == [x \in Cells |-> x \div 10]
MCBoot == {[x \in Cells |-> Zero]}
HostSymmetry == Permutations(Hosts)

mcVars == <<vars, stores, tries, reboots>>

MCInit == Init /\ stores = 0 /\ tries = 0 /\ reboots = 0

MCGuest ==
  /\ stores < MaxStores
  /\ GuestWrites
  /\ mem' # mem
  /\ stores' = stores + 1
  /\ UNCHANGED <<tries, reboots>>

MCMigrate ==
  /\ tries < MaxTries
  /\ \E t \in Hosts : Migrate(t)
  /\ tries' = tries + 1
  /\ UNCHANGED <<stores, reboots>>

MCReboot ==
  /\ reboots < MaxReboots
  /\ \E h \in Hosts, m \in BootImages : Reboot(h, m)
  /\ reboots' = reboots + 1
  /\ UNCHANGED <<stores, tries>>

MCSteps == Steps /\ UNCHANGED <<stores, tries, reboots>>

MCNext == MCGuest \/ MCMigrate \/ MCReboot \/ MCSteps

MCSpec == MCInit /\ [][MCNext]_mcVars /\ WF_mcVars(MCSteps)
=============================================================================
