----------------------------- MODULE GuestOwner -----------------------------
(***************************************************************************)
(* What a migration promises about who runs the guest ("migration is       *)
(* all-or-nothing", migrate.go; "the source resumes and stays              *)
(* authoritative", README): one host owns the guest; it is stopped there,  *)
(* and then either runs on there or runs on elsewhere, never on two hosts. *)
(* Nothing is promised once something happened that excuses it.            *)
(***************************************************************************)
CONSTANT Hosts

VARIABLES
  owner,     \* the host the guest ran on last
  running,   \* the hosts on which its vCPUs execute
  excused

ownerVars == <<owner, running, excused>>

Init == owner \in Hosts /\ running = {owner} /\ excused = FALSE

Stop == running = {owner} /\ running' = {} /\ UNCHANGED <<owner, excused>>

RunOn(h) == running = {} /\ running' = {h} /\ owner' = h /\ UNCHANGED excused

Excused == excused'

Next == Stop \/ (\E h \in Hosts : RunOn(h)) \/ Excused

(* A stopped guest does not stay stopped.                                  *)
Continues == (running = {} /\ ~excused) ~> (running # {} \/ excused)

Safety == Init /\ [][Next]_ownerVars

Spec == Safety /\ Continues
=============================================================================
