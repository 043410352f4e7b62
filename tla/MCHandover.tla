----------------------------- MODULE MCHandover -----------------------------
(* Two agents, a handful of VM objects, and either an operator who issues  *)
(* whatever requests he likes or the benchmark.                            *)
EXTENDS Bench

CONSTANTS
  Clients,       \* "operator", "bench"
  MaxTries,      \* migrations an operator asks for
  MaxTroubled,   \* how many of them after a lost request
  MaxLost,       \* kinds of requests that are lost
  MaxOps,        \* creates and deletes of an operator
  MaxMiss        \* calls of the benchmark that fail

VARIABLE ops

mcVars == <<allVars, ops>>

MCHosts == <<"a", "b">>

(* The two hosts are alike to the operator.                                *)
MCInit ==
  /\ Init
  /\ \/ "operator" \in Clients /\ NoBenchInit /\ reg["a"] # NoSlot
     \/ "bench" \in Clients /\ BenchInit
  /\ ops = 0

(* Ever fewer migrations the more has happened.                            *)
Tries ==
  IF trouble' = {} /\ ops = 0 THEN MaxTries
  ELSE IF Cardinality(trouble') <= 1 /\ trouble' \subseteq Requests THEN MaxTroubled
  ELSE 1

MCMigrate ==
  /\ bpc = "off"
  /\ \E s \in Slots, t \in Hosts : Migrate(s, t)
  /\ attempts' <= Tries
  /\ UNCHANGED <<benchVars, ops>>

(* A client that goes away, lost requests and the operator's requests are  *)
(* checked one at a time; but the client may go away after a late load,    *)
(* whose abort is then not sent.                                           *)
MCCancel ==
  /\ bpc = "off"
  /\ trouble \subseteq {"finalize"} /\ attempts = 1
  /\ \E s \in Slots : Cancel(s)
  /\ UNCHANGED <<benchVars, ops>>

MCTimeOut ==
  /\ bpc = "off"
  /\ trouble \subseteq Requests /\ attempts <= MaxTroubled
  /\ \E s \in Slots : TimeOut(s)
  /\ Cardinality(trouble') <= MaxLost
  /\ UNCHANGED <<benchVars, ops>>

(* A second request of the operator comes while the first is served.       *)
MCManage ==
  /\ bpc = "off"
  /\ trouble \subseteq {"create", "delete", "boot", "drop", "resume"}
  /\ ops < MaxOps /\ attempts <= 1
  /\ \/ ops = 0
     \/ \E d \in Deletes : del[d].st # "none"
     \/ \E s \in Slots : pc[s] \in {"spawn", "boot"}
  /\ \E h \in Hosts :
       \/ "create" \in Ops /\ Create(h)
       \/ \E d \in Deletes : "delete" \in Ops /\ DeleteLook(d, h)
  /\ ops' = ops + 1
  /\ UNCHANGED benchVars

MCServe ==
  /\ Serve
  /\ "spawn" \in trouble' => ("spawn" \in trouble \/ trouble \subseteq {"prepare", "cancel"})
  /\ "finalize" \in trouble' => ("finalize" \in trouble \/ (bpc = "off" /\ trouble = {}))
  /\ UNCHANGED <<benchVars, ops>>

(* The benchmark's own calls fail in its last run, if there was no other   *)
(* trouble; it gives up on a migration if there was no reboot either.      *)
MCBench ==
  /\ BenchStep
  /\ bmiss' # bmiss =>
       /\ bmiss' <= MaxMiss /\ brun = BenchRuns
       /\ trouble \subseteq {"delete"}
       /\ bpc = "wait" => trouble = {}
  /\ UNCHANGED ops

MCNext == MCServe \/ MCTimeOut \/ MCMigrate \/ MCCancel \/ MCManage \/ MCBench

MCFairness ==
  /\ \A s \in Slots : WF_mcVars(Source(s) /\ UNCHANGED <<benchVars, ops>>)
  /\ \A s \in Slots : WF_mcVars(Booting(s) /\ UNCHANGED <<benchVars, ops>>)
  /\ WF_mcVars(\E c \in calls : Handle(c) /\ UNCHANGED <<benchVars, ops>>)
  /\ \A d \in Deletes : WF_mcVars(Deleting(d) /\ UNCHANGED <<benchVars, ops>>)
  /\ WF_mcVars(MCBench)

MCSpec == MCInit /\ [][MCNext]_mcVars /\ MCFairness
=============================================================================
