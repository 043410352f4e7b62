---------------------------- MODULE Convergence -----------------------------
(***************************************************************************)
(* When the pre-copy loop of migrateInner stops, and what it does to the   *)
(* guest's speed meanwhile: the loop's bookkeeping, the escalation of the  *)
(* auto-converge throttle, and the duty-cycle goroutines of throttle.go    *)
(* that a change of level leaves behind to finish on their own.            *)
(* Sizes are in any unit; which file a round writes is PreCopy's subject.  *)
(*                                                                         *)
(*   pc         "idle", "capture" and "decide" (the loop), "release",      *)
(*              "blackout", "gone" (migrated away)                         *)
(*   r, dirty, prevDirty, plateaued, level   the loop's local variables    *)
(*   due        time.Now() is after nextEscalation                         *)
(*   honest     history: the honest-drain allowance of this attempt is over*)
(*   cyc        the duty-cycler goroutines; the one not done is the one in *)
(*              Throttler.cyclers                                          *)
(*   budget     of a round, 0 in stock mode                                *)
(*   mishaps    history: faults since the throttle was last released       *)
(*   stopped    whether the last signal the vCPU threads got is SIGSTOP    *)
(***************************************************************************)
EXTENDS Integers, FiniteSets

CONSTANTS
  Sizes,            \* dirty-set sizes a round may have
  ConvergedBytes,   \* convergedBytes
  PlateauBytes,     \* plateauBytes
  Budgets,          \* of a round: drainBudgetBytes if live, 0 if stock
  MaxRounds,        \* maxRounds / maxRoundsStock
  MaxLevel,         \* maxThrottleLevel
  Cyclers,          \* duty-cycler goroutines alive at a time: a bound
  Faults            \* which of AllFaults happen

AllFaults == {"round",      \* a capture or a send of the loop fails
              "setlevel"}   \* no vCPU thread is found

ASSUME SizesAssumption == Sizes \subseteq Nat \ {0}
ASSUME BytesAssumption ==
  ConvergedBytes \in Nat /\ PlateauBytes \in Nat /\ Budgets \subseteq Nat
(* drainBudgetBytes (2 MiB) does not exceed plateauBytes (4 MiB).          *)
ASSUME DrainAssumption == \A b \in Budgets : b <= PlateauBytes
ASSUME LimitsAssumption == MaxRounds \in Nat \ {0} /\ MaxLevel \in Nat
ASSUME FaultsAssumption == Faults \subseteq AllFaults

VARIABLES budget, pc, r, dirty, prevDirty, plateaued, level, due, honest, cyc, stopped,
          mishaps

loopVars == <<r, dirty, prevDirty, plateaued, level, due, honest>>
vars == <<budget, pc, loopVars, cyc, stopped, mishaps>>

Off == [st |-> "off", done |-> FALSE, lvl |-> 0]

TypeOK ==
  /\ pc \in {"idle", "capture", "decide", "release", "blackout", "gone"}
  /\ r \in 1 .. MaxRounds
  /\ dirty \in Sizes \cup {0}
  /\ prevDirty \in Sizes \cup {-1}
  /\ plateaued \in 0 .. MaxRounds
  /\ level \in 0 .. MaxLevel
  /\ due \in BOOLEAN /\ honest \in BOOLEAN
  /\ cyc \in [Cyclers -> [st : {"off", "run", "stop"}, done : BOOLEAN,
                          lvl : 0 .. MaxLevel]]
  /\ stopped \in BOOLEAN
  /\ budget \in Budgets /\ mishaps \subseteq Faults

Init ==
  /\ pc = "idle"
  /\ r = 1 /\ dirty = 0 /\ prevDirty = -1 /\ plateaued = 0 /\ level = 0
  /\ due = FALSE /\ honest = FALSE
  /\ cyc = [i \in Cyclers |-> Off]
  /\ stopped = FALSE
  /\ budget \in Budgets /\ mishaps = {}

-----------------------------------------------------------------------------
(* Throttler.                                                              *)

(* The cycler the Throttler knows, if any.                                 *)
Active == {i \in Cyclers : cyc[i].st # "off" /\ ~cyc[i].done}
ActiveLevel == IF Active = {} THEN 0 ELSE cyc[CHOOSE i \in Active : TRUE].lvl

(* stop() closes the channel and does not wait.                            *)
Stopping == [i \in Cyclers |-> IF i \in Active THEN [cyc[i] EXCEPT !.done = TRUE] ELSE cyc[i]]

(* Variant: the old cycler is only dropped from the map.                   *)
SetLevel_KeepsOld(l) ==
  \/ /\ \E i \in Cyclers :
          /\ cyc[i] = Off
          /\ cyc' = [cyc EXCEPT ![i] = [st |-> "run", done |-> FALSE, lvl |-> l]]
     /\ UNCHANGED mishaps
  \/ /\ "setlevel" \in Faults
     /\ cyc' = Stopping
     /\ mishaps' = mishaps \cup {"setlevel"}

(* SetLevel stops the cycler it has before it looks for vCPU threads: an   *)
(* error leaves none.  The loop sets no level below 1.                     *)
SetLevel(l) ==
  \/ /\ \E i \in Cyclers :
          /\ cyc[i] = Off
          /\ cyc' = [Stopping EXCEPT ![i] = [st |-> "run", done |-> FALSE, lvl |-> l]]
     /\ UNCHANGED mishaps
  \/ /\ "setlevel" \in Faults
     /\ cyc' = Stopping
     /\ mishaps' = mishaps \cup {"setlevel"}

(* SetLevel(0): the one the Throttler has is stopped, whoever started it.  *)
Unthrottle == cyc' = Stopping

(* dutyCycler.run.  With done closed and the timer expired, select takes   *)
(* either case.                                                            *)
CycleStop(i) ==
  /\ cyc[i].st = "run"
  /\ cyc' = [cyc EXCEPT ![i].st = "stop"]
  /\ stopped' = TRUE
  /\ UNCHANGED <<budget, mishaps, pc, loopVars>>

CycleCont(i) ==
  /\ cyc[i].st = "stop"
  /\ cyc' = [cyc EXCEPT ![i].st = "run"]
  /\ stopped' = FALSE
  /\ UNCHANGED <<budget, mishaps, pc, loopVars>>

(* Variant: the goroutine returns without the last SIGCONT.                *)
CycleExit_NoCont(i) ==
  /\ cyc[i].st # "off"
  /\ cyc[i].done
  /\ cyc' = [cyc EXCEPT ![i] = Off]
  /\ UNCHANGED <<budget, mishaps, pc, loopVars, stopped>>

CycleExit(i) ==
  /\ cyc[i].st # "off"
  /\ cyc[i].done
  /\ cyc' = [cyc EXCEPT ![i] = Off]
  /\ stopped' = FALSE
  /\ UNCHANGED <<budget, mishaps, pc, loopVars>>

-----------------------------------------------------------------------------
(* The loop.                                                               *)

(* The local variables before the loop, and once it is left.               *)
Fresh ==
  /\ r' = 1 /\ dirty' = 0 /\ prevDirty' = -1 /\ plateaued' = 0 /\ level' = 0
  /\ due' = FALSE /\ honest' = FALSE

Start ==
  /\ pc = "idle"
  /\ pc' = "capture"
  /\ Fresh
  /\ UNCHANGED <<budget, cyc, mishaps, stopped>>

(* captureRound and sendMemFile.  A budget caps what a round dumps.        *)
Capture(d) ==
  /\ pc = "capture"
  /\ budget > 0 => d <= budget
  /\ dirty' = d
  /\ pc' = "decide"
  /\ UNCHANGED <<budget, r, prevDirty, plateaued, level, due, honest, cyc, mishaps, stopped>>

(* An error return from the loop, and migrate's rollback.                  *)
RoundFails ==
  /\ "round" \in Faults
  /\ pc = "capture"
  /\ pc' = "idle"
  /\ mishaps' = mishaps \cup {"round"}
  /\ Fresh
  /\ UNCHANGED <<budget, cyc, stopped>>

(* The clock passes nextEscalation, which only a live drain looks at.      *)
Tick ==
  /\ budget > 0
  /\ pc \in {"capture", "decide"}
  /\ due' = TRUE
  /\ honest' = TRUE
  /\ UNCHANGED <<budget, pc, r, dirty, prevDirty, plateaued, level, cyc, mishaps, stopped>>

(* Variants: r <= rounds+1, and a continue that skips the r++.             *)
NextRound_OneMore ==
  IF r <= MaxRounds THEN r' = r + 1 /\ pc' = "capture" ELSE r' = r /\ pc' = "release"

NextRound_Stuck == r' = r /\ pc' = "capture"

NextRound ==
  IF r < MaxRounds THEN r' = r + 1 /\ pc' = "capture" ELSE r' = r /\ pc' = "release"

BudgetFull == budget > 0 /\ dirty >= budget

(* Variants: no honest-drain allowance; the level is counted, not applied. *)
DrainOn_Hasty ==
  /\ pc = "decide"
  /\ BudgetFull
  /\ IF level < MaxLevel
     THEN level' = level + 1 /\ due' = FALSE /\ SetLevel(level')
     ELSE UNCHANGED <<level, due, cyc, mishaps>>
  /\ NextRound
  /\ dirty' = 0
  /\ UNCHANGED <<budget, prevDirty, plateaued, honest, stopped>>

DrainOn_NotApplied ==
  /\ pc = "decide"
  /\ BudgetFull
  /\ IF due /\ level < MaxLevel
     THEN level' = level + 1 /\ due' = FALSE
     ELSE UNCHANGED <<level, due>>
  /\ NextRound
  /\ dirty' = 0
  /\ UNCHANGED <<budget, prevDirty, plateaued, honest, cyc, mishaps, stopped>>

(* A full budget: the backlog is not drained.                              *)
DrainOn ==
  /\ pc = "decide"
  /\ BudgetFull
  /\ IF due /\ level < MaxLevel
     THEN level' = level + 1 /\ due' = FALSE /\ SetLevel(level')
     ELSE UNCHANGED <<level, due, cyc, mishaps>>
  /\ NextRound
  /\ dirty' = 0
  /\ UNCHANGED <<budget, prevDirty, plateaued, honest, stopped>>

Converge ==
  /\ pc = "decide"
  /\ ~BudgetFull
  /\ dirty <= ConvergedBytes
  /\ pc' = "release"
  /\ UNCHANGED <<budget, loopVars, cyc, mishaps, stopped>>

(* dirty > 0.9 * prevDirty.                                                *)
Plateau == prevDirty > 0 /\ 10 * dirty > 9 * prevDirty
Plateaued == IF Plateau THEN plateaued + 1 ELSE 0

GoOn ==
  /\ pc = "decide"
  /\ ~BudgetFull
  /\ dirty > ConvergedBytes
  /\ plateaued' = Plateaued
  /\ IF Plateaued >= 2 /\ dirty <= PlateauBytes
     THEN pc' = "release" /\ UNCHANGED <<r, prevDirty, level, cyc, mishaps>>
     ELSE /\ IF Plateaued >= 1 /\ dirty > PlateauBytes /\ level < MaxLevel
             THEN level' = level + 1 /\ SetLevel(level')
             ELSE UNCHANGED <<level, cyc, mishaps>>
          /\ prevDirty' = dirty
          /\ NextRound
  /\ dirty' = 0
  /\ UNCHANGED <<budget, due, honest, stopped>>

(* Variant: only a throttle that this loop has engaged is released.        *)
Release_OwnOnly ==
  /\ pc = "release"
  /\ IF level > 0 THEN Unthrottle ELSE UNCHANGED cyc
  /\ pc' = "blackout"
  /\ mishaps' = {}
  /\ Fresh
  /\ UNCHANGED <<budget, stopped>>

(* SetLevel(0), deferred from here on, and the settle sleep.               *)
Release ==
  /\ pc = "release"
  /\ Unthrottle
  /\ pc' = "blackout"
  /\ mishaps' = {}
  /\ Fresh
  /\ UNCHANGED <<budget, stopped>>

(* The rest of the migration succeeds or is rolled back; either way the    *)
(* deferred SetLevel(0) runs.                                              *)
BlackoutOver ==
  /\ pc = "blackout"
  /\ Unthrottle
  /\ pc' \in {"idle", "gone"}
  /\ UNCHANGED <<budget, loopVars, mishaps, stopped>>

Loop ==
  (\E d \in Sizes : Capture(d)) \/ DrainOn \/ Converge \/ GoOn \/ Release \/ BlackoutOver

Next ==
  \/ Start \/ Loop \/ RoundFails \/ Tick
  \/ \E i \in Cyclers : CycleStop(i) \/ CycleCont(i) \/ CycleExit(i)

(* Calls return, timers fire, and a closed channel is noticed.             *)
Fairness ==
  /\ WF_vars(Loop)
  /\ \A i \in Cyclers : WF_vars(CycleCont(i)) /\ WF_vars(CycleExit(i))

Spec == Init /\ [][Next]_vars /\ Fairness

-----------------------------------------------------------------------------
Looping == pc \in {"capture", "decide", "release"}

(* RoundStat.Throttle is the "auto-converge level in effect" (migrate.go): *)
(* the level the loop believes in is the one the guest runs under.         *)
LevelInEffect == Looping => level = ActiveLevel

(* That much is true as long as no round and no SetLevel has failed since  *)
(* the throttle was last released.                                         *)
LevelTracked == mishaps = {} => LevelInEffect

(* The guest is at full speed when it is paused for the hand-over, also    *)
(* when an earlier attempt has left a cycler behind, and when no migration *)
(* is under way, unless a loop has failed since the last release.          *)
FullSpeedOutside ==
  /\ pc \in {"blackout", "gone"} => Active = {}
  /\ pc = "idle" => Active = {} \/ "round" \in mishaps

(* Only the map's cycler is not on its way out, so the guest never runs    *)
(* under two duty cycles for good.                                         *)
OneActiveCycler == Cardinality(Active) <= 1

(* A live drain does not slow the guest before the honest-drain allowance  *)
(* is over, by either of the two ways the loop has to slow it ("escalating *)
(* any earlier punishes ordinary large backlogs that are converging on     *)
(* their own").  Excused is the cycler that an earlier loop, which failed, *)
(* has left behind: it slows the guest from the start.                     *)
NoEarlyThrottle ==
  (budget > 0 /\ Looping /\ ~honest) => level = 0 /\ (Active = {} \/ "round" \in mishaps)

(* "maxRounds bounds pre-copy": the loop is left, by any guest.            *)
LoopEnds == Looping ~> ~Looping

(* With no cycler in charge, a stopped guest is continued.                 *)
GuestFreed == (stopped /\ Active = {}) ~> ~stopped

-----------------------------------------------------------------------------
(* The inductive invariant behind the five invariants above.  A plateau    *)
(* takes a round, so it is never longer than the rounds that were decided; *)
(* the timer is due only once the allowance is over; and the level the     *)
(* loop believes in is that of the one cycler in charge.                   *)
LoopSound ==
  /\ pc \in {"capture", "decide"} => plateaued < r
  /\ pc = "decide" => dirty \in Sizes
  /\ due => honest

InCharge(l) ==
  IF l = 0 THEN Active = {} ELSE \E i \in Cyclers : Active = {i} /\ cyc[i].lvl = l

IInv ==
  /\ TypeOK
  /\ LoopSound
  /\ NoEarlyThrottle
  /\ FullSpeedOutside
  /\ \A i, j \in Active : i = j
  /\ (mishaps = {} /\ Looping) => InCharge(level)
=============================================================================
