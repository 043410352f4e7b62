------------------------- MODULE ConvergenceProofs --------------------------
(***************************************************************************)
(* The throttle and the loop's bookkeeping, for every set of sizes and     *)
(* budgets, every limit on rounds and levels and any number of duty-cycler *)
(* goroutines left over from earlier levels.                               *)
(***************************************************************************)
EXTENDS Convergence, FiniteSetTheorems, TLAPS

Cycler == [st : {"off", "run", "stop"}, done : BOOLEAN, lvl : 0 .. MaxLevel]

(* stop() leaves no cycler in charge.                                      *)
LEMMA StoppingStops ==
  ASSUME cyc \in [Cyclers -> Cycler], cyc' = Stopping
  PROVE  cyc' \in [Cyclers -> Cycler] /\ Active' = {}
BY DEF Stopping, Active, Cycler

(* A new cycler is alone in charge, at its level.                          *)
LEMMA SpawnTakesCharge ==
  ASSUME cyc \in [Cyclers -> Cycler], NEW l \in 1 .. MaxLevel, NEW i \in Cyclers,
         cyc' = [Stopping EXCEPT ![i] = [st |-> "run", done |-> FALSE, lvl |-> l]]
  PROVE  cyc' \in [Cyclers -> Cycler] /\ Active' = {i} /\ cyc'[i].lvl = l
<1>1. Stopping \in [Cyclers -> Cycler]
  BY DEF Stopping, Active, Cycler
<1>2. [st |-> "run", done |-> FALSE, lvl |-> l] \in Cycler
  BY LimitsAssumption DEF Cycler
<1>3. \A j \in Cyclers : Stopping[j].st # "off" => Stopping[j].done
  BY DEF Stopping, Active, Cycler
<1>4. /\ cyc'[i] = [st |-> "run", done |-> FALSE, lvl |-> l]
      /\ \A j \in Cyclers : j # i => cyc'[j] = Stopping[j]
  BY <1>1
<1> QED
  BY <1>1, <1>2, <1>3, <1>4 DEF Active

(* A level above 0 leaves at most one cycler in charge, and that at it.    *)
LEMMA SetLevelTakesCharge ==
  ASSUME cyc \in [Cyclers -> Cycler], mishaps \subseteq Faults,
         NEW l \in 1 .. MaxLevel, SetLevel(l)
  PROVE  /\ cyc' \in [Cyclers -> Cycler] /\ mishaps' \subseteq Faults
         /\ mishaps \subseteq mishaps'
         /\ \A i, j \in Active' : i = j
         /\ mishaps' = {} => InCharge(l)'
<1>1. CASE /\ \E i \in Cyclers :
                /\ cyc[i] = Off
                /\ cyc' = [Stopping EXCEPT ![i] = [st |-> "run", done |-> FALSE, lvl |-> l]]
           /\ UNCHANGED mishaps
  <2> PICK i \in Cyclers :
        cyc' = [Stopping EXCEPT ![i] = [st |-> "run", done |-> FALSE, lvl |-> l]]
    BY <1>1
  <2>1. cyc' \in [Cyclers -> Cycler] /\ Active' = {i} /\ cyc'[i].lvl = l
    BY SpawnTakesCharge
  <2> QED
    BY <1>1, <2>1, LimitsAssumption DEF InCharge
<1>2. CASE /\ "setlevel" \in Faults
           /\ cyc' = Stopping
           /\ mishaps' = mishaps \cup {"setlevel"}
  BY <1>2, StoppingStops, LimitsAssumption
<1> QED
  BY <1>1, <1>2 DEF SetLevel

(* The signals of a duty cycle, and the end of a goroutine that was told   *)
(* to stop, change nothing about who is in charge.                         *)
LEMMA CyclesKeepCharge ==
  ASSUME cyc \in [Cyclers -> Cycler], NEW k \in Cyclers,
         CycleStop(k) \/ CycleCont(k) \/ CycleExit(k)
  PROVE  /\ cyc' \in [Cyclers -> Cycler] /\ stopped' \in BOOLEAN
         /\ Active' = Active
         /\ \A i \in Active : cyc'[i].lvl = cyc[i].lvl
         /\ UNCHANGED <<budget, mishaps, pc, loopVars>>
<1> USE DEF Active, Cycler
<1>1. CASE CycleStop(k)
  BY <1>1 DEF CycleStop
<1>2. CASE CycleCont(k)
  BY <1>2 DEF CycleCont
<1>3. CASE CycleExit(k)
  <2>1. Off \in Cycler /\ Off.st = "off"
    BY LimitsAssumption DEF Off
  <2>2. cyc' = [cyc EXCEPT ![k] = Off] /\ cyc[k].done
    BY <1>3 DEF CycleExit
  <2>3. Active' = Active /\ \A i \in Active : cyc'[i] = cyc[i]
    BY <2>1, <2>2
  <2>4. cyc' \in [Cyclers -> Cycler]
    <3> HIDE DEF Active, Cycler
    <3> QED
      BY <2>1, <2>2
  <2>5. stopped' \in BOOLEAN /\ UNCHANGED <<budget, mishaps, pc, loopVars>>
    BY <1>3 DEF CycleExit
  <2> QED
    BY <2>3, <2>4, <2>5
<1> QED
  BY <1>1, <1>2, <1>3

(* The end of a round: the loop goes on with the next, or is left.         *)
LEMMA NextRoundBounded ==
  ASSUME r \in 1 .. MaxRounds, NextRound
  PROVE  /\ r' \in 1 .. MaxRounds
         /\ \/ pc' = "capture" /\ r' = r + 1
            \/ pc' = "release" /\ r' = r
BY LimitsAssumption DEF NextRound

(* The local variables of an attempt that has not started.                 *)
LEMMA FreshIsTyped ==
  ASSUME Fresh
  PROVE  /\ r' \in 1 .. MaxRounds /\ plateaued' \in 0 .. MaxRounds
         /\ level' \in 0 .. MaxLevel /\ level' = 0
         /\ dirty' \in Sizes \cup {0} /\ prevDirty' \in Sizes \cup {-1}
         /\ due' \in BOOLEAN /\ honest' \in BOOLEAN /\ ~due'
         /\ plateaued' < r'
<1>1. dirty' \in Sizes \cup {0} /\ prevDirty' \in Sizes \cup {-1}
  BY Zenon DEF Fresh
<1>2. due' \in BOOLEAN /\ honest' \in BOOLEAN /\ ~due'
  BY DEF Fresh
<1> QED
  BY <1>1, <1>2, LimitsAssumption DEF Fresh

-----------------------------------------------------------------------------
(* The invariant is inductive: one step per action.                        *)
LEMMA IInvStep == IInv /\ [Next]_vars => IInv'
<1> SUFFICES ASSUME IInv, [Next]_vars PROVE IInv'
  OBVIOUS
<1> USE SizesAssumption, BytesAssumption, LimitsAssumption, FaultsAssumption
<1>0. /\ cyc \in [Cyclers -> Cycler] /\ mishaps \subseteq Faults
      /\ r \in 1 .. MaxRounds /\ level \in 0 .. MaxLevel
      /\ budget \in Budgets /\ budget \in Nat
  BY DEF IInv, TypeOK, Cycler
<1>1. CASE Start
  <2>1. UNCHANGED Active
    BY <1>1 DEF Start, Active
  <2>2. TypeOK'
    BY <1>1, FreshIsTyped DEF Start, IInv, TypeOK
  <2>3. LoopSound' /\ NoEarlyThrottle' /\ FullSpeedOutside'
    BY <1>1, <2>1, FreshIsTyped DEF Start, IInv, LoopSound, NoEarlyThrottle, FullSpeedOutside
  <2> QED
    BY <1>1, <2>1, <2>2, <2>3, FreshIsTyped DEF Start, IInv, FullSpeedOutside, InCharge
<1>2. ASSUME NEW d \in Sizes, Capture(d) PROVE IInv'
  <2>1. UNCHANGED Active
    BY <1>2 DEF Capture, Active
  <2> QED
    BY <1>2, <2>1 DEF Capture, IInv, TypeOK, LoopSound, NoEarlyThrottle,
       FullSpeedOutside, Looping, InCharge
<1>3. CASE RoundFails
  <2>1. UNCHANGED Active
    BY <1>3 DEF RoundFails, Active
  <2>2. TypeOK'
    BY <1>3, FreshIsTyped DEF RoundFails, IInv, TypeOK
  <2>3. LoopSound' /\ NoEarlyThrottle' /\ FullSpeedOutside'
    BY <1>3, FreshIsTyped DEF RoundFails, LoopSound, NoEarlyThrottle, FullSpeedOutside, Looping
  <2> QED
    BY <1>3, <2>1, <2>2, <2>3 DEF RoundFails, IInv, Looping
<1>4. CASE Tick
  <2>1. UNCHANGED Active
    BY <1>4 DEF Tick, Active
  <2> QED
    BY <1>4, <2>1 DEF Tick, IInv, TypeOK, LoopSound, NoEarlyThrottle,
       FullSpeedOutside, Looping, InCharge
<1>5. CASE Converge
  <2>1. UNCHANGED Active
    BY <1>5 DEF Converge, Active
  <2> QED
    BY <1>5, <2>1 DEF Converge, loopVars, IInv, TypeOK, LoopSound, NoEarlyThrottle,
       FullSpeedOutside, Looping, InCharge
<1>6. CASE DrainOn
  <2>1. /\ r' \in 1 .. MaxRounds
        /\ \/ pc' = "capture" /\ r' = r + 1
           \/ pc' = "release" /\ r' = r
    BY <1>0, <1>6, NextRoundBounded DEF DrainOn
  <2>2. CASE due /\ level < MaxLevel
    <3>1. level' = level + 1 /\ level' \in (1 .. MaxLevel) \cap (0 .. MaxLevel) /\ SetLevel(level')
      BY <1>0, <1>6, <2>2 DEF DrainOn
    <3>2. /\ cyc' \in [Cyclers -> Cycler] /\ mishaps' \subseteq Faults
          /\ \A i, j \in Active' : i = j
          /\ mishaps' = {} => InCharge(level)'
      BY <1>0, <3>1, SetLevelTakesCharge DEF InCharge
    <3>3. /\ dirty' = 0 /\ due' = FALSE /\ pc = "decide"
          /\ UNCHANGED <<budget, prevDirty, plateaued, honest, stopped>>
      BY <1>6, <2>2 DEF DrainOn
    <3>4. TypeOK'
      BY <2>1, <3>1, <3>2, <3>3 DEF IInv, TypeOK, Cycler
    <3>5. LoopSound' /\ NoEarlyThrottle' /\ FullSpeedOutside'
      <4>1. honest /\ honest' = honest
        BY <2>2, <3>3 DEF IInv, LoopSound
      <4>2. plateaued' < r'
        BY <1>0, <2>1, <3>3 DEF IInv, TypeOK, LoopSound
      <4> QED
        BY <2>1, <3>3, <4>1, <4>2 DEF LoopSound, NoEarlyThrottle, FullSpeedOutside
    <3> QED
      BY <3>2, <3>4, <3>5 DEF IInv
  <2>3. CASE ~(due /\ level < MaxLevel)
    <3>1. UNCHANGED <<level, due, cyc, mishaps>> /\ UNCHANGED Active
      BY <1>6, <2>3 DEF DrainOn, Active
    <3> QED
      BY <1>6, <2>1, <3>1 DEF DrainOn, IInv, TypeOK, LoopSound,
         NoEarlyThrottle, FullSpeedOutside, Looping, InCharge
  <2> QED
    BY <2>2, <2>3
<1>7. CASE GoOn
  <2> DEFINE slows == Plateaued >= 1 /\ dirty > PlateauBytes /\ level < MaxLevel
             leaves == Plateaued >= 2 /\ dirty <= PlateauBytes
  <2>0. /\ plateaued' = Plateaued /\ plateaued' \in 0 .. r /\ dirty \in Sizes
        /\ dirty' = 0 /\ pc = "decide"
    BY <1>0, <1>7 DEF GoOn, Plateaued, IInv, TypeOK, LoopSound
  <2>1. CASE leaves
    <3>1. /\ pc' = "release"
          /\ UNCHANGED <<budget, r, prevDirty, level, cyc, mishaps, due, honest, stopped>>
          /\ UNCHANGED Active
      BY <1>7, <2>1 DEF GoOn, Active
    <3> QED
      BY <1>0, <2>0, <3>1 DEF IInv, TypeOK, LoopSound, NoEarlyThrottle,
         FullSpeedOutside, Looping, InCharge
  <2>2. CASE ~leaves
    <3>1. /\ r' \in 1 .. MaxRounds
          /\ \/ pc' = "capture" /\ r' = r + 1
             \/ pc' = "release" /\ r' = r
          /\ prevDirty' = dirty /\ UNCHANGED <<budget, due, honest, stopped>>
      BY <1>0, <1>7, <2>2, NextRoundBounded DEF GoOn
    <3>2. CASE slows
      <4>1. level' = level + 1 /\ level' \in (1 .. MaxLevel) \cap (0 .. MaxLevel) /\ SetLevel(level')
        BY <1>0, <1>7, <2>2, <3>2 DEF GoOn
      <4>2. /\ cyc' \in [Cyclers -> Cycler] /\ mishaps' \subseteq Faults
            /\ \A i, j \in Active' : i = j
            /\ mishaps' = {} => InCharge(level)'
        BY <1>0, <4>1, SetLevelTakesCharge DEF InCharge
      <4>3. budget = 0
        BY <1>0, <1>7, <2>0, <3>2, DrainAssumption DEF GoOn, BudgetFull
      <4> QED
        BY <1>0, <2>0, <3>1, <4>1, <4>2, <4>3 DEF IInv, TypeOK, Cycler, LoopSound,
           NoEarlyThrottle, FullSpeedOutside, Looping, InCharge
    <3>3. CASE ~slows
      <4>1. UNCHANGED <<level, cyc, mishaps>> /\ UNCHANGED Active
        BY <1>7, <2>2, <3>3 DEF GoOn, Active
      <4> QED
        BY <1>0, <2>0, <3>1, <4>1 DEF IInv, TypeOK, LoopSound,
           NoEarlyThrottle, FullSpeedOutside, Looping, InCharge
    <3> QED
      BY <3>2, <3>3
  <2> QED
    BY <2>1, <2>2
<1>8. CASE Release
  <2>1. /\ cyc' \in [Cyclers -> Cycler] /\ mishaps' \subseteq Faults
        /\ Active' = {}
    BY <1>0, <1>8, StoppingStops DEF Release, Unthrottle
  <2>2. TypeOK'
    BY <1>8, <2>1, FreshIsTyped DEF Release, IInv, TypeOK, Cycler
  <2>3. LoopSound' /\ NoEarlyThrottle' /\ FullSpeedOutside'
    BY <1>8, <2>1, FreshIsTyped DEF Release, LoopSound, NoEarlyThrottle, FullSpeedOutside, Looping
  <2> QED
    BY <1>8, <2>1, <2>2, <2>3 DEF Release, IInv, Looping
<1>9. CASE BlackoutOver
  <2>1. /\ cyc' \in [Cyclers -> Cycler] /\ mishaps' \subseteq Faults
        /\ Active' = {}
    BY <1>0, <1>9, StoppingStops DEF BlackoutOver, Unthrottle
  <2> QED
    BY <1>9, <2>1 DEF BlackoutOver, loopVars, IInv, TypeOK, Cycler, LoopSound,
       NoEarlyThrottle, FullSpeedOutside, Looping, InCharge
<1>10. ASSUME NEW k \in Cyclers, CycleStop(k) \/ CycleCont(k) \/ CycleExit(k)
       PROVE  IInv'
  <2>1. /\ cyc' \in [Cyclers -> Cycler] /\ stopped' \in BOOLEAN
        /\ Active' = Active
        /\ \A i \in Active : cyc'[i].lvl = cyc[i].lvl
        /\ UNCHANGED <<budget, mishaps, pc, loopVars>>
    BY <1>0, <1>10, CyclesKeepCharge
  <2>2. InCharge(level) => InCharge(level)'
    BY <2>1 DEF InCharge, loopVars
  <2> QED
    BY <2>1, <2>2 DEF loopVars, IInv, TypeOK, Cycler, LoopSound,
       NoEarlyThrottle, FullSpeedOutside, Looping, InCharge
<1>11. CASE UNCHANGED vars
  BY <1>11 DEF vars, loopVars, IInv, TypeOK, LoopSound, NoEarlyThrottle,
     FullSpeedOutside, Looping, InCharge, Active
<1> QED
  BY <1>1, <1>2, <1>3, <1>4, <1>5, <1>6, <1>7, <1>8, <1>9, <1>10, <1>11 DEF Next, Loop

(* The invariant holds initially and always.                               *)
THEOREM Invariance == Spec => []IInv
<1>1. Init => IInv
  <2> SUFFICES ASSUME Init PROVE IInv
    OBVIOUS
  <2>1. Off \in Cycler /\ Off.st = "off"
    BY LimitsAssumption DEF Off, Cycler
  <2>2. Active = {}
    BY <2>1 DEF Init, Active
  <2>3. dirty \in Sizes \cup {0} /\ prevDirty \in Sizes \cup {-1}
    BY Zenon DEF Init
  <2>4. /\ cyc \in [Cyclers -> Cycler] /\ mishaps \subseteq Faults
        /\ due \in BOOLEAN /\ honest \in BOOLEAN /\ stopped \in BOOLEAN
        /\ budget \in Budgets
    BY <2>1 DEF Init
  <2>5. TypeOK
    BY <2>3, <2>4, LimitsAssumption DEF Init, TypeOK, Cycler
  <2> QED
    BY <2>2, <2>5 DEF Init, IInv, LoopSound, NoEarlyThrottle, FullSpeedOutside, Looping
<1> QED
  BY <1>1, IInvStep, PTL DEF Spec

(* The loop's counters stay in their ranges: r within maxRounds, the level *)
(* within maxThrottleLevel, a plateau no longer than the rounds there were.*)
THEOREM TypeCorrect == Spec => []TypeOK
<1>1. IInv => TypeOK
  BY DEF IInv
<1> QED
  BY <1>1, Invariance, PTL

(* As long as no round and no SetLevel has failed since the last release,  *)
(* the level the loop reports is that of the one cycler the Throttler runs.*)
THEOREM LevelIsTracked == Spec => []LevelTracked
<1>1. IInv => LevelTracked
  <2> SUFFICES ASSUME IInv, mishaps = {}, Looping PROVE level = ActiveLevel
    BY DEF LevelTracked, LevelInEffect
  <2>1. CASE level = 0
    BY <2>1 DEF IInv, InCharge, ActiveLevel
  <2>2. CASE level # 0
    <3> PICK i \in Cyclers : Active = {i} /\ cyc[i].lvl = level
      BY <2>2 DEF IInv, InCharge
    <3>1. (CHOOSE j \in Active : TRUE) = i
      OBVIOUS
    <3> QED
      BY <3>1 DEF ActiveLevel
  <2> QED
    BY <2>1, <2>2
<1> QED
  BY <1>1, Invariance, PTL

(* No duty cycle reaches into a hand-over or beyond, whichever attempt     *)
(* started it, nor into the time between two attempts, unless a loop has   *)
(* failed since the last release.                                          *)
THEOREM FullSpeedOutsideTheLoop == Spec => []FullSpeedOutside
<1>1. IInv => FullSpeedOutside
  BY DEF IInv
<1> QED
  BY <1>1, Invariance, PTL

(* A live drain slows no guest before its honest-drain allowance is over,  *)
(* but for the cycler that an earlier loop, which failed, has left behind. *)
(* That the plateau rule cannot do it either rests on the two constants    *)
(* DrainAssumption relates.                                                *)
THEOREM NoThrottleBeforeAllowance == Spec => []NoEarlyThrottle
<1>1. IInv => NoEarlyThrottle
  BY DEF IInv
<1> QED
  BY <1>1, Invariance, PTL

(* However often the level changes and however slowly the old goroutines   *)
(* notice, at most one cycler is in charge.                                *)
THEOREM OneCyclerInCharge == Spec => []OneActiveCycler
<1>1. IInv => OneActiveCycler
  <2> SUFFICES ASSUME IInv PROVE Cardinality(Active) <= 1
    BY DEF OneActiveCycler
  <2>1. CASE Active = {}
    BY <2>1, FS_EmptySet
  <2>2. CASE Active # {}
    <3> PICK i \in Active : Active = {i}
      BY <2>2 DEF IInv
    <3>1. Cardinality({i}) = 1
      BY FS_Singleton
    <3> QED
      BY <3>1
  <2> QED
    BY <2>1, <2>2
<1> QED
  BY <1>1, Invariance, PTL
=============================================================================
