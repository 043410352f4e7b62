---------------------------- MODULE ProberProofs ----------------------------
(***************************************************************************)
(* What the prober's figures say of the outage, for any interval, any      *)
(* number of probes and any order in which their replies come.             *)
(***************************************************************************)
EXTENDS Prober, FiniteSetTheorems, TLAPS

-----------------------------------------------------------------------------
(* Induction, from the well-founded order of the naturals.                 *)

(* A set of naturals has a least element.                                  *)
LEMMA Least ==
  ASSUME NEW T, T \subseteq Nat, T # {}
  PROVE  \E n \in T : \A m \in T : n <= m
<1> DEFINE R == {ss \in Nat \X Nat : ss[1] < ss[2]}
<1>1. R = OpToRel(<, Nat)
  BY DEF OpToRel
<1>2. IsWellFoundedOn(R, Nat)
  BY <1>1, NatLessThanWellFounded
<1> HIDE DEF R
<1>3. \E x \in T : \A y \in T : ~ (<<y, x>> \in R)
  BY <1>2, WFMin
<1>4. PICK x \in T : \A y \in T : ~ (<<y, x>> \in R)
  BY <1>3
<1>5. \A y \in T : ~(y < x)
  BY <1>4 DEF R
<1>6. \A y \in T : y \in Nat /\ x \in Nat
  OBVIOUS
<1>7. \A y \in T : x <= y
  BY <1>5, <1>6
<1> QED
  BY <1>7

(* A set that holds 0 and, with each number below n, its successor, holds  *)
(* all numbers up to n.                                                    *)
LEMMA UpTo ==
  ASSUME NEW n \in Nat, NEW S, 0 \in S,
         \A k \in Nat : (k < n /\ k \in S) => k + 1 \in S
  PROVE  \A k \in 0 .. n : k \in S
<1> DEFINE T == {k \in Nat : k <= n /\ k \notin S}
<1>1. T = {}
  <2> SUFFICES ASSUME T # {} PROVE FALSE
    OBVIOUS
  <2>1. T \subseteq Nat
    OBVIOUS
  <2>2. PICK k \in T : \A m \in T : k <= m
    <3> HIDE DEF T
    <3> QED
      BY <2>1, Least
  <2>3. k \in Nat /\ k <= n /\ k \notin S /\ k # 0
    OBVIOUS
  <2>4. k - 1 \in Nat /\ k - 1 < n /\ ~(k <= k - 1) /\ (k - 1) + 1 = k
    BY <2>3
  <2>5. k - 1 \in S
    BY <2>2, <2>4
  <2> QED
    BY <2>3, <2>4, <2>5
<1> QED
  BY <1>1

(* The values that a loop of n passes goes through.                        *)
IsLoop(g, n, X, x0, step) ==
  /\ g \in [0 .. n -> X] /\ g[0] = x0
  /\ \A i \in 1 .. n : g[i] = step[i][g[i - 1]]

(* A loop of n passes has, after each, a value.                            *)
LEMMA LoopExists ==
  ASSUME NEW n \in Nat, NEW X, NEW x0 \in X, NEW step \in [1 .. n -> [X -> X]]
  PROVE  \E g : IsLoop(g, n, X, x0, step)
<1> DEFINE P(k, g) == /\ g \in [0 .. k -> X] /\ g[0] = x0
                      /\ \A i \in 1 .. k : g[i] = step[i][g[i - 1]]
           S == {k \in 0 .. n : \E g : P(k, g)}
<1>1. 0 \in S
  <2>1. P(0, [i \in 0 .. 0 |-> x0])
    OBVIOUS
  <2> HIDE DEF P
  <2> QED
    BY <2>1
<1>2. ASSUME NEW k \in Nat, k < n, k \in S  PROVE k + 1 \in S
  <2>1. PICK g : P(k, g)
    BY <1>2
  <2> DEFINE e == [i \in 0 .. k + 1 |-> IF i = k + 1 THEN step[k + 1][g[k]] ELSE g[i]]
  <2>2. k + 1 \in 1 .. n /\ step[k + 1] \in [X -> X] /\ g[k] \in X
    BY <1>2, <2>1
  <2>3. P(k + 1, e)
    <3>1. e \in [0 .. k + 1 -> X] /\ e[0] = x0
      BY <1>2, <2>1, <2>2
    <3>2. e[k + 1] = step[k + 1][e[k]]
      BY <1>2, <2>1, <2>2
    <3>3. \A i \in 1 .. k : e[i] = step[i][e[i - 1]]
      BY <1>2, <2>1
    <3>4. \A i \in 1 .. k + 1 : i = k + 1 \/ i \in 1 .. k
      BY <1>2
    <3>5. (k + 1) - 1 = k
      BY <1>2
    <3> HIDE DEF e
    <3> QED
      BY <3>1, <3>2, <3>3, <3>4, <3>5
  <2> HIDE DEF P
  <2> QED
    BY <2>2, <2>3
<1> HIDE DEF S
<1>3. n \in S
  <2>1. \A k \in Nat : (k < n /\ k \in S) => k + 1 \in S
    BY <1>2
  <2>2. n \in 0 .. n
    OBVIOUS
  <2> QED
    BY <1>1, <2>1, <2>2, UpTo
<1> USE DEF S
<1>4. PICK g : P(n, g)
  BY <1>3
<1> QED
  BY <1>4 DEF IsLoop

(* A set of naturals with an upper bound has a maximum.                    *)
LEMMA MaxIsMax ==
  ASSUME NEW S, NEW b \in Nat, S \subseteq 0 .. b, S # {}
  PROVE  Max(S) \in S /\ Max(S) \in Nat /\ \A y \in S : Max(S) >= y
<1> DEFINE T == {n \in Nat : b - n \in S}
<1>1. T # {}
  <2>1. PICK x : x \in S
    OBVIOUS
  <2>2. x \in Nat /\ x <= b
    BY <2>1
  <2>3. b - x \in Nat /\ b - (b - x) = x
    BY <2>2
  <2> QED
    BY <2>1, <2>3
<1>2. PICK n \in T : \A m \in T : n <= m
  <2>1. T \subseteq Nat
    OBVIOUS
  <2> HIDE DEF T
  <2> QED
    BY <1>1, <2>1, Least
<1>3. b - n \in S /\ n \in Nat
  OBVIOUS
<1>4. \A y \in S : b - n >= y
  <2> TAKE y \in S
  <2>1. y \in Nat /\ y <= b
    OBVIOUS
  <2>2. b - y \in Nat /\ b - (b - y) = y
    BY <2>1
  <2>3. n <= b - y
    BY <1>2, <2>2
  <2> QED
    BY <1>3, <2>1, <2>3
<1>5. \E x \in S : \A y \in S : x >= y
  BY <1>3, <1>4
<1>6. Max(S) \in S /\ \A y \in S : Max(S) >= y
  BY <1>5 DEF Max
<1>7. \A y \in S : y \in Nat
  OBVIOUS
<1> HIDE DEF Max
<1> QED
  BY <1>6, <1>7

-----------------------------------------------------------------------------
(* Runs of probes.                                                         *)

Sample == [seq : Nat, sent : Nat \ {0}, recv : Nat]

(* Probes in the order of their sending.                                   *)
Ordered(win) ==
  /\ win \in Seq(Sample)
  /\ \A i, j \in DOMAIN win : i <= j => win[i].sent <= win[j].sent

Gap == [start : Nat, end : Nat]
Acc == [gaps : SUBSET Gap, run : Gap]

(* One pass of the loop in stats and switchoverBlackout.                   *)
Pass(win, set, acc, i) ==
  IF i \in set THEN [acc EXCEPT !.run = Extended(@, win[i])]
  ELSE [gaps |-> Flushed(acc), run |-> NoGap]

(* A pass turns runs and gaps into runs and gaps.                          *)
LEMMA PassTyped ==
  ASSUME NEW win, Ordered(win), NEW set, NEW i \in 1 .. Len(win), NEW acc \in Acc
  PROVE  /\ Pass(win, set, acc, i) \in Acc
         /\ i \in set => /\ Pass(win, set, acc, i).gaps = acc.gaps
                         /\ Pass(win, set, acc, i).run = Extended(acc.run, win[i])
                         /\ Pass(win, set, acc, i).run # NoGap
         /\ i \notin set => /\ Pass(win, set, acc, i).gaps = Flushed(acc)
                            /\ Pass(win, set, acc, i).run = NoGap
<1>1. win[i] \in Sample
  BY DEF Ordered
<1>2. win[i].sent \in Nat /\ win[i].sent # 0
  BY <1>1 DEF Sample
<1>3. acc.run \in Gap /\ acc.gaps \subseteq Gap /\ NoGap \in Gap
  BY DEF Acc, Gap, NoGap
<1>4. Extended(acc.run, win[i]) \in Gap
  BY <1>2, <1>3, IntervalAssumption DEF Extended, Gap
<1>5. Extended(acc.run, win[i]) # NoGap
  BY <1>2, <1>3, IntervalAssumption DEF Extended, Gap, NoGap
<1>6. Flushed(acc) \subseteq Gap
  BY <1>3 DEF Flushed
<1>7. ASSUME i \in set PROVE Pass(win, set, acc, i) = [gaps |-> acc.gaps, run |-> Extended(acc.run, win[i])]
  BY <1>7 DEF Pass, Acc
<1>8. ASSUME i \notin set PROVE Pass(win, set, acc, i) = [gaps |-> Flushed(acc), run |-> NoGap]
  BY <1>8 DEF Pass
<1> QED
  BY <1>3, <1>4, <1>5, <1>6, <1>7, <1>8 DEF Acc

(* The loop over win, pass by pass.                                        *)
LEMMA ScanLoop ==
  ASSUME NEW win, Ordered(win), NEW set
  PROVE  \E acc \in [0 .. Len(win) -> Acc] :
           /\ acc[0] = [gaps |-> {}, run |-> NoGap]
           /\ \A i \in 1 .. Len(win) : acc[i] = Pass(win, set, acc[i - 1], i)
           /\ Scan(win, set) = acc[Len(win)]
<1> DEFINE n == Len(win)
           x0 == [gaps |-> {}, run |-> NoGap]
           step == [i \in 1 .. n |-> [a \in Acc |-> Pass(win, set, a, i)]]
           F(f) == [i \in 0 .. n |-> IF i = 0 THEN x0 ELSE Pass(win, set, f[i - 1], i)]
           f == CHOOSE g : g = F(g)
<1>0. n \in Nat
  BY DEF Ordered
<1>1. x0 \in Acc
  BY DEF Acc, Gap, NoGap
<1>2. step \in [1 .. n -> [Acc -> Acc]]
  BY PassTyped
<1>3. \E g : g = F(g)
  <2> HIDE DEF x0
  <2>1. PICK g \in [0 .. n -> Acc] : g[0] = x0 /\ \A i \in 1 .. n : g[i] = step[i][g[i - 1]]
    <3> HIDE DEF n, step, F, f
    <3>1. \E g : IsLoop(g, n, Acc, x0, step)
      BY <1>0, <1>1, <1>2, LoopExists
    <3> QED
      BY <3>1 DEF IsLoop
  <2>2. \A i \in 1 .. n : g[i] = Pass(win, set, g[i - 1], i)
    <3> TAKE i \in 1 .. n
    <3>1. i - 1 \in 0 .. n
      BY <1>0
    <3>2. g[i - 1] \in Acc
      BY <2>1, <3>1
    <3> HIDE DEF F, f, n
    <3>3. step[i] = [a \in Acc |-> Pass(win, set, a, i)]
      OBVIOUS
    <3> HIDE DEF step
    <3> QED
      BY <2>1, <3>2, <3>3
  <2> HIDE DEF n
  <2>3. \A i \in 0 .. n : i = 0 \/ i \in 1 .. n
    BY <1>0
  <2> QED
    BY <2>1, <2>2, <2>3
<1>4. f = F(f)
  <2> HIDE DEF F
  <2> QED
    BY <1>3, Zenon
<1>5. Scan(win, set) = f[n]
  BY DEF Scan, Pass
<1>6. f[0] = x0 /\ \A i \in 1 .. n : f[i] = Pass(win, set, f[i - 1], i)
  <2> HIDE DEF f, x0
  <2> QED
    BY <1>0, <1>4
<1>7. f = [i \in 0 .. n |-> f[i]]
  <2>1. f = F(f) => f = [i \in 0 .. n |-> f[i]]
    <3> HIDE DEF f, x0
    <3> QED
      OBVIOUS
  <2> HIDE DEF f, F
  <2> QED
    BY <1>4, <2>1
<1> HIDE DEF f
<1>8. \A k \in 0 .. n : f[k] \in Acc
  <2> DEFINE S == {k \in 0 .. n : f[k] \in Acc}
  <2>1. 0 \in S
    BY <1>0, <1>1, <1>6
  <2>2. \A k \in Nat : (k < n /\ k \in S) => k + 1 \in S
    <3> SUFFICES ASSUME NEW k \in Nat, k < n, f[k] \in Acc PROVE k + 1 \in S
      OBVIOUS
    <3>1. k + 1 \in 1 .. n /\ k + 1 \in 0 .. n /\ (k + 1) - 1 = k
      BY <1>0
    <3>2. Pass(win, set, f[k], k + 1) \in Acc
      BY <3>1, PassTyped
    <3> QED
      BY <1>6, <3>1, <3>2
  <2> HIDE DEF S
  <2>3. \A k \in 0 .. n : k \in S
    BY <1>0, <2>1, <2>2, UpTo
  <2> QED
    BY <2>3 DEF S
<1>9. f \in [0 .. n -> Acc]
  BY <1>7, <1>8
<1> HIDE DEF x0
<1> QED
  BY <1>5, <1>6, <1>9 DEF x0

(* A maximal run of the probes of win that are in set, and its span.       *)
IsRun(win, set, i, j) ==
  /\ i \in 1 .. Len(win) /\ j \in 1 .. Len(win) /\ i <= j
  /\ i .. j \subseteq set
  /\ i - 1 \notin set /\ j + 1 \notin set
GapOf(win, i, j) == [start |-> win[i].sent, end |-> win[j].sent + Interval]

IsGap(win, set, g) ==
  \E i, j \in 1 .. Len(win) : IsRun(win, set, i, j) /\ g = GapOf(win, i, j)

(* The gaps are those of the runs that ended before pass k.                *)
Gaps(win, set, gaps, k) ==
  \A g : g \in gaps <=>
    \E i, j \in 1 .. Len(win) : IsRun(win, set, i, j) /\ j < k /\ g = GapOf(win, i, j)

(* What the loop has found after pass k: the gaps of the runs that ended,  *)
(* and the run it is in.                                                   *)
Found(win, set, acc, k) ==
  /\ Gaps(win, set, acc.gaps, k)
  /\ k \notin set => acc.run = NoGap
  /\ k \in set => \E i \in 1 .. k :
       i .. k \subseteq set /\ i - 1 \notin set /\ acc.run = GapOf(win, i, k)

(* A gap is told from no gap by its start.                                 *)
LEMMA GapOfTyped ==
  ASSUME NEW win, Ordered(win), NEW i \in 1 .. Len(win), NEW j \in 1 .. Len(win)
  PROVE  /\ win[i].sent \in Nat /\ win[i].sent >= 1 /\ win[j].sent \in Nat
         /\ GapOf(win, i, j) \in Gap /\ GapOf(win, i, j) # NoGap
         /\ GapOf(win, i, j).start = win[i].sent
         /\ GapOf(win, i, j).end = win[j].sent + Interval
<1>1. win[i] \in Sample /\ win[j] \in Sample
  BY DEF Ordered
<1>2. win[i].sent \in Nat /\ win[i].sent >= 1 /\ win[j].sent \in Nat
  BY <1>1 DEF Sample
<1> QED
  BY <1>2, IntervalAssumption DEF GapOf, Gap, NoGap

(* Once a run is over, flushing it completes the gaps.                     *)
LEMMA FlushCompletes ==
  ASSUME NEW win, Ordered(win), NEW set, set \subseteq 1 .. Len(win),
         NEW k \in 0 .. Len(win), NEW acc \in Acc, Found(win, set, acc, k), k + 1 \notin set
  PROVE  Gaps(win, set, Flushed(acc), k + 1)
<1>0. Len(win) \in Nat
  BY DEF Ordered
<1>1. CASE k \notin set
  <2>1. Flushed(acc) = acc.gaps
    BY <1>1 DEF Flushed, Found
  <2>2. \A i, j \in 1 .. Len(win) : (IsRun(win, set, i, j) /\ j < k + 1) => j < k
    <3> TAKE i, j \in 1 .. Len(win)
    <3>1. IsRun(win, set, i, j) => j \in set
      BY <1>0 DEF IsRun
    <3> QED
      BY <1>0, <1>1, <3>1
  <2>3. \A j \in 1 .. Len(win) : j < k => j < k + 1
    BY <1>0
  <2> QED
    BY <2>1, <2>2, <2>3 DEF Found, Gaps
<1>2. CASE k \in set
  <2>0. k \in 1 .. Len(win)
    BY <1>2
  <2>1. PICK i \in 1 .. k : i .. k \subseteq set /\ i - 1 \notin set /\ acc.run = GapOf(win, i, k)
    BY <1>2 DEF Found
  <2>2. i \in 1 .. Len(win) /\ i <= k
    BY <1>0, <2>0
  <2>3. Flushed(acc) = acc.gaps \cup {GapOf(win, i, k)}
    BY <2>0, <2>1, <2>2, GapOfTyped DEF Flushed
  <2>4. IsRun(win, set, i, k) /\ k < k + 1
    BY <1>0, <2>0, <2>1, <2>2 DEF IsRun
  <2>5. \A a, j \in 1 .. Len(win) :
          (IsRun(win, set, a, j) /\ j < k + 1) => (j < k \/ (j = k /\ a = i))
    <3> SUFFICES ASSUME NEW a \in 1 .. Len(win), NEW j \in 1 .. Len(win), IsRun(win, set, a, j),
                        j < k + 1, ~(j < k)
                 PROVE  j = k /\ a = i
      OBVIOUS
    <3>1. j = k
      BY <1>0
    <3>2. ~(a < i)
      <4> SUFFICES ASSUME a < i PROVE FALSE
        OBVIOUS
      <4>1. i - 1 \in a .. j
        BY <1>0, <2>1, <2>2, <3>1
      <4> QED
        BY <2>1, <4>1 DEF IsRun
    <3>3. ~(i < a)
      <4> SUFFICES ASSUME i < a PROVE FALSE
        OBVIOUS
      <4>1. a - 1 \in i .. k
        BY <1>0, <2>0, <2>1, <2>2, <3>1 DEF IsRun
      <4> QED
        BY <2>1, <4>1 DEF IsRun
    <3> QED
      BY <1>0, <2>2, <3>1, <3>2, <3>3
  <2>6. \A j \in 1 .. Len(win) : j < k => j < k + 1
    BY <1>0
  <2> QED
    BY <2>0, <2>2, <2>3, <2>4, <2>5, <2>6 DEF Found, Gaps
<1> QED
  BY <1>1, <1>2

(* Every pass keeps the account.                                           *)
LEMMA PassFinds ==
  ASSUME NEW win, Ordered(win), NEW set, set \subseteq 1 .. Len(win),
         NEW k \in Nat, k < Len(win), NEW acc \in Acc, Found(win, set, acc, k)
  PROVE  Found(win, set, Pass(win, set, acc, k + 1), k + 1)
<1>0. Len(win) \in Nat /\ k + 1 \in 1 .. Len(win) /\ k \in 0 .. Len(win) /\ (k + 1) - 1 = k
  BY DEF Ordered
<1> DEFINE new == Pass(win, set, acc, k + 1)
<1> SUFFICES Found(win, set, new, k + 1)
  OBVIOUS
<1>1. CASE k + 1 \notin set
  <2>1. new.gaps = Flushed(acc) /\ new.run = NoGap
    BY <1>0, <1>1, PassTyped
  <2>2. Gaps(win, set, Flushed(acc), k + 1)
    BY <1>0, <1>1, FlushCompletes
  <2> HIDE DEF new
  <2> QED
    BY <1>1, <2>1, <2>2 DEF Found
<1>2. CASE k + 1 \in set
  <2>1. new.gaps = acc.gaps /\ new.run = Extended(acc.run, win[k + 1])
    BY <1>0, <1>2, PassTyped
  <2>2. \A i, j \in 1 .. Len(win) : IsRun(win, set, i, j) => (j < k <=> j < k + 1)
    <3> SUFFICES ASSUME NEW i \in 1 .. Len(win), NEW j \in 1 .. Len(win), IsRun(win, set, i, j)
                 PROVE  j < k <=> j < k + 1
      OBVIOUS
    <3>1. j # k
      BY <1>2 DEF IsRun
    <3> QED
      BY <1>0, <3>1
  <2>3. Gaps(win, set, new.gaps, k + 1)
    <3> HIDE DEF new
    <3> QED
      BY <2>1, <2>2 DEF Found, Gaps
  <2>4. \E i \in 1 .. k + 1 :
          /\ i .. k + 1 \subseteq set /\ i - 1 \notin set
          /\ new.run = GapOf(win, i, k + 1)
    <3> HIDE DEF new
    <3>1. CASE k \in set
      <4>1. PICK i \in 1 .. k :
              i .. k \subseteq set /\ i - 1 \notin set /\ acc.run = GapOf(win, i, k)
        BY <3>1 DEF Found
      <4>2. i \in 1 .. Len(win) /\ k \in 1 .. Len(win) /\ i \in 1 .. k + 1
        BY <1>0, <3>1
      <4>3. new.run = GapOf(win, i, k + 1)
        <5>1. acc.run # NoGap /\ acc.run.start = win[i].sent
          BY <4>1, <4>2, GapOfTyped
        <5> QED
          BY <2>1, <5>1 DEF Extended, GapOf
      <4>4. i .. k + 1 \subseteq set
        <5>1. \A x \in i .. k + 1 : x = k + 1 \/ x \in i .. k
          BY <1>0, <4>2
        <5> QED
          BY <1>2, <4>1, <5>1
      <4> QED
        BY <4>1, <4>2, <4>3, <4>4
    <3>2. CASE k \notin set
      <4>1. new.run = GapOf(win, k + 1, k + 1)
        BY <2>1, <3>2 DEF Extended, GapOf, Found
      <4>2. (k + 1) .. (k + 1) \subseteq set /\ k + 1 \in 1 .. k + 1
        BY <1>0, <1>2
      <4> QED
        BY <1>0, <3>2, <4>1, <4>2
    <3> QED
      BY <3>1, <3>2
  <2> HIDE DEF new
  <2> QED
    BY <1>2, <2>3, <2>4 DEF Found
<1> QED
  BY <1>1, <1>2

(* The loop and its flush at the end find the maximal runs, all of them    *)
(* and nothing else.                                                       *)
LEMMA RunsExact ==
  ASSUME NEW win, Ordered(win), NEW set, set \subseteq 1 .. Len(win)
  PROVE  \A g : g \in Runs(win, set) <=> IsGap(win, set, g)
<1>0. Len(win) \in Nat /\ Len(win) + 1 \notin set /\ 0 \notin set
  BY DEF Ordered
<1>1. PICK acc \in [0 .. Len(win) -> Acc] :
         /\ acc[0] = [gaps |-> {}, run |-> NoGap]
         /\ \A i \in 1 .. Len(win) : acc[i] = Pass(win, set, acc[i - 1], i)
         /\ Scan(win, set) = acc[Len(win)]
  BY ScanLoop
<1> DEFINE S == {k \in 0 .. Len(win) : Found(win, set, acc[k], k)}
<1>2. 0 \in S
  <2>1. acc[0].gaps = {} /\ acc[0].run = NoGap
    BY <1>1
  <2>2. \A j \in 1 .. Len(win) : ~(j < 0)
    BY <1>0
  <2>3. Found(win, set, acc[0], 0)
    BY <1>0, <2>1, <2>2 DEF Found, Gaps
  <2> QED
    BY <1>0, <2>3
<1>3. \A k \in Nat : (k < Len(win) /\ k \in S) => k + 1 \in S
  <2> SUFFICES ASSUME NEW k \in Nat, k < Len(win), Found(win, set, acc[k], k)
               PROVE  k + 1 \in S
    OBVIOUS
  <2>1. /\ k + 1 \in 1 .. Len(win) /\ k + 1 \in 0 .. Len(win) /\ k \in 0 .. Len(win)
        /\ (k + 1) - 1 = k
    BY <1>0
  <2>2. Found(win, set, Pass(win, set, acc[k], k + 1), k + 1)
    BY <2>1, PassFinds
  <2> QED
    BY <1>1, <2>1, <2>2
<1>4. Found(win, set, acc[Len(win)], Len(win))
  <2> HIDE DEF S
  <2>1. Len(win) \in S
    <3>1. Len(win) \in 0 .. Len(win)
      BY <1>0
    <3> QED
      BY <1>0, <1>2, <1>3, <3>1, UpTo
  <2> QED
    BY <2>1 DEF S
<1>5. Len(win) \in 0 .. Len(win) /\ acc[Len(win)] \in Acc
  BY <1>0
<1>6. Gaps(win, set, Flushed(acc[Len(win)]), Len(win) + 1)
  BY <1>0, <1>4, <1>5, FlushCompletes
<1>7. \A j \in 1 .. Len(win) : j < Len(win) + 1
  BY <1>0
<1>8. Runs(win, set) = Flushed(acc[Len(win)])
  BY <1>1 DEF Runs
<1> QED
  BY <1>6, <1>7, <1>8 DEF Gaps, IsGap

(* A stretch of probes lies in a maximal run.                              *)
LEMMA RunAround ==
  ASSUME NEW win, Ordered(win), NEW set, set \subseteq 1 .. Len(win),
         NEW i \in 1 .. Len(win), NEW j \in 1 .. Len(win), i <= j, i .. j \subseteq set
  PROVE  \E a, b \in 1 .. Len(win) : IsRun(win, set, a, b) /\ a <= i /\ j <= b
<1>0. Len(win) \in Nat /\ Len(win) + 1 \notin set /\ 0 \notin set
  BY DEF Ordered
<1> DEFINE T == {n \in Nat : i - n - 1 \notin set}
           U == {n \in Nat : j + n + 1 \notin set}
<1>1. PICK l \in T : \A m \in T : l <= m
  <2>1. i - 1 \in Nat /\ i - (i - 1) - 1 = 0
    BY <1>0
  <2>2. T # {} /\ T \subseteq Nat
    BY <1>0, <2>1
  <2> HIDE DEF T
  <2> QED
    BY <2>2, Least
<1>2. PICK r \in U : \A m \in U : r <= m
  <2>1. Len(win) - j \in Nat /\ j + (Len(win) - j) + 1 = Len(win) + 1
    BY <1>0
  <2>2. U # {} /\ U \subseteq Nat
    BY <1>0, <2>1
  <2> HIDE DEF U
  <2> QED
    BY <2>2, Least
<1> DEFINE a == i - l
           b == j + r
<1>3. l \in Nat /\ a - 1 \notin set /\ a <= i /\ a \in Int
  BY <1>0
<1>4. r \in Nat /\ b + 1 \notin set /\ j <= b /\ b \in Int
  BY <1>0
<1>5. \A x \in a .. b : x \in set
  <2> TAKE x \in a .. b
  <2>1. CASE x < i
    <3>1. i - x - 1 \in Nat /\ ~(l <= i - x - 1) /\ i - (i - x - 1) - 1 = x
      BY <1>0, <1>3, <1>4, <2>1
    <3> QED
      BY <1>1, <3>1
  <2>2. CASE j < x
    <3>1. x - j - 1 \in Nat /\ ~(r <= x - j - 1) /\ j + (x - j - 1) + 1 = x
      BY <1>0, <1>3, <1>4, <2>2
    <3> QED
      BY <1>2, <3>1
  <2>3. CASE i <= x /\ x <= j
    BY <1>0, <1>3, <1>4, <2>3
  <2> QED
    BY <1>0, <1>3, <1>4, <2>1, <2>2, <2>3
<1> HIDE DEF a, b, T, U
<1>6. a \in a .. b /\ b \in a .. b /\ a <= b
  BY <1>0, <1>3, <1>4
<1>7. a \in 1 .. Len(win) /\ b \in 1 .. Len(win)
  BY <1>5, <1>6
<1> QED
  BY <1>3, <1>4, <1>5, <1>6, <1>7 DEF IsRun

(* No gap is longer than this.                                             *)
Bound(win) == IF Len(win) = 0 THEN 0 ELSE win[Len(win)].sent + Interval

(* The length of a stretch of probes.                                      *)
Span(win, i, j) == win[j].sent - win[i].sent + Interval

(* A longer stretch takes longer, and none exceeds the bound.              *)
LEMMA SpanBounds ==
  ASSUME NEW win, Ordered(win), NEW i \in 1 .. Len(win), NEW j \in 1 .. Len(win), i <= j
  PROVE  /\ Bound(win) \in Nat /\ Span(win, i, j) \in 0 .. Bound(win)
         /\ Span(win, i, j) >= Interval
         /\ Length(GapOf(win, i, j)) = Span(win, i, j)
         /\ \A a, b \in 1 .. Len(win) : (a <= i /\ j <= b) => Span(win, a, b) >= Span(win, i, j)
<1>0. Len(win) \in Nat /\ Len(win) # 0 /\ Len(win) \in 1 .. Len(win) /\ DOMAIN win = 1 .. Len(win)
  BY DEF Ordered
<1>1. \A x \in 1 .. Len(win) : win[x].sent \in Nat /\ win[x].sent <= win[Len(win)].sent
  BY <1>0, GapOfTyped DEF Ordered
<1>2. win[i].sent <= win[j].sent
  BY <1>0 DEF Ordered
<1>3. Bound(win) = win[Len(win)].sent + Interval
  BY <1>0 DEF Bound
<1>4. Length(GapOf(win, i, j)) = Span(win, i, j)
  BY <1>1, IntervalAssumption DEF Length, GapOf, Span
<1>5. ASSUME NEW a \in 1 .. Len(win), NEW b \in 1 .. Len(win), a <= i, j <= b
      PROVE  Span(win, a, b) >= Span(win, i, j)
  <2>1. win[a].sent <= win[i].sent /\ win[j].sent <= win[b].sent
    BY <1>0, <1>5 DEF Ordered
  <2> DEFINE sa == win[a].sent
             sb == win[b].sent
             si == win[i].sent
             sj == win[j].sent
  <2>2. /\ sa \in Nat /\ sb \in Nat /\ si \in Nat /\ sj \in Nat /\ sa <= si /\ sj <= sb
        /\ Span(win, a, b) = sb - sa + Interval /\ Span(win, i, j) = sj - si + Interval
    BY <1>1, <2>1 DEF Span
  <2> HIDE DEF sa, sb, si, sj
  <2> QED
    BY <2>2, IntervalAssumption
<1>6. Bound(win) \in Nat /\ Span(win, i, j) \in 0 .. Bound(win) /\ Span(win, i, j) >= Interval
  <2> DEFINE si == win[i].sent
             sj == win[j].sent
             sn == win[Len(win)].sent
  <2>1. /\ si \in Nat /\ sj \in Nat /\ sn \in Nat /\ si <= sj /\ sj <= sn
        /\ Bound(win) = sn + Interval /\ Span(win, i, j) = sj - si + Interval
    BY <1>0, <1>1, <1>2, <1>3 DEF Span
  <2> HIDE DEF si, sj, sn
  <2> QED
    BY <2>1, IntervalAssumption
<1> QED
  BY <1>4, <1>5, <1>6

(* The longest of some gaps is 0 or the length of one of them, and no      *)
(* shorter than any.                                                       *)
LEMMA LongestIs ==
  ASSUME NEW win, Ordered(win), NEW set, set \subseteq 1 .. Len(win),
         NEW gaps, gaps \subseteq Runs(win, set)
  PROVE  /\ Longest(gaps) \in Nat
         /\ \A g \in gaps : Longest(gaps) >= Length(g)
         /\ Longest(gaps) = 0 \/ \E g \in gaps : Longest(gaps) = Length(g)
<1> DEFINE L == {0} \cup {Length(g) : g \in gaps}
<1>0. Bound(win) \in Nat
  BY IntervalAssumption, SpanBounds DEF Bound, Ordered
<1>1. ASSUME NEW g \in gaps PROVE Length(g) \in 0 .. Bound(win)
  <2>1. PICK i, j \in 1 .. Len(win) : IsRun(win, set, i, j) /\ g = GapOf(win, i, j)
    <3>1. IsGap(win, set, g)
      BY RunsExact
    <3> QED
      BY <3>1 DEF IsGap
  <2>2. i <= j
    BY <2>1 DEF IsRun
  <2> QED
    BY <2>1, <2>2, SpanBounds
<1>2. L \subseteq 0 .. Bound(win) /\ L # {}
  BY <1>0, <1>1
<1>3. Longest(gaps) = Max(L)
  BY DEF Longest
<1> HIDE DEF L
<1>4. Max(L) \in L /\ Max(L) \in Nat /\ \A y \in L : Max(L) >= y
  BY <1>0, <1>2, MaxIsMax
<1> QED
  BY <1>3, <1>4 DEF L

(* The same of the reference definition.                                   *)
LEMMA LongestStretchIs ==
  ASSUME NEW win, Ordered(win), NEW set
  PROVE  /\ LongestStretch(win, set) \in Nat
         /\ \A i, j \in 1 .. Len(win) :
              (i <= j /\ i .. j \subseteq set) => LongestStretch(win, set) >= Span(win, i, j)
         /\ \/ LongestStretch(win, set) = 0
            \/ \E i, j \in 1 .. Len(win) :
                 i <= j /\ i .. j \subseteq set /\ LongestStretch(win, set) = Span(win, i, j)
<1> DEFINE L == {0} \cup {win[ij[2]].sent - win[ij[1]].sent + Interval : ij \in Stretches(win, set)}
<1>0. Bound(win) \in Nat /\ DOMAIN win = 1 .. Len(win)
  BY IntervalAssumption, SpanBounds DEF Bound, Ordered
<1>1. ASSUME NEW ij \in Stretches(win, set)
      PROVE  /\ ij[1] \in 1 .. Len(win) /\ ij[2] \in 1 .. Len(win) /\ ij[1] <= ij[2]
             /\ ij[1] .. ij[2] \subseteq set
             /\ win[ij[2]].sent - win[ij[1]].sent + Interval = Span(win, ij[1], ij[2])
  BY <1>0 DEF Stretches, Span
<1>2. ASSUME NEW ij \in Stretches(win, set)
      PROVE  win[ij[2]].sent - win[ij[1]].sent + Interval \in 0 .. Bound(win)
  BY <1>1, SpanBounds
<1>3. L \subseteq 0 .. Bound(win) /\ L # {}
  BY <1>0, <1>2
<1>4. LongestStretch(win, set) = Max(L)
  BY DEF LongestStretch
<1>5. \A i, j \in 1 .. Len(win) : (i <= j /\ i .. j \subseteq set) => Span(win, i, j) \in L
  <2> SUFFICES ASSUME NEW i \in 1 .. Len(win), NEW j \in 1 .. Len(win), i <= j, i .. j \subseteq set
               PROVE  Span(win, i, j) \in L
    OBVIOUS
  <2>1. <<i, j>> \in Stretches(win, set) /\ <<i, j>>[1] = i /\ <<i, j>>[2] = j
    BY <1>0 DEF Stretches
  <2> QED
    BY <2>1 DEF Span
<1>6. \A y \in L : y = 0 \/ \E i, j \in 1 .. Len(win) :
                             i <= j /\ i .. j \subseteq set /\ y = Span(win, i, j)
  BY <1>1
<1> HIDE DEF L
<1>7. Max(L) \in L /\ Max(L) \in Nat /\ \A y \in L : Max(L) >= y
  BY <1>0, <1>3, MaxIsMax
<1> QED
  BY <1>4, <1>5, <1>6, <1>7

(* The loop computes the longest stretch.                                  *)
LEMMA LongestExact ==
  ASSUME NEW win, Ordered(win), NEW set, set \subseteq 1 .. Len(win)
  PROVE  Longest(Runs(win, set)) = LongestStretch(win, set)
<1> DEFINE a == Longest(Runs(win, set))
           b == LongestStretch(win, set)
<1>0. a \in Nat /\ b \in Nat
  BY LongestIs, LongestStretchIs
<1>1. a <= b
  <2>1. CASE a = 0
    BY <1>0, <2>1
  <2>2. CASE \E g \in Runs(win, set) : a = Length(g)
    <3>1. PICK g \in Runs(win, set) : a = Length(g)
      BY <2>2
    <3>2. PICK i, j \in 1 .. Len(win) : IsRun(win, set, i, j) /\ g = GapOf(win, i, j)
      <4>1. IsGap(win, set, g)
        BY RunsExact
      <4> QED
        BY <4>1 DEF IsGap
    <3>3. i <= j /\ i .. j \subseteq set
      BY <3>2 DEF IsRun
    <3>4. a = Span(win, i, j) /\ b >= Span(win, i, j)
      BY <3>1, <3>2, <3>3, SpanBounds, LongestStretchIs
    <3> QED
      BY <1>0, <3>4
  <2> QED
    BY <2>1, <2>2, LongestIs
<1>2. b <= a
  <2>1. CASE b = 0
    BY <1>0, <2>1
  <2>2. CASE \E i, j \in 1 .. Len(win) : i <= j /\ i .. j \subseteq set /\ b = Span(win, i, j)
    <3>1. PICK i, j \in 1 .. Len(win) : i <= j /\ i .. j \subseteq set /\ b = Span(win, i, j)
      BY <2>2
    <3>2. PICK x, y \in 1 .. Len(win) : IsRun(win, set, x, y) /\ x <= i /\ j <= y
      BY <3>1, RunAround
    <3>3. GapOf(win, x, y) \in Runs(win, set)
      <4>1. IsGap(win, set, GapOf(win, x, y))
        BY <3>2 DEF IsGap
      <4> QED
        BY <4>1, RunsExact
    <3>4. a >= Length(GapOf(win, x, y))
      BY <3>3, LongestIs
    <3>5. x <= y
      BY <3>2 DEF IsRun
    <3>6. Length(GapOf(win, x, y)) = Span(win, x, y) /\ Span(win, x, y) \in Nat
      BY <3>5, SpanBounds
    <3>7. Span(win, x, y) >= Span(win, i, j)
      BY <3>1, <3>2, SpanBounds
    <3> HIDE DEF a, b
    <3> QED
      BY <1>0, <3>1, <3>4, <3>6, <3>7
  <2> QED
    BY <2>1, <2>2, LongestStretchIs
<1> HIDE DEF a, b
<1>3. a = b
  BY <1>0, <1>1, <1>2
<1> QED
  BY <1>3 DEF a, b

(* When a probe of a list was sent.                                        *)
LEMMA SentIs ==
  ASSUME NEW win, Ordered(win), NEW a \in DOMAIN win
  PROVE  a \in 1 .. Len(win) /\ win[a] \in Sample /\ win[a].sent \in Nat
<1>1. a \in 1 .. Len(win) /\ win[a] \in Sample
  BY DEF Ordered
<1> QED
  BY <1>1 DEF Sample

(* A longer list of probes to choose from has no shorter stretch.          *)
LEMMA LongestGrows ==
  ASSUME NEW win, Ordered(win), NEW set, NEW more, set \subseteq more
  PROVE  LongestStretch(win, set) <= LongestStretch(win, more)
<1> DEFINE a == LongestStretch(win, set)
           b == LongestStretch(win, more)
<1>0. a \in Nat /\ b \in Nat
  BY LongestStretchIs
<1>1. CASE a = 0
  BY <1>0, <1>1
<1>2. CASE \E i, j \in 1 .. Len(win) : i <= j /\ i .. j \subseteq set /\ a = Span(win, i, j)
  <2>1. PICK i, j \in 1 .. Len(win) : i <= j /\ i .. j \subseteq set /\ a = Span(win, i, j)
    BY <1>2
  <2>2. i .. j \subseteq more
    BY <2>1
  <2>3. b >= a
    BY <2>1, <2>2, LongestStretchIs
  <2> HIDE DEF a, b
  <2> QED
    BY <1>0, <2>3 DEF a, b
<1> QED
  BY <1>1, <1>2, LongestStretchIs

-----------------------------------------------------------------------------
(* The window of two moments.                                              *)

(* One pass of the loop in window.                                         *)
Kept(from, to, w, i) ==
  IF from <= samples[i].sent /\ samples[i].sent <= to THEN Append(w, samples[i]) ELSE w

(* A pass keeps the order: what it appends was sent after what is there.   *)
LEMMA KeptOrdered ==
  ASSUME Ordered(samples), NEW from, NEW to, NEW k \in Nat, k < Len(samples),
         NEW w, Ordered(w), \A a \in DOMAIN w : w[a].sent <= samples[k + 1].sent
  PROVE  /\ Ordered(Kept(from, to, w, k + 1))
         /\ \A a \in DOMAIN Kept(from, to, w, k + 1) :
              Kept(from, to, w, k + 1)[a].sent <= samples[k + 1].sent
<1>0. k + 1 \in 1 .. Len(samples) /\ samples[k + 1] \in Sample /\ w \in Seq(Sample)
  BY DEF Ordered
<1>1. samples[k + 1].sent \in Nat
  BY <1>0 DEF Sample
<1> DEFINE x == samples[k + 1]
           v == Append(w, x)
<1> HIDE DEF x
<1>2. CASE Kept(from, to, w, k + 1) = w
  BY <1>2
<1>3. CASE Kept(from, to, w, k + 1) = v
  <2>0. x \in Sample /\ x.sent \in Nat /\ Len(w) \in Nat /\ DOMAIN w = 1 .. Len(w)
    BY <1>0, <1>1 DEF x
  <2>1. /\ v \in Seq(Sample) /\ DOMAIN v = 1 .. Len(w) + 1
        /\ v[Len(w) + 1] = x /\ \A a \in 1 .. Len(w) : v[a] = w[a]
    <3> HIDE DEF Sample
    <3> QED
      BY <1>0, <2>0
  <2> HIDE DEF v
  <2>2. \A a \in 1 .. Len(w) : v[a].sent <= x.sent
    BY <2>0, <2>1 DEF x
  <2>3. \A a \in DOMAIN v : v[a].sent <= x.sent
    <3> TAKE a \in DOMAIN v
    <3>1. a = Len(w) + 1 \/ a \in 1 .. Len(w)
      BY <2>0, <2>1
    <3>2. x.sent <= x.sent
      BY <2>0
    <3> QED
      BY <2>1, <2>2, <3>1, <3>2
  <2>4. \A a, b \in DOMAIN v : a <= b => v[a].sent <= v[b].sent
    <3> SUFFICES ASSUME NEW a \in DOMAIN v, NEW b \in DOMAIN v, a <= b
                 PROVE  v[a].sent <= v[b].sent
      OBVIOUS
    <3>1. b = Len(w) + 1 \/ (a \in 1 .. Len(w) /\ b \in 1 .. Len(w))
      BY <2>0, <2>1
    <3>2. CASE b = Len(w) + 1
      BY <2>1, <2>3, <3>2
    <3>3. CASE a \in 1 .. Len(w) /\ b \in 1 .. Len(w)
      BY <2>0, <2>1, <3>3 DEF Ordered
    <3> QED
      BY <3>1, <3>2, <3>3
  <2>5. Ordered(v)
    BY <2>1, <2>4 DEF Ordered
  <2> QED
    BY <1>3, <2>3, <2>5 DEF x
<1> QED
  BY <1>2, <1>3 DEF Kept, x

(* A window of the samples is in order.                                    *)
LEMMA WindowOrdered ==
  ASSUME Ordered(samples), NEW from, NEW to
  PROVE  Ordered(window(from, to))
<1> DEFINE n == Len(samples)
           X == Seq(Sample)
           step == [i \in 1 .. n |-> [w \in X |-> Kept(from, to, w, i)]]
           F(f) == [i \in 0 .. n |-> IF i = 0 THEN <<>> ELSE Kept(from, to, f[i - 1], i)]
           f == CHOOSE g : g = F(g)
<1>0. n \in Nat /\ <<>> \in X
  BY DEF Ordered
<1>1. \A i \in 1 .. n : samples[i] \in Sample
  BY DEF Ordered
<1>2. step \in [1 .. n -> [X -> X]]
  <2>1. ASSUME NEW i \in 1 .. n, NEW w \in X PROVE Kept(from, to, w, i) \in X
    <3> HIDE DEF Sample, n
    <3> QED
      BY <1>1 DEF Kept
  <2> HIDE DEF X, n
  <2> QED
    BY <2>1
<1>3. \E g : g = F(g)
  <2>1. PICK g \in [0 .. n -> X] : g[0] = <<>> /\ \A i \in 1 .. n : g[i] = step[i][g[i - 1]]
    <3> HIDE DEF n, step, F, f, X
    <3>1. \E g : IsLoop(g, n, X, <<>>, step)
      BY <1>0, <1>2, LoopExists
    <3> QED
      BY <3>1 DEF IsLoop
  <2>2. \A i \in 1 .. n : g[i] = Kept(from, to, g[i - 1], i)
    <3> TAKE i \in 1 .. n
    <3>1. i - 1 \in 0 .. n
      BY <1>0
    <3> HIDE DEF F, f, n, X
    <3>2. g[i - 1] \in X
      BY <2>1, <3>1
    <3>3. step[i] = [w \in X |-> Kept(from, to, w, i)]
      OBVIOUS
    <3> HIDE DEF step
    <3> QED
      BY <2>1, <3>2, <3>3
  <2> HIDE DEF n, X
  <2>3. \A i \in 0 .. n : i = 0 \/ i \in 1 .. n
    BY <1>0
  <2> QED
    BY <2>1, <2>2, <2>3
<1>4. f = F(f)
  <2> HIDE DEF F
  <2> QED
    BY <1>3, Zenon
<1>5. window(from, to) = f[n]
  BY DEF window, Kept
<1>6. f[0] = <<>> /\ \A i \in 1 .. n : f[i] = Kept(from, to, f[i - 1], i)
  <2> HIDE DEF f
  <2> QED
    BY <1>0, <1>4
<1> HIDE DEF f
<1> DEFINE S == {k \in 0 .. n :
                   Ordered(f[k]) /\ (k > 0 => \A a \in DOMAIN f[k] : f[k][a].sent <= samples[k].sent)}
<1>7. 0 \in S
  <2>1. Ordered(<<>>)
    BY DEF Ordered
  <2> QED
    BY <1>0, <1>6, <2>1
<1>8. \A k \in Nat : (k < n /\ k \in S) => k + 1 \in S
  <2> SUFFICES ASSUME NEW k \in Nat, k < n, Ordered(f[k]),
                      k > 0 => \A a \in DOMAIN f[k] : f[k][a].sent <= samples[k].sent
               PROVE  k + 1 \in S
    OBVIOUS
  <2>1. k + 1 \in 1 .. n /\ k + 1 \in 0 .. n /\ (k + 1) - 1 = k /\ k + 1 > 0
    BY <1>0
  <2>2. \A a \in DOMAIN f[k] : f[k][a].sent <= samples[k + 1].sent
    <3>1. CASE k = 0
      BY <1>6, <3>1
    <3>2. CASE k > 0
      <4> TAKE a \in DOMAIN f[k]
      <4>1. k \in 1 .. n /\ k \in DOMAIN samples /\ k + 1 \in DOMAIN samples /\ k <= k + 1
        BY <1>0, <2>1, <3>2 DEF Ordered
      <4>2. samples[k].sent <= samples[k + 1].sent
        BY <4>1 DEF Ordered
      <4>3. f[k][a].sent \in Nat /\ samples[k].sent \in Nat /\ samples[k + 1].sent \in Nat
        BY <4>1, SentIs
      <4>4. f[k][a].sent <= samples[k].sent
        BY <3>2
      <4> QED
        BY <4>2, <4>3, <4>4
    <3> QED
      BY <3>1, <3>2
  <2>3. f[k + 1] = Kept(from, to, f[k], k + 1)
    BY <1>6, <2>1
  <2> QED
    BY <2>1, <2>2, <2>3, KeptOrdered
<1>9. n \in S
  <2> HIDE DEF S
  <2>1. n \in 0 .. n
    BY <1>0
  <2> HIDE DEF n
  <2> QED
    BY <1>0, <1>7, <1>8, <2>1, UpTo
<1> QED
  BY <1>5, <1>9

(* The loops of stats compute what they are documented to.                 *)
LEMMA FiguresFromOrder == Ordered(samples) => FiguresExact
<1> SUFFICES ASSUME Ordered(samples), NEW from, NEW to
             PROVE  LET win == window(from, to)
                    IN  /\ LostRunNS(win) = LongestStretch(win, LostIn(win))
                        /\ MaxGapNS(win) = LongestStretch(win, BadIn(win))
                        /\ LostRunNS(win) <= MaxGapNS(win)
  BY DEF FiguresExact
<1> DEFINE win == window(from, to)
<1>1. Ordered(win)
  BY WindowOrdered
<1> HIDE DEF win
<1>2. LostIn(win) \subseteq BadIn(win) /\ BadIn(win) \subseteq 1 .. Len(win)
  BY <1>1 DEF LostIn, BadIn, Lost, Bad, Ordered
<1>3. LostRunNS(win) = LongestStretch(win, LostIn(win))
  BY <1>1, <1>2, LongestExact DEF LostRunNS
<1>4. MaxGapNS(win) = LongestStretch(win, BadIn(win))
  BY <1>1, <1>2, LongestExact DEF MaxGapNS
<1>5. LostRunNS(win) <= MaxGapNS(win)
  BY <1>1, <1>2, <1>3, <1>4, LongestGrows
<1> QED
  BY <1>3, <1>4, <1>5 DEF win

-----------------------------------------------------------------------------
(* The outage and what the prober makes of it.                             *)

(* The switchover's time stamps bracket the outage.                        *)
Bracketed ==
  /\ pauseNS \in Nat /\ resumeNS \in Nat /\ down.from \in Nat /\ down.to \in Nat
  /\ mig = "done" => pauseNS <= down.from /\ down.from <= down.to /\ down.to <= resumeNS

(* The figure is the length of a run of lost probes that meets the         *)
(* switchover, or 0, and no such run is longer.                            *)
LEMMA BlackoutIs ==
  ASSUME Ordered(samples), NEW p, NEW r
  PROVE  /\ switchoverBlackout(p, r) \in Nat
         /\ \A i, j \in 1 .. Len(samples) :
              ( /\ IsRun(samples, LostIn(samples), i, j)
                /\ samples[i].sent <= r /\ samples[j].sent + Interval >= p )
              => switchoverBlackout(p, r) >= Span(samples, i, j)
         /\ \/ switchoverBlackout(p, r) = 0
            \/ \E i, j \in 1 .. Len(samples) :
                 /\ IsRun(samples, LostIn(samples), i, j)
                 /\ samples[i].sent <= r /\ samples[j].sent + Interval >= p
<1> DEFINE set == LostIn(samples)
           G == {g \in Runs(samples, set) : g.start <= r /\ g.end >= p}
<1>1. set \subseteq 1 .. Len(samples) /\ G \subseteq Runs(samples, set)
  BY DEF LostIn, Ordered
<1>2. switchoverBlackout(p, r) = Longest(G)
  BY DEF switchoverBlackout
<1> HIDE DEF set
<1>3. /\ Longest(G) \in Nat
      /\ \A g \in G : Longest(G) >= Length(g)
      /\ Longest(G) = 0 \/ \E g \in G : Longest(G) = Length(g)
  <2> HIDE DEF G
  <2> QED
    BY <1>1, LongestIs
<1>4. ASSUME NEW i \in 1 .. Len(samples), NEW j \in 1 .. Len(samples), IsRun(samples, set, i, j),
             samples[i].sent <= r, samples[j].sent + Interval >= p
      PROVE  Longest(G) >= Span(samples, i, j)
  <2>1. GapOf(samples, i, j) \in Runs(samples, set)
    <3>1. IsGap(samples, set, GapOf(samples, i, j))
      BY <1>4 DEF IsGap
    <3> QED
      BY <1>1, <3>1, RunsExact
  <2>2. GapOf(samples, i, j) \in G
    BY <1>4, <2>1, GapOfTyped
  <2>3. i <= j
    BY <1>4 DEF IsRun
  <2> HIDE DEF G
  <2> QED
    BY <1>3, <2>2, <2>3, SpanBounds
<1>5. ASSUME NEW g \in G
      PROVE  \E i, j \in 1 .. Len(samples) :
               /\ IsRun(samples, set, i, j)
               /\ samples[i].sent <= r /\ samples[j].sent + Interval >= p
  <2>1. IsGap(samples, set, g)
    BY <1>1, RunsExact
  <2>2. PICK i, j \in 1 .. Len(samples) : IsRun(samples, set, i, j) /\ g = GapOf(samples, i, j)
    BY <2>1 DEF IsGap
  <2>3. g.start = samples[i].sent /\ g.end = samples[j].sent + Interval
    BY <2>2, GapOfTyped
  <2> QED
    BY <2>2, <2>3
<1> HIDE DEF G
<1> QED
  BY <1>2, <1>3, <1>4, <1>5 DEF set

(* Two figures' maximum is no less than either.                            *)
LEMMA MaxOfTwo ==
  ASSUME NEW a \in Nat, NEW b \in Nat
  PROVE  Max({a, b}) \in Nat /\ Max({a, b}) >= a /\ Max({a, b}) >= b
<1>1. a + b \in Nat /\ {a, b} \subseteq 0 .. a + b /\ {a, b} # {}
  OBVIOUS
<1>2. Max({a, b}) \in Nat /\ \A y \in {a, b} : Max({a, b}) >= y
  BY <1>1, MaxIsMax
<1> QED
  BY <1>2

(* Successive probes are no further apart than the sender's worst stall.   *)
LEMMA StallIs ==
  ASSUME NEW win, Ordered(win), MaxSendStallNS(win) <= Interval,
         NEW i \in 1 .. Len(win), i + 1 \in 1 .. Len(win)
  PROVE  win[i + 1].sent - win[i].sent <= Interval
<1> DEFINE L == {0} \cup {win[k + 1].sent - win[k].sent : k \in 1 .. Len(win) - 1}
<1>0. Len(win) \in Nat /\ DOMAIN win = 1 .. Len(win) /\ Len(win) \in 1 .. Len(win)
  BY DEF Ordered
<1>1. win[Len(win)].sent \in Nat
  BY <1>0, SentIs
<1>2. ASSUME NEW k \in 1 .. Len(win) - 1
      PROVE  win[k + 1].sent - win[k].sent \in 0 .. win[Len(win)].sent
  <2>1. k \in DOMAIN win /\ k + 1 \in DOMAIN win /\ k <= k + 1 /\ k + 1 <= Len(win)
    BY <1>0
  <2>2. win[k].sent \in Nat /\ win[k + 1].sent \in Nat
    BY <2>1, SentIs
  <2>3. win[k].sent <= win[k + 1].sent /\ win[k + 1].sent <= win[Len(win)].sent
    BY <1>0, <2>1 DEF Ordered
  <2> QED
    BY <1>1, <2>2, <2>3
<1>3. L \subseteq 0 .. win[Len(win)].sent /\ L # {}
  BY <1>1, <1>2
<1>4. MaxSendStallNS(win) = Max(L)
  BY DEF MaxSendStallNS
<1>5. win[i + 1].sent - win[i].sent \in L
  <2>1. i \in 1 .. Len(win) - 1
    BY <1>0
  <2> QED
    BY <2>1
<1> HIDE DEF L
<1>6. Max(L) \in Nat /\ \A y \in L : Max(L) >= y
  BY <1>1, <1>3, MaxIsMax
<1>7. win[i + 1].sent - win[i].sent \in Int
  <2>1. win[i + 1].sent \in Nat /\ win[i].sent \in Nat
    BY <1>0, SentIs
  <2> QED
    BY <2>1
<1> QED
  BY <1>4, <1>5, <1>6, <1>7, IntervalAssumption

(* A sender that keeps its pace and loses what it sends into an outage     *)
(* sees the outage, but for less than an interval.                         *)
LEMMA OutageSeen ==
  ASSUME Ordered(samples), Bracketed, mig = "done",
         \E i \in DOMAIN samples : samples[i].sent <= down.from,
         \E i \in DOMAIN samples : samples[i].sent >= down.to,
         MaxSendStallNS(samples) <= Interval,
         \A i \in DOMAIN samples :
           (down.from <= samples[i].sent /\ samples[i].sent < down.to) => Lost(samples[i])
  PROVE  switchoverBlackout(pauseNS, resumeNS) + Interval > down.to - down.from
<1> DEFINE n == Len(samples)
           lo == down.from
           hi == down.to
           T(m) == {k \in Nat : k \in 1 .. n /\ samples[k].sent >= m}
           b == switchoverBlackout(pauseNS, resumeNS)
<1>0. /\ n \in Nat /\ DOMAIN samples = 1 .. n
      /\ lo \in Nat /\ hi \in Nat /\ lo <= hi /\ pauseNS \in Nat /\ resumeNS \in Nat
      /\ pauseNS <= lo /\ hi <= resumeNS /\ b \in Nat /\ Interval \in Nat /\ Interval > 0
  BY IntervalAssumption, BlackoutIs DEF Bracketed, Ordered
<1>1. \A k \in 1 .. n : samples[k].sent \in Nat
  BY <1>0, SentIs
<1>2. \A k, l \in 1 .. n : k <= l => samples[k].sent <= samples[l].sent
  BY <1>0 DEF Ordered
<1>3. \A k \in 1 .. n : k + 1 \in 1 .. n => samples[k + 1].sent - samples[k].sent <= Interval
  BY <1>0, StallIs
<1>4. PICK i0 \in 1 .. n : samples[i0].sent <= lo
  BY <1>0
<1>5. PICK j0 \in 1 .. n : samples[j0].sent >= hi
  BY <1>0
<1>l. \A k \in 1 .. n : (lo <= samples[k].sent /\ samples[k].sent < hi) => k \in LostIn(samples)
  BY <1>0 DEF LostIn
<1>m. lo \in Nat /\ hi \in Nat /\ n \in Nat
  BY <1>0
<1> HIDE DEF n, b, lo, hi
<1>6. T(hi) # {} /\ T(hi) \subseteq Nat /\ T(lo) # {} /\ T(lo) \subseteq Nat
  <2>1. samples[j0].sent \in Nat /\ samples[j0].sent >= hi /\ j0 \in Nat
    BY <1>0, <1>1, <1>5
  <2>2. samples[j0].sent >= lo
    BY <1>0, <2>1
  <2>3. j0 \in T(hi) /\ j0 \in T(lo)
    BY <2>1, <2>2
  <2> QED
    BY <2>3
<1>7. PICK q \in T(hi) : \A k \in T(hi) : q <= k
  <2> HIDE DEF T
  <2> QED
    BY <1>6, Least
<1>8. PICK p \in T(lo) : \A k \in T(lo) : p <= k
  <2> HIDE DEF T
  <2> QED
    BY <1>6, Least
<1>9. /\ p \in 1 .. n /\ q \in 1 .. n /\ p <= q
      /\ samples[p].sent >= lo /\ samples[q].sent >= hi
  <2>1. q \in T(lo)
    BY <1>0, <1>1
  <2> QED
    BY <1>8, <2>1
<1>10. /\ \A k \in 1 .. n : k < q => samples[k].sent < hi
       /\ \A k \in 1 .. n : k < p => samples[k].sent < lo
  <2>1. \A k \in 1 .. n : k < q => samples[k].sent < hi
    <3> SUFFICES ASSUME NEW k \in 1 .. n, k < q PROVE samples[k].sent < hi
      OBVIOUS
    <3>1. k \in Nat /\ samples[k].sent \in Nat
      BY <1>1, <1>m
    <3>2. k \notin T(hi)
      <4> HIDE DEF T
      <4> QED
        BY <1>7, <1>9, <1>m, <3>1
    <3>3. ~(samples[k].sent >= hi)
      BY <3>1, <3>2
    <3> QED
      BY <1>m, <3>1, <3>3
  <2>2. \A k \in 1 .. n : k < p => samples[k].sent < lo
    <3> SUFFICES ASSUME NEW k \in 1 .. n, k < p PROVE samples[k].sent < lo
      OBVIOUS
    <3>1. k \in Nat /\ samples[k].sent \in Nat
      BY <1>1, <1>m
    <3>2. k \notin T(lo)
      <4> HIDE DEF T
      <4> QED
        BY <1>8, <1>9, <1>m, <3>1
    <3>3. ~(samples[k].sent >= lo)
      BY <3>1, <3>2
    <3> QED
      BY <1>m, <3>1, <3>3
  <2> QED
    BY <2>1, <2>2
<1> HIDE DEF T
<1>11. CASE lo = hi
  BY <1>0, <1>11 DEF b, lo, hi
<1>12. CASE lo < hi /\ p = q
  <2>1. i0 < q
    <3>1. q <= i0 => samples[q].sent <= samples[i0].sent
      BY <1>2, <1>9
    <3>2. ~(samples[q].sent <= samples[i0].sent)
      BY <1>0, <1>1, <1>4, <1>9, <1>12
    <3> QED
      BY <1>0, <1>9, <3>1, <3>2
  <2>2. q - 1 \in 1 .. n /\ (q - 1) + 1 = q /\ q - 1 < q /\ q - 1 < p
    BY <1>0, <1>9, <1>12, <2>1
  <2>3. samples[q - 1].sent < lo /\ samples[q].sent - samples[q - 1].sent <= Interval
    BY <1>3, <1>9, <1>10, <2>2
  <2>4. samples[q - 1].sent \in Nat /\ samples[q].sent \in Nat
    BY <1>1, <1>9, <2>2
  <2>5. b + Interval > hi - lo
    BY <1>0, <1>9, <2>3, <2>4
  <2> QED
    BY <2>5 DEF b, lo, hi
<1>13. CASE lo < hi /\ p < q
  <2>1. q - 1 \in 1 .. n /\ (q - 1) + 1 = q /\ q - 1 < q /\ p <= q - 1
    BY <1>0, <1>9, <1>13
  <2>2. p .. (q - 1) \subseteq LostIn(samples)
    <3> SUFFICES ASSUME NEW k \in p .. (q - 1) PROVE k \in LostIn(samples)
      OBVIOUS
    <3>1. k \in 1 .. n /\ p <= k /\ k < q
      BY <1>0, <1>9, <2>1
    <3>2. samples[k].sent < hi /\ samples[p].sent <= samples[k].sent
      BY <1>2, <1>9, <1>10, <3>1
    <3>3. lo <= samples[k].sent
      BY <1>0, <1>1, <1>9, <3>1, <3>2
    <3> QED
      BY <1>l, <3>1, <3>2, <3>3
  <2>3. LostIn(samples) \subseteq 1 .. n
    BY <1>0 DEF LostIn
  <2>4. PICK x, y \in 1 .. n : IsRun(samples, LostIn(samples), x, y) /\ x <= p /\ q - 1 <= y
    BY <1>9, <2>1, <2>2, <2>3, RunAround DEF n
  <2>5. /\ samples[x].sent \in Nat /\ samples[y].sent \in Nat /\ samples[p].sent \in Nat
        /\ samples[q].sent \in Nat /\ samples[q - 1].sent \in Nat
    BY <1>1, <1>9, <2>1
  <2>6. samples[x].sent <= samples[p].sent /\ samples[q - 1].sent <= samples[y].sent
    BY <1>2, <1>9, <2>1, <2>4
  <2>7. samples[p].sent < hi
    BY <1>9, <1>10, <1>13
  <2>8. samples[q].sent - samples[q - 1].sent <= Interval
    BY <1>3, <1>9, <2>1
  <2>9. samples[p].sent < lo + Interval
    <3>1. CASE p = 1
      <4>1. p <= i0
        BY <1>0, <3>1
      <4>2. samples[p].sent <= samples[i0].sent
        BY <1>2, <1>9, <4>1
      <4>3. samples[i0].sent \in Nat /\ samples[i0].sent <= lo
        BY <1>1, <1>4
      <4>4. Interval \in Nat \ {0} /\ lo \in Nat
        BY <1>0
      <4> QED
        BY <2>5, <4>2, <4>3, <4>4
    <3>2. CASE p # 1
      <4>1. p - 1 \in 1 .. n /\ (p - 1) + 1 = p /\ p - 1 < p
        BY <1>0, <1>9, <3>2
      <4>2. samples[p - 1].sent < lo /\ samples[p].sent - samples[p - 1].sent <= Interval
        BY <1>3, <1>9, <1>10, <4>1
      <4>3. samples[p - 1].sent \in Nat
        BY <1>1, <4>1
      <4> DEFINE sp == samples[p].sent
                 sr == samples[p - 1].sent
      <4>4. sp \in Nat /\ sr \in Nat /\ sr < lo /\ sp - sr <= Interval
        BY <2>5, <4>2, <4>3
      <4>5. Interval \in Nat /\ lo \in Nat
        BY <1>0
      <4> HIDE DEF sp, sr
      <4>6. sp < lo + Interval
        BY <4>4, <4>5
      <4> QED
        BY <4>6 DEF sp
    <3> QED
      BY <3>1, <3>2
  <2>s. /\ samples[y].sent + Interval >= hi
        /\ \A c \in Nat : c >= samples[y].sent - samples[x].sent + Interval
                           => c + Interval > hi - lo
    <3> DEFINE sx == samples[x].sent
               sy == samples[y].sent
               sp == samples[p].sent
               sq == samples[q].sent
               sr == samples[q - 1].sent
    <3>1. /\ sx \in Nat /\ sy \in Nat /\ sp \in Nat /\ sq \in Nat /\ sr \in Nat
          /\ sx <= sp /\ sr <= sy /\ sq - sr <= Interval /\ sq >= hi /\ sp < lo + Interval
      BY <1>9, <2>5, <2>6, <2>8, <2>9
    <3> HIDE DEF sx, sy, sp, sq, sr
    <3>2. sy + Interval >= hi /\ \A c \in Nat : c >= sy - sx + Interval => c + Interval > hi - lo
      <4> HIDE DEF T
      <4>1. Interval \in Nat /\ Interval > 0
        BY IntervalAssumption
      <4> QED
        BY <1>m, <3>1, <4>1
    <3> QED
      BY <3>2 DEF sx, sy
  <2>10. samples[x].sent <= resumeNS /\ samples[y].sent + Interval >= pauseNS
    <3>1. samples[x].sent <= resumeNS
      BY <1>0, <2>5, <2>6, <2>7
    <3>2. samples[y].sent + Interval >= pauseNS
      BY <1>0, <2>5, <2>s
    <3> QED
      BY <3>1, <3>2
  <2>11. b >= Span(samples, x, y)
    BY <2>4, <2>10, BlackoutIs DEF b, n
  <2>12. Span(samples, x, y) = samples[y].sent - samples[x].sent + Interval
    BY DEF Span
  <2>13. b >= samples[y].sent - samples[x].sent + Interval
    BY <2>11, <2>12
  <2>14. b + Interval > hi - lo
    BY <1>0, <2>s, <2>13
  <2> QED
    BY <2>14 DEF b, lo, hi
<1> QED
  BY <1>0, <1>9, <1>11, <1>12, <1>13

(* The figure that is held against the budget covers the outage.           *)
LEMMA OutageFromOrder == Ordered(samples) /\ Bracketed => OutageIsMeasured
<1> SUFFICES ASSUME Ordered(samples), Bracketed, mig = "done"
             PROVE  OutageIsMeasured
  BY DEF OutageIsMeasured
<1>1. blackout(pauseNS, resumeNS) >= down.to - down.from
  <2> DEFINE a == switchoverBlackout(pauseNS, resumeNS)
             b == resumeNS - pauseNS
  <2>1. a \in Nat /\ b \in Nat /\ b >= down.to - down.from
    BY BlackoutIs DEF Bracketed
  <2>2. blackout(pauseNS, resumeNS) = Max({a, b})
    BY DEF blackout
  <2> HIDE DEF a, b
  <2>3. Max({a, b}) \in Nat /\ Max({a, b}) >= b
    BY <2>1, MaxOfTwo
  <2>4. down.to \in Nat /\ down.from \in Nat
    BY DEF Bracketed
  <2> QED
    BY <2>1, <2>2, <2>3, <2>4
<1>2. ( /\ \E i \in DOMAIN samples : samples[i].sent <= down.from
        /\ \E i \in DOMAIN samples : samples[i].sent >= down.to
        /\ MaxSendStallNS(samples) <= Interval
        /\ \A i \in {k \in DOMAIN samples : down.from <= samples[k].sent
                                            /\ samples[k].sent < down.to} : Lost(samples[i]) )
      => switchoverBlackout(pauseNS, resumeNS) + Interval > down.to - down.from
  BY OutageSeen
<1> QED
  BY <1>1, <1>2 DEF OutageIsMeasured

(* Losses elsewhere are not counted.                                       *)
LEMMA BrownoutFromOrder == Ordered(samples) /\ Bracketed => BrownoutExcluded
<1> DEFINE near == {i \in DOMAIN samples : pauseNS - Interval <= samples[i].sent
                                          /\ samples[i].sent <= resumeNS + Interval}
<1> SUFFICES ASSUME Ordered(samples), Bracketed, mig = "done",
                    \A i \in near : ~Lost(samples[i]),
                    NEW i \in near, NEW j \in near,
                    samples[i].sent <= pauseNS, samples[j].sent >= resumeNS,
                    switchoverBlackout(pauseNS, resumeNS) # 0
             PROVE  FALSE
  BY DEF BrownoutExcluded
<1>0. /\ pauseNS \in Nat /\ resumeNS \in Nat /\ pauseNS <= resumeNS
      /\ Interval \in Nat /\ Interval > 0
      /\ DOMAIN samples = 1 .. Len(samples) /\ Len(samples) \in Nat
  BY IntervalAssumption DEF Bracketed, Ordered
<1>1. PICK p, q \in 1 .. Len(samples) :
        /\ IsRun(samples, LostIn(samples), p, q)
        /\ samples[p].sent <= resumeNS /\ samples[q].sent + Interval >= pauseNS
  BY BlackoutIs
<1>2. /\ samples[i].sent \in Nat /\ samples[p].sent \in Nat /\ samples[q].sent \in Nat
      /\ i \in 1 .. Len(samples)
  BY <1>0, SentIs
<1>3. p <= q /\ \A k \in p .. q : k \in DOMAIN samples /\ Lost(samples[k])
  BY <1>1 DEF IsRun, LostIn
<1>4. p \notin near /\ q \notin near
  BY <1>0, <1>1, <1>3
<1>5. samples[p].sent < pauseNS - Interval
  BY <1>0, <1>1, <1>2, <1>4
<1>6. samples[q].sent > resumeNS + Interval
  BY <1>0, <1>1, <1>2, <1>4
<1>7. pauseNS - Interval <= samples[i].sent
  OBVIOUS
<1>8. samples[p].sent < samples[i].sent /\ samples[i].sent < samples[q].sent
  BY <1>0, <1>2, <1>5, <1>6, <1>7
<1>9. p <= i /\ i <= q
  <2>1. i <= p => samples[i].sent <= samples[p].sent
    BY <1>0, <1>1 DEF Ordered
  <2>2. q <= i => samples[q].sent <= samples[i].sent
    BY <1>0, <1>1 DEF Ordered
  <2> QED
    <3> DEFINE si == samples[i].sent
               sp == samples[p].sent
               sq == samples[q].sent
    <3>1. /\ si \in Nat /\ sp \in Nat /\ sq \in Nat /\ sp < si /\ si < sq
          /\ i <= p => si <= sp
          /\ q <= i => sq <= si
      BY <1>2, <1>8, <2>1, <2>2
    <3>2. i \in Nat /\ p \in Nat /\ q \in Nat
      BY <1>0, <1>1, <1>2
    <3> HIDE DEF si, sp, sq
    <3> QED
      BY <3>1, <3>2
<1>10. i \in p .. q
  BY <1>0, <1>1, <1>2, <1>9
<1> QED
  BY <1>3, <1>10

-----------------------------------------------------------------------------
(* The state of a run.                                                     *)

(* Samples are appended in the order of sending; what sendLoop is about to *)
(* append is newer than all of them.                                       *)
SamplesSound ==
  /\ \A i, j \in DOMAIN samples :
       i < j => samples[i].seq < samples[j].seq /\ samples[i].sent <= samples[j].sent
  /\ \A i \in DOMAIN samples :
       samples[i].sent <= stamp /\ (spc # "wait" => samples[i].seq < seq)
  /\ stamp <= now
  /\ spc # "wait" => stamp >= 1 /\ seq >= 1

(* Whatever is in flight or was answered has its sample or is about to     *)
(* have it, and in that case its answer came early.                        *)
Accounted ==
  /\ \A s \in air \cup back \cup answered :
       (\E i \in DOMAIN samples : samples[i].seq = s) \/ (spc = "written" /\ s = seq)
  /\ (spc = "written" /\ seq \in answered) => seq \in early

(* The marks and the outage, as far as the switchover has come.            *)
SwitchSound ==
  /\ mig # "before" => pauseNS <= now
  /\ mig \in {"stopped", "loaded", "done"} => pauseNS <= down.from /\ down.from <= now
  /\ mig \in {"loaded", "done"} => down.from <= down.to /\ down.to <= now
  /\ mig = "done" => down.to <= resumeNS

IInv == TypeOK /\ SamplesSound /\ Accounted /\ SwitchSound /\ LossIsReal

(* No probe, no sample, no switchover at the start.                        *)
LEMMA IInvInit == Init => IInv
<1> SUFFICES ASSUME Init PROVE IInv
  OBVIOUS
<1> USE DEF Init
<1>1. TypeOK
  <2>1. samples \in Seq(Records)
    OBVIOUS
  <2>2. down \in [from : 0 .. MaxTime, to : 0 .. MaxTime] /\ now \in 1 .. MaxTime
    BY BoundsAssumption
  <2> QED
    BY <2>1, <2>2, BoundsAssumption DEF TypeOK
<1>2. DOMAIN samples = {}
  OBVIOUS
<1> QED
  BY <1>1, <1>2 DEF IInv, SamplesSound, Accounted, SwitchSound, LossIsReal

(* The clock and the marks touch no sample.                                *)
LEMMA ClockStep ==
  ASSUME IInv, UNCHANGED <<sendVars, samples, netVars, history>>,
         now' \in 1 .. MaxTime, now' >= now, tick' \in BOOLEAN,
         mig' \in {"before", "marked", "stopped", "loaded", "done"},
         pauseNS' \in 0 .. MaxTime, resumeNS' \in 0 .. MaxTime,
         down' \in [from : 0 .. MaxTime, to : 0 .. MaxTime], SwitchSound'
  PROVE  IInv'
<1> USE DEF IInv, sendVars, netVars, history
<1>1. TypeOK'
  <2>1. Seqs' = Seqs /\ Records' = Records
    BY DEF Seqs, Records
  <2> QED
    BY <2>1 DEF TypeOK
<1>2. SamplesSound'
  <2>1. stamp \in Nat /\ now \in Nat /\ now' \in Nat
    BY BoundsAssumption DEF TypeOK
  <2>2. stamp' <= now'
    BY <2>1 DEF SamplesSound
  <2> QED
    BY <2>2 DEF SamplesSound
<1>3. Accounted' /\ LossIsReal'
  BY DEF Accounted, LossIsReal
<1> QED
  BY <1>1, <1>2, <1>3

(* sendLoop takes a tick.                                                  *)
LEMMA TakeTickStep ==
  ASSUME IInv, TakeTick
  PROVE  IInv'
<1> USE DEF IInv, TakeTick, netVars, guestVars, history
<1>0. /\ seq \in Nat /\ seq' = seq + 1 /\ stamp' = now /\ spc = "wait" /\ spc' = "stamped"
      /\ now \in 1 .. MaxTime /\ now' = now /\ samples' = samples /\ MaxTime \in Nat
      /\ stamp \in Nat /\ stamp <= now
  BY BoundsAssumption DEF TypeOK, SamplesSound
<1>1. Seqs \subseteq Seqs' /\ seq' \notin Seqs
  BY <1>0 DEF Seqs
<1>2. samples \in Seq(Records) /\ Records \subseteq Records'
  <2>1. Records \subseteq Records'
    BY <1>1 DEF Records
  <2> QED
    BY <2>1 DEF TypeOK
<1>3. samples \in Seq(Records')
  <2> PICK A, B : A = Records /\ B = Records'
    OBVIOUS
  <2>1. samples \in Seq(A) /\ A \subseteq B
    BY <1>2
  <2>2. samples \in Seq(B)
    BY <2>1
  <2> QED
    BY <2>2
<1>4. TypeOK'
  <2>1. seq' \in Nat /\ stamp' \in 0 .. MaxTime
    BY <1>0
  <2>2. /\ air' \subseteq Seqs' /\ back' \subseteq Seqs'
        /\ early' \cup old' \cup answered' \subseteq Seqs'
    BY <1>1 DEF TypeOK
  <2>3. samples' \in Seq(Records')
    BY <1>3
  <2> QED
    BY <1>0, <2>1, <2>2, <2>3 DEF TypeOK
<1>5. \A i \in DOMAIN samples : samples[i].seq \in Seqs /\ samples[i].sent \in Nat
  <2>1. \A i \in DOMAIN samples : samples[i] \in Records
    BY <1>2
  <2> QED
    BY <2>1 DEF Records
<1>6. SamplesSound'
  <2>1. \A i \in DOMAIN samples : samples[i].sent <= stamp'
    BY <1>0, <1>5 DEF SamplesSound
  <2>2. \A i \in DOMAIN samples : samples[i].seq < seq'
    BY <1>0, <1>5 DEF Seqs
  <2>3. stamp' <= now' /\ stamp' >= 1 /\ seq' >= 1
    BY <1>0
  <2> QED
    BY <1>0, <2>1, <2>2, <2>3 DEF SamplesSound
<1>7. Accounted' /\ LossIsReal'
  BY <1>0 DEF Accounted, LossIsReal
<1>8. SwitchSound'
  BY DEF SwitchSound
<1> QED
  BY <1>4, <1>6, <1>7, <1>8

(* The probe goes out, or not.                                             *)
LEMMA WriteStep ==
  ASSUME IInv, Write
  PROVE  IInv'
<1> USE DEF IInv, Write, clockVars, guestVars, history
<1>0. /\ seq \in Nat /\ seq >= 1 /\ seq' = seq /\ spc = "stamped" /\ spc' \in {"written", "wait"}
      /\ samples' = samples /\ Seqs' = Seqs /\ air \subseteq Seqs
  BY DEF TypeOK, SamplesSound, Seqs
<1>1. air' \subseteq Seqs /\ air' \subseteq air \cup {seq} /\ (spc' = "wait" => air' = air)
  <2>1. seq \in Seqs
    BY <1>0 DEF Seqs
  <2> QED
    BY <1>0, <2>1
<1>2. TypeOK'
  <2>1. Records' = Records
    BY <1>0 DEF Records
  <2> QED
    BY <1>0, <1>1, <2>1 DEF TypeOK
<1>3. SamplesSound'
  BY <1>0 DEF SamplesSound
<1>4. seq \notin air \cup back \cup answered
  <2> SUFFICES ASSUME NEW i \in DOMAIN samples, samples[i].seq = seq PROVE FALSE
    BY <1>0 DEF Accounted
  <2> QED
    BY <1>0 DEF SamplesSound
<1>5. Accounted'
  BY <1>0, <1>1, <1>4 DEF Accounted
<1>6. LossIsReal' /\ SwitchSound'
  BY <1>0 DEF LossIsReal, SwitchSound
<1> QED
  BY <1>2, <1>3, <1>5, <1>6

(* The sample is appended, whether or not its reply came.                  *)
LEMMA AppendStep ==
  ASSUME IInv, AppendSample
  PROVE  IInv'
<1> USE DEF IInv, AppendSample, clockVars, netVars, guestVars, history
<1> DEFINE new == [seq |-> seq, sent |-> stamp, recv |-> 0]
           n == Len(samples)
<1>0. /\ seq \in Nat /\ seq >= 1 /\ seq' = seq /\ spc = "written" /\ spc' = "wait"
      /\ stamp \in 1 .. MaxTime /\ stamp' = stamp /\ Seqs' = Seqs /\ MaxTime \in Nat
      /\ samples \in Seq(Records) /\ samples' = Append(samples, new)
  BY BoundsAssumption DEF TypeOK, SamplesSound, Seqs
<1>1. /\ new \in Records /\ new.seq = seq /\ new.sent = stamp /\ new.recv = 0
  BY <1>0 DEF Records, Seqs
<1>2. /\ samples' \in Seq(Records) /\ n \in Nat /\ DOMAIN samples = 1 .. n
      /\ DOMAIN samples' = 1 .. n + 1 /\ samples'[n + 1] = new
      /\ \A i \in 1 .. n : samples'[i] = samples[i]
  <2> HIDE DEF new, Records
  <2> QED
    BY <1>0, <1>1
<1> HIDE DEF new, n
<1>3. \A i \in DOMAIN samples' : i = n + 1 \/ i \in DOMAIN samples
  BY <1>2
<1>4. TypeOK'
  <2>1. Records' = Records
    BY <1>0 DEF Records
  <2> QED
    BY <1>0, <1>2, <2>1 DEF TypeOK
<1>5. SamplesSound'
  <2>1. ASSUME NEW i \in DOMAIN samples', NEW j \in DOMAIN samples', i < j
        PROVE  samples'[i].seq < samples'[j].seq /\ samples'[i].sent <= samples'[j].sent
    <3>1. i \in DOMAIN samples
      BY <1>2, <2>1
    <3>2. CASE j = n + 1
      BY <1>0, <1>1, <1>2, <3>1, <3>2 DEF SamplesSound
    <3>3. CASE j \in DOMAIN samples
      BY <1>2, <2>1, <3>1, <3>3 DEF SamplesSound
    <3> QED
      BY <1>3, <3>2, <3>3
  <2>2. stamp <= stamp
    BY <1>0
  <2>3. \A i \in DOMAIN samples' : samples'[i].sent <= stamp
    BY <1>0, <1>1, <1>2, <1>3, <2>2 DEF SamplesSound
  <2> QED
    BY <1>0, <2>1, <2>3 DEF SamplesSound
<1>6. Accounted'
  <2>1. n + 1 \in DOMAIN samples'
    BY <1>2
  <2>2. ASSUME NEW s \in air \cup back \cup answered PROVE \E i \in DOMAIN samples' : samples'[i].seq = s
    <3>1. CASE s = seq
      BY <1>1, <1>2, <2>1, <3>1
    <3>2. CASE \E i \in DOMAIN samples : samples[i].seq = s
      BY <1>2, <3>2
    <3> QED
      BY <3>1, <3>2 DEF Accounted
  <2> QED
    BY <1>0, <2>2 DEF Accounted
<1>7. LossIsReal'
  <2> SUFFICES ASSUME NEW i \in DOMAIN samples', Lost(samples'[i]), samples'[i].seq \in answered
               PROVE  samples'[i].seq \in early \cup old
    BY DEF LossIsReal, Lost
  <2>1. CASE i = n + 1
    BY <1>0, <1>1, <1>2, <2>1 DEF Accounted
  <2>2. CASE i \in DOMAIN samples
    BY <1>2, <2>2 DEF LossIsReal
  <2> QED
    BY <1>3, <2>1, <2>2
<1>8. SwitchSound'
  BY DEF SwitchSound
<1> QED
  BY <1>4, <1>5, <1>6, <1>7, <1>8

(* The guest answers.                                                      *)
LEMMA EchoStep ==
  ASSUME IInv, NEW s \in Seqs, Echo(s)
  PROVE  IInv'
<1> USE DEF IInv, Echo, clockVars, sendVars, guestVars, history
<1>1. Seqs' = Seqs /\ Records' = Records
  BY DEF Seqs, Records
<1>2. TypeOK'
  BY <1>1 DEF TypeOK
<1>3. SamplesSound' /\ LossIsReal' /\ SwitchSound'
  BY DEF SamplesSound, LossIsReal, SwitchSound
<1>4. Accounted'
  BY DEF Accounted
<1> QED
  BY <1>2, <1>3, <1>4

(* A reply is booked, or comes too early or too late to be.                *)
LEMMA RecvStep ==
  ASSUME IInv, NEW s \in Seqs, Recv(s)
  PROVE  IInv'
<1> USE DEF IInv, clockVars, sendVars, guestVars
<1> DEFINE n == Len(samples)
           hit(i) == i \in Scanned /\ samples[i].seq = s
<1>0. /\ s \in back /\ back' = back \ {s} /\ answered' = answered \cup {s}
      /\ early \subseteq early' /\ early' \subseteq early \cup {s}
      /\ old \subseteq old' /\ old' \subseteq old \cup {s}
      /\ (spc = "written" /\ s = seq) => s \in early'
      /\ now \in 1 .. MaxTime /\ MaxTime \in Nat
      /\ UNCHANGED <<now, tick, spc, seq, stamp, air, mig, pauseNS, resumeNS, down>>
  BY BoundsAssumption DEF Recv, TypeOK
<1>1. /\ samples \in Seq(Records) /\ n \in Nat /\ DOMAIN samples = 1 .. n
      /\ samples' = [i \in 1 .. n |->
           IF hit(i) THEN [samples[i] EXCEPT !.recv = now] ELSE samples[i]]
  BY DEF Recv, TypeOK
<1>2. ASSUME NEW i \in 1 .. n
      PROVE  /\ samples[i] \in Records /\ samples'[i] \in Records
             /\ samples'[i].seq = samples[i].seq /\ samples'[i].sent = samples[i].sent
             /\ samples'[i].recv = IF hit(i) THEN now ELSE samples[i].recv
  <2>1. samples[i] \in Records
    BY <1>1
  <2> HIDE DEF hit
  <2>2. samples'[i] = IF hit(i) THEN [samples[i] EXCEPT !.recv = now] ELSE samples[i]
    BY <1>1
  <2> QED
    BY <1>0, <2>1, <2>2 DEF Records
<1>3. samples' \in Seq(Records) /\ DOMAIN samples' = 1 .. n
  <2>1. samples' \in [1 .. n -> Records]
    <3> HIDE DEF hit, n, Records
    <3> QED
      BY <1>1, <1>2
  <2> HIDE DEF n, Records
  <2> QED
    BY <1>1, <2>1
<1>4. Seqs' = Seqs /\ Records' = Records
  BY <1>0 DEF Seqs, Records
<1> HIDE DEF hit, n
<1>5. TypeOK'
  BY <1>0, <1>3, <1>4 DEF TypeOK
<1>6. SamplesSound'
  BY <1>0, <1>1, <1>2, <1>3 DEF SamplesSound
<1>7. Accounted'
  <2>1. \A x \in air' \cup back' \cup answered' : x \in air \cup back \cup answered
    BY <1>0
  <2>2. \A x \in air \cup back \cup answered :
          (\E i \in DOMAIN samples' : samples'[i].seq = x) \/ (spc' = "written" /\ x = seq')
    BY <1>0, <1>1, <1>2, <1>3 DEF Accounted
  <2>3. (spc' = "written" /\ seq' \in answered') => seq' \in early'
    BY <1>0 DEF Accounted
  <2> QED
    BY <2>1, <2>2, <2>3 DEF Accounted
<1>8. LossIsReal'
  <2> SUFFICES ASSUME NEW i \in 1 .. n, samples'[i].recv = 0, samples[i].seq \in answered'
               PROVE  samples[i].seq \in early' \cup old'
    BY <1>2, <1>3 DEF LossIsReal, Lost
  <2>1. ~hit(i) /\ samples[i].recv = 0
    BY <1>0, <1>2
  <2>2. CASE samples[i].seq # s
    BY <1>0, <1>1, <2>1, <2>2 DEF LossIsReal, Lost
  <2>3. CASE samples[i].seq = s
    <3>1. ~(i > n - ScanLimit)
      BY <1>1, <2>1, <2>3 DEF hit, Scanned, n
    <3> DEFINE newer == {k \in DOMAIN samples : samples[k].seq > s}
    <3>2. (i + 1) .. n \subseteq newer
      <4> SUFFICES ASSUME NEW k \in (i + 1) .. n PROVE k \in newer
        OBVIOUS
      <4>1. k \in 1 .. n /\ i < k
        BY <1>1
      <4>2. samples[i].seq < samples[k].seq
        BY <1>1, <4>1 DEF SamplesSound
      <4>3. samples[i].seq \in Nat /\ samples[k].seq \in Nat
        BY <1>2, <4>1 DEF Records, Seqs
      <4> QED
        BY <1>1, <2>3, <4>1, <4>2, <4>3
    <3>3. IsFiniteSet(newer)
      <4>1. newer \in SUBSET (1 .. n)
        BY <1>1
      <4> HIDE DEF newer
      <4>2. 1 \in Int /\ n \in Int
        BY <1>1
      <4>3. IsFiniteSet(1 .. n)
        BY <4>2, FS_Interval
      <4> QED
        BY <4>1, <4>3, FS_Subset
    <3>4. Cardinality((i + 1) .. n) <= Cardinality(newer)
      <4> HIDE DEF newer
      <4> QED
        BY <3>2, <3>3, FS_Subset
    <3>5. Cardinality(newer) \in Nat
      <4> HIDE DEF newer
      <4> QED
        BY <3>3, FS_CardinalityType
    <3>6. Cardinality((i + 1) .. n) = IF i + 1 > n THEN 0 ELSE n - (i + 1) + 1
      <4>1. i + 1 \in Int /\ n \in Int
        BY <1>1
      <4> QED
        BY <4>1, FS_Interval
    <3> HIDE DEF newer
    <3>7. Cardinality(newer) >= ScanLimit
      <4>1. n - i <= Cardinality(newer)
        BY <1>1, <3>4, <3>5, <3>6
      <4> QED
        BY <1>1, <3>1, <3>5, <4>1, BoundsAssumption
    <3>8. s \in old'
      BY <3>7 DEF Recv, newer
    <3> QED
      BY <2>3, <3>8
  <2> QED
    BY <2>2, <2>3
<1>9. SwitchSound'
  BY <1>0 DEF SwitchSound
<1> QED
  BY <1>5, <1>6, <1>7, <1>8, <1>9

(* Every step keeps the account.                                           *)
LEMMA IInvStep == IInv /\ [Next]_vars => IInv'
<1> SUFFICES ASSUME IInv, [Next]_vars PROVE IInv'
  OBVIOUS
<1>0. /\ MaxTime \in Nat /\ now \in 1 .. MaxTime /\ now \in 0 .. MaxTime /\ tick \in BOOLEAN
      /\ pauseNS \in 0 .. MaxTime /\ resumeNS \in 0 .. MaxTime
      /\ down \in [from : 0 .. MaxTime, to : 0 .. MaxTime]
      /\ down.from \in 0 .. MaxTime /\ down.to \in 0 .. MaxTime /\ SwitchSound
  BY BoundsAssumption DEF IInv, TypeOK
<1> USE DEF sendVars, netVars, history, guestVars, clockVars
<1>1. CASE Clock
  <2>1. now' = now + 1 /\ now' \in 1 .. MaxTime /\ now' >= now /\ tick' \in BOOLEAN
    BY <1>0, <1>1 DEF Clock
  <2>2. SwitchSound'
    BY <1>0, <1>1, <2>1 DEF Clock, SwitchSound
  <2> QED
    BY <1>0, <1>1, <2>1, <2>2, ClockStep DEF Clock, IInv, TypeOK
<1>2. CASE MarkPause
  <2>1. SwitchSound'
    BY <1>0, <1>2 DEF MarkPause, SwitchSound
  <2>2. now' >= now
    BY <1>0, <1>2 DEF MarkPause
  <2> QED
    BY <1>0, <1>2, <2>1, <2>2, ClockStep DEF MarkPause
<1>3. CASE Pause
  <2>0. /\ down' = [down EXCEPT !.from = now] /\ down'.from = now /\ down'.to = down.to
        /\ down' \in [from : 0 .. MaxTime, to : 0 .. MaxTime]
    BY <1>0, <1>3 DEF Pause
  <2>1. SwitchSound'
    BY <1>0, <1>3, <2>0 DEF Pause, SwitchSound
  <2>2. now' >= now
    BY <1>0, <1>3 DEF Pause
  <2> QED
    BY <1>0, <1>3, <2>0, <2>1, <2>2, ClockStep DEF Pause
<1>4. CASE LoadSnapshot
  <2>0. /\ down' = [down EXCEPT !.to = now] /\ down'.to = now /\ down'.from = down.from
        /\ down' \in [from : 0 .. MaxTime, to : 0 .. MaxTime]
    BY <1>0, <1>4 DEF LoadSnapshot
  <2>1. SwitchSound'
    BY <1>0, <1>4, <2>0 DEF LoadSnapshot, SwitchSound
  <2>2. now' >= now
    BY <1>0, <1>4 DEF LoadSnapshot
  <2> QED
    BY <1>0, <1>4, <2>0, <2>1, <2>2, ClockStep DEF LoadSnapshot
<1>5. CASE MarkResumed
  <2>1. SwitchSound'
    BY <1>0, <1>5 DEF MarkResumed, SwitchSound
  <2>2. now' >= now
    BY <1>0, <1>5 DEF MarkResumed
  <2> QED
    BY <1>0, <1>5, <2>1, <2>2, ClockStep DEF MarkResumed
<1>6. CASE UNCHANGED vars
  <2>1. SwitchSound' /\ now' >= now
    BY <1>0, <1>6 DEF vars, SwitchSound
  <2> QED
    BY <1>0, <1>6, <2>1, ClockStep DEF vars, IInv, TypeOK
<1> QED
  BY <1>1, <1>2, <1>3, <1>4, <1>5, <1>6, TakeTickStep, WriteStep, AppendStep, EchoStep, RecvStep
  DEF Next

(* The invariant gives the order and the bracket that the figures need.    *)
LEMMA IInvOrders == IInv => Ordered(samples) /\ Bracketed
<1> SUFFICES ASSUME IInv PROVE Ordered(samples) /\ Bracketed
  OBVIOUS
<1> USE DEF IInv
<1>0. samples \in Seq(Records) /\ MaxTime \in Nat /\ seq \in Nat
  BY BoundsAssumption DEF TypeOK
<1>1. Records \subseteq Sample
  BY <1>0 DEF Records, Sample, Seqs
<1>2. samples \in Seq(Sample)
  <2> HIDE DEF Records, Sample
  <2> QED
    BY <1>0, <1>1
<1>3. \A i, j \in DOMAIN samples : i <= j => samples[i].sent <= samples[j].sent
  <2> SUFFICES ASSUME NEW i \in DOMAIN samples, NEW j \in DOMAIN samples, i <= j
               PROVE  samples[i].sent <= samples[j].sent
    OBVIOUS
  <2>1. samples[i] \in Sample /\ i \in Nat /\ j \in Nat
    BY <1>2
  <2>2. samples[i].sent \in Nat
    BY <2>1 DEF Sample
  <2>3. CASE i = j
    BY <2>2, <2>3
  <2>4. CASE i < j
    BY <2>4 DEF SamplesSound
  <2> QED
    BY <2>1, <2>3, <2>4
<1>4. Bracketed
  <2>1. /\ pauseNS \in Nat /\ resumeNS \in Nat /\ down.from \in Nat /\ down.to \in Nat
    BY <1>0 DEF TypeOK
  <2> QED
    BY <2>1 DEF Bracketed, SwitchSound
<1> QED
  BY <1>2, <1>3, <1>4 DEF Ordered

(* The account holds throughout a run.                                     *)
THEOREM Invariance == Spec => []IInv
BY IInvInit, IInvStep, PTL DEF Spec

(* The prober's variables keep their types: no time stamp, sequence number *)
(* or sample is out of range.                                              *)
THEOREM TypeCorrect == Spec => []TypeOK
<1>1. IInv => TypeOK
  BY DEF IInv
<1> QED
  BY <1>1, Invariance, PTL

(* recvLoop books every reply but the early and the very late ones: what   *)
(* stats counts as lost was not answered in time.                          *)
THEOREM LossesAreReal == Spec => []LossIsReal
<1>1. IInv => LossIsReal
  BY DEF IInv
<1> QED
  BY <1>1, Invariance, PTL

(* The one-pass loops of stats find the longest run of lost, and of lost   *)
(* or slow, probes of any window.                                          *)
THEOREM FiguresAreExact == Spec => []FiguresExact
<1>1. IInv => FiguresExact
  BY IInvOrders, FiguresFromOrder
<1> QED
  BY <1>1, Invariance, PTL

(* The figure that runBench and printMigration hold against the budget     *)
(* never understates the outage, and the client's own view of it falls     *)
(* short by less than one interval.                                        *)
THEOREM OutageMeasured == Spec => []OutageIsMeasured
<1>1. IInv => OutageIsMeasured
  BY IInvOrders, OutageFromOrder
<1> QED
  BY <1>1, Invariance, PTL

(* switchoverBlackout counts no loss that is not at the switchover.        *)
THEOREM BrownoutNotCounted == Spec => []BrownoutExcluded
<1>1. IInv => BrownoutExcluded
  BY IInvOrders, BrownoutFromOrder
<1> QED
  BY <1>1, Invariance, PTL
=============================================================================
