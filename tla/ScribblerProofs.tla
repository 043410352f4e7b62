-------------------------- MODULE ScribblerProofs ---------------------------
(***************************************************************************)
(* What the guest's memory check shows, for every buffer, write rate,      *)
(* sample size and number of iterations.  Nothing is used of the keystream *)
(* but that it is a function of page, iteration and position.              *)
(***************************************************************************)
EXTENDS Scribbler, TLAPS

(* The header of a page names the page and the iteration.                  *)
LEMMA HeaderWords ==
  ASSUME NEW p \in Pages, NEW i \in Nat
  PROVE  /\ 1 \in Words /\ 2 \in Words
         /\ WordAt(p, i, 1) = p /\ WordAt(p, i, 2) = i
         /\ \A w \in Words : WordAt(p, i, w) \in Int
         /\ PageAt(p, i) \in [Words -> Int]
         /\ \A w \in Words : PageAt(p, i)[w] = WordAt(p, i, w)
<1>1. 1 \in Words /\ 2 \in Words /\ \A w \in Words : w \in Int
  BY CountsAssumption DEF Words
<1>2. p \in Int
  BY PagesAssumption
<1>3. WordAt(p, i, 1) = p /\ WordAt(p, i, 2) = i
  BY DEF WordAt
<1>4. ASSUME NEW w \in Words PROVE WordAt(p, i, w) \in Int
  <2>1. p * (MaxIter + 1) \in Int
    BY <1>2, CountsAssumption
  <2>2. (p * (MaxIter + 1) + i) * (KWords + 3) \in Int
    BY <2>1, CountsAssumption
  <2>3. Keystream(p, i, w) \in Int
    BY <1>1, <2>2 DEF Keystream
  <2> QED
    BY <1>2, <2>3 DEF WordAt
<1> HIDE DEF Words, WordAt
<1> QED
  BY <1>1, <1>3, <1>4 DEF PageAt

(* An intact page is the complete write its header names.                  *)
LEMMA IntactIsWhole ==
  ASSUME NEW p \in Pages, NEW page \in [Words -> Int], page[2] \in 0 .. iter,
         iter \in Nat, Intact(p, page)
  PROVE  page = PageAt(p, page[2])
<1>1. page[2] \in Nat
  OBVIOUS
<1>2. \A w \in Words : page[w] = PageAt(p, page[2])[w]
  BY <1>1, HeaderWords DEF Intact
<1> QED
  BY <1>1, <1>2, HeaderWords

(* A complete write verifies.                                              *)
LEMMA WholeIsIntact ==
  ASSUME NEW p \in Pages, NEW i \in Nat
  PROVE  Intact(p, PageAt(p, i))
<1>1. PageAt(p, i)[1] = p /\ PageAt(p, i)[2] = i
  BY HeaderWords
<1> QED
  BY <1>1, HeaderWords DEF Intact

(* writePage, one word at a time.                                          *)
LEMMA StoreStep == IInv /\ StoreWord => IInv'
<1> SUFFICES ASSUME IInv, StoreWord PROVE IInv'
  OBVIOUS
<1> USE DEF IInv, StoreWord
<1>0. /\ cur \in Pages /\ pos \in Words /\ iter \in Nat /\ spc = "writePage"
      /\ buf \in [Pages -> [Words -> Int]]
  BY CountsAssumption DEF TypeOK
<1>1. /\ WordAt(cur, iter, pos) \in Int
      /\ WordAt(cur, iter, 2) = iter
      /\ 1 \in Words /\ 2 \in Words
  BY <1>0, HeaderWords
<1>2. /\ buf' \in [Pages -> [Words -> Int]]
      /\ buf'[cur][pos] = WordAt(cur, iter, pos)
      /\ \A w \in Words : w # pos => buf'[cur][w] = buf[cur][w]
      /\ \A p \in Pages : p # cur => buf'[p] = buf[p]
  BY <1>0, <1>1
<1>3. TypeOK'
  BY <1>1, <1>2 DEF TypeOK
<1>4. HeadersPast'
  <2>1. buf'[cur][2] \in 0 .. iter
    BY <1>0, <1>1, <1>2 DEF HeadersPast
  <2> QED
    BY <1>2, <2>1 DEF HeadersPast
<1>5. NoFalseAlarm'
  BY DEF NoFalseAlarm
<1>6. CheckedPagesAreWhole'
  BY <1>2 DEF CheckedPagesAreWhole, TypeOK
<1>7. Undamaged'
  <2> SUFFICES ASSUME damage = {}, NEW p \in Pages
               PROVE  (IF spc = "writePage" /\ p = cur THEN HalfWritten(p) ELSE Whole(p))'
    BY DEF Undamaged
  <2>1. CASE p # cur
    BY <1>0, <1>2, <2>1 DEF Undamaged, Whole
  <2>2. CASE p = cur
    <3> PICK i \in 0 .. iter : \A w \in Words :
          buf[cur][w] = WordAt(cur, IF w < pos THEN iter ELSE i, w)
      BY <1>0, <2>2 DEF Undamaged, HalfWritten
    <3>1. \A w \in Words :
            buf'[cur][w] = WordAt(cur, IF w < pos + 1 THEN iter ELSE i, w)
      <4> TAKE w \in Words
      <4>1. w \in Int /\ pos \in Int
        BY <1>0, CountsAssumption DEF Words
      <4>2. CASE w = pos
        BY <1>2, <4>1, <4>2
      <4>3. CASE w # pos
        <5>1. (w < pos + 1) <=> (w < pos)
          BY <4>1, <4>3
        <5> QED
          BY <1>2, <4>3, <5>1
      <4> QED
        BY <4>2, <4>3
    <3>2. CASE pos + 1 \in Words
      <4>1. pos' = pos + 1 /\ spc' = "writePage" /\ iter' = iter /\ cur' = cur
        BY <1>0, <3>2
      <4> QED
        BY <2>2, <3>1, <4>1 DEF HalfWritten
    <3>3. CASE pos + 1 \notin Words
      <4>1. spc' = "writes" /\ iter' = iter /\ cur' = cur
        BY <3>3
      <4>2. \A w \in Words : w < pos + 1
        BY <1>0, <3>3, CountsAssumption DEF Words
      <4>3. \A w \in Words : buf'[cur][w] = PageAt(cur, iter)[w]
        BY <1>0, <3>1, <4>2, HeaderWords
      <4>4. buf'[cur] = PageAt(cur, iter)
        BY <1>0, <1>2, <4>3, HeaderWords
      <4>5. iter \in 0 .. iter
        BY <1>0
      <4> QED
        BY <2>2, <4>1, <4>4, <4>5 DEF Whole
    <3> QED
      BY <3>2, <3>3
  <2> QED
    BY <2>1, <2>2
<1> QED
  BY <1>3, <1>4, <1>5, <1>6, <1>7

(* verifyPage runs between two writes, so an undamaged page verifies; and  *)
(* a page that verifies is whole.                                          *)
LEMMA VerifyStep ==
  ASSUME IInv, NEW p \in Pages, VerifyPage(p)
  PROVE  IInv'
<1> USE DEF IInv, VerifyPage
<1>0. /\ iter \in Nat /\ buf[p] \in [Words -> Int] /\ buf[p][2] \in 0 .. iter
      /\ spc = "verifies" /\ errors \in Nat
  BY DEF TypeOK, HeadersPast
<1>1. TypeOK' /\ HeadersPast'
  BY DEF TypeOK, HeadersPast
<1>2. Undamaged'
  BY DEF Undamaged, Whole, HalfWritten
<1>3. NoFalseAlarm'
  <2> SUFFICES ASSUME damage = {} PROVE Intact(p, buf[p])
    BY DEF NoFalseAlarm
  <2> PICK i \in 0 .. iter : buf[p] = PageAt(p, i)
    BY <1>0 DEF Undamaged, Whole
  <2>1. i \in Nat
    OBVIOUS
  <2> QED
    BY <2>1, WholeIsIntact
<1>4. CheckedPagesAreWhole'
  <2> SUFFICES ASSUME errors' = 0, NEW q \in checked'
               PROVE  \E i \in 0 .. iter : buf[q] = PageAt(q, i)
    BY DEF CheckedPagesAreWhole
  <2>1. errors = 0 /\ Intact(p, buf[p])
    BY <1>0
  <2>2. CASE q \in checked
    BY <2>1, <2>2 DEF CheckedPagesAreWhole
  <2>3. CASE q = p
    BY <1>0, <2>1, <2>3, IntactIsWhole
  <2> QED
    BY <2>2, <2>3
<1> QED
  BY <1>1, <1>2, <1>3, <1>4

(* A faulty restore can only bring back words that the buffer or an older  *)
(* image holds, or zeroes.                                                 *)
LEMMA DamageStep ==
  ASSUME IInv, NEW kind \in Damages, NEW p \in Pages, RestoreDamaged(kind, p)
  PROVE  IInv'
<1> USE DEF IInv, RestoreDamaged
<1> PICK page \in Damaged(kind, p) : buf' = [buf EXCEPT ![p] = page]
  OBVIOUS
<1>0. /\ iter \in Nat /\ 2 \in Words /\ 0 \in 0 .. iter
      /\ buf \in [Pages -> [Words -> Int]] /\ base \in [Pages -> [Words -> Int]]
      /\ \A q \in Pages : buf[q][2] \in 0 .. iter /\ base[q][2] \in 0 .. iter
  BY CountsAssumption DEF TypeOK, HeadersPast, Words
<1>1. page \in [Words -> Int] /\ page[2] \in 0 .. iter
  <2>1. CASE kind = "torn"
    <3> PICK s \in SUBSET Words :
          page = [w \in Words |-> IF w \in s THEN base[p][w] ELSE buf[p][w]]
      BY <2>1 DEF Damaged
    <3> QED
      BY <1>0
  <2>2. CASE kind = "lost"
    BY <1>0, <2>2 DEF Damaged
  <2>3. CASE kind = "zeroed"
    BY <1>0, <2>3 DEF Damaged, ZeroPage
  <2>4. CASE kind = "moved"
    BY <1>0, <2>4 DEF Damaged
  <2> QED
    BY <2>1, <2>2, <2>3, <2>4, DamagesAssumption
<1>2. /\ buf' \in [Pages -> [Words -> Int]] /\ buf'[p] = page
      /\ \A q \in Pages : q # p => buf'[q] = buf[q]
  BY <1>0, <1>1
<1>3. TypeOK' /\ HeadersPast'
  BY <1>1, <1>2 DEF TypeOK, HeadersPast
<1>4. Undamaged' /\ NoFalseAlarm'
  BY DEF Undamaged, NoFalseAlarm
<1>5. CheckedPagesAreWhole'
  BY <1>2 DEF CheckedPagesAreWhole, TypeOK
<1> QED
  BY <1>3, <1>4, <1>5

(* The invariant is inductive: one step per action.                        *)
LEMMA IInvStep == IInv /\ [Next]_vars => IInv'
<1> SUFFICES ASSUME IInv, [Next]_vars PROVE IInv'
  OBVIOUS
<1>0. iter \in Nat /\ 1 \in Words
  BY CountsAssumption DEF IInv, TypeOK, Words
<1>1. CASE StoreWord
  BY <1>1, StoreStep
<1>2. ASSUME NEW p \in Pages, VerifyPage(p) PROVE IInv'
  BY <1>2, VerifyStep
<1>3. ASSUME NEW kind \in Damages, NEW p \in Pages, RestoreDamaged(kind, p) PROVE IInv'
  BY <1>3, DamageStep
<1> USE DEF IInv, NoFalseAlarm
<1>4. CASE NextIteration
  <2>1. iter' = iter + 1 /\ iter' \in 0 .. MaxIter /\ PerMS(rate) \in Nat
    <3>1. rate \in Nat
      BY RatesAssumption DEF TypeOK
    <3>2. PerMS(rate) \in Nat
      BY <3>1 DEF PerMS
    <3> QED
      BY <1>0, <1>4, <3>2, CountsAssumption DEF NextIteration, TypeOK
  <2>2. 0 .. iter \subseteq 0 .. iter'
    BY <1>0, <2>1
  <2>3. TypeOK'
    BY <1>4, <2>1 DEF NextIteration, TypeOK
  <2>4. Undamaged'
    BY <1>4, <2>2 DEF NextIteration, Undamaged, Whole
  <2> QED
    BY <1>4, <2>2, <2>3, <2>4 DEF NextIteration, HeadersPast, CheckedPagesAreWhole
<1>5. ASSUME NEW p \in Pages, StartWrite(p) PROVE IInv'
  <2>1. TypeOK' /\ HeadersPast' /\ CheckedPagesAreWhole'
    BY <1>0, <1>5 DEF StartWrite, TypeOK, HeadersPast, CheckedPagesAreWhole
  <2>2. ASSUME NEW q \in Pages, Whole(q) PROVE Whole(q)' /\ HalfWritten(q)'
    <3> PICK i \in 0 .. iter : buf[q] = PageAt(q, i)
      BY <2>2 DEF Whole
    <3>1. i \in Nat /\ \A w \in Words : ~(w < 1)
      BY <1>0, CountsAssumption DEF Words
    <3>2. \A w \in Words : buf[q][w] = WordAt(q, IF w < 1 THEN iter ELSE i, w)
      BY <3>1, HeaderWords
    <3> QED
      BY <1>5, <3>2 DEF StartWrite, Whole, HalfWritten
  <2>3. Undamaged'
    BY <1>5, <2>2 DEF StartWrite, Undamaged
  <2> QED
    BY <1>5, <2>1, <2>3 DEF StartWrite
<1>6. CASE StartVerify
  BY <1>6, CountsAssumption DEF StartVerify, TypeOK, Undamaged, Whole,
     HeadersPast, CheckedPagesAreWhole
<1>7. CASE EndIteration
  BY <1>7 DEF EndIteration, TypeOK, Undamaged, Whole, HeadersPast, CheckedPagesAreWhole
<1>8. CASE TakeImage
  BY <1>8 DEF TakeImage, TypeOK, Undamaged, Whole, HalfWritten, HeadersPast,
     CheckedPagesAreWhole
<1>9. ASSUME NEW mbps \in Rates, SetRate(mbps) PROVE IInv'
  BY <1>9 DEF SetRate, TypeOK, Undamaged, Whole, HalfWritten, HeadersPast,
     CheckedPagesAreWhole
<1>10. CASE UNCHANGED vars
  BY <1>10 DEF vars, TypeOK, Undamaged, Whole, HalfWritten, HeadersPast,
     CheckedPagesAreWhole
<1> QED
  BY <1>1, <1>2, <1>3, <1>4, <1>5, <1>6, <1>7, <1>8, <1>9, <1>10 DEF Next

(* The invariant holds initially and always.                               *)
THEOREM Invariance == Spec => []IInv
<1>1. Init => IInv
  <2> SUFFICES ASSUME Init PROVE IInv
    OBVIOUS
  <2>1. /\ \A p \in Pages : buf[p] = PageAt(p, 0)
        /\ 0 \in 0 .. iter /\ iter \in 0 .. MaxIter /\ 1 \in Words /\ 2 \in Words
    BY CountsAssumption DEF Init, Words
  <2>2. \A p \in Pages : PageAt(p, 0) \in [Words -> Int] /\ PageAt(p, 0)[2] = 0
    BY <2>1, HeaderWords
  <2>3. cur \in Pages
    BY PagesAssumption DEF Init
  <2>4. TypeOK
    BY <2>1, <2>2, <2>3 DEF Init, TypeOK
  <2> QED
    BY <2>1, <2>2, <2>4 DEF Init, IInv, Undamaged, Whole, HeadersPast,
       NoFalseAlarm, CheckedPagesAreWhole
<1> QED
  BY <1>1, IInvStep, PTL DEF Spec

(* "Any integrity error it ever reports was introduced by the migration    *)
(* pipeline" (guestd): with exact restores, at whichever word the machine  *)
(* was stopped, verifyPage never counts an error.                          *)
THEOREM NoAlarmWithoutDamage == Spec => []NoFalseAlarm
<1>1. IInv => NoFalseAlarm
  BY DEF IInv
<1> QED
  BY <1>1, Invariance, PTL

(* Without errors, every page verified and not written since holds one     *)
(* complete write of that page, whatever a restore did to the others.      *)
THEOREM VerifiedPagesAreWhole == Spec => []CheckedPagesAreWhole
<1>1. IInv => CheckedPagesAreWhole
  BY DEF IInv
<1> QED
  BY <1>1, Invariance, PTL
=============================================================================
