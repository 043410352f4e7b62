-------------------------- MODULE DiffChainProofs ---------------------------
(***************************************************************************)
(* NothingLost, NoRedump and CallIsBounded for every set of pages, cells   *)
(* and values, every budget and every set of queue pages.                  *)
(***************************************************************************)
EXTENDS DiffChain, FiniteSetTheorems, TLAPS

(* The budgeted selection only ever picks dirty pages.                     *)
LEMMA DumpSetSelects ==
  ASSUME VMMTypeOK, NEW type \in {"Full", "Diff", "DiffLive"}
  PROVE  /\ DumpSet(type) \subseteq Pages
         /\ type = "Full" => DumpSet(type) = Pages
BY DEF VMMTypeOK, DumpSet, FirstPages, Dirty

(* The type invariant is inductive.                                        *)
LEMMA TypeOKStep == TypeOK /\ [Next]_chainVars => TypeOK'
<1> SUFFICES ASSUME TypeOK, [Next]_chainVars PROVE TypeOK'
  OBVIOUS
<1> USE PageOfAssumption, ValuesAssumption, QueueAssumption
        DEF TypeOK, VMMTypeOK, Memory, File, NoFile
<1>1. CASE Store
  BY <1>1 DEF Store, GuestStore, DeviceStore, dumpVars
<1>2. CASE RunState
  BY <1>2 DEF RunState, PauseVM, ResumeVM, dumpVars
<1>3. CASE Begin
  <2> PICK type \in {"Full", "Diff", "DiffLive"} :
          SnapshotBegin(type, NoFile) /\ UNCHANGED <<image, clean>>
    BY <1>3 DEF Begin
  <2>1. DumpSet(type) \subseteq Pages
    BY DumpSetSelects
  <2> QED
    BY <2>1 DEF SnapshotBegin, Dirty
<1>4. CASE Copy
  BY <1>4 DEF Copy, CopyCell
<1>5. CASE Done
  BY <1>5 DEF Done, SnapshotDone
<1>6. CASE Fails
  BY <1>6 DEF Fails, SnapshotFails
<1>7. CASE UNCHANGED chainVars
  BY <1>7 DEF chainVars, vmmVars
<1> QED
  BY <1>1, <1>2, <1>3, <1>4, <1>5, <1>6, <1>7 DEF Next

(* The inductive invariant: one step per action.  A dumped or left-over    *)
(* page accounts for every bit a call consumes, which is why the promise   *)
(* has to be stated inside the call too.                                   *)
LEMMA IInvStep == IInv /\ [Next]_chainVars => IInv'
<1> SUFFICES ASSUME IInv, [Next]_chainVars PROVE IInv'
  OBVIOUS
<1>0. TypeOK'
  BY TypeOKStep DEF IInv
<1> USE PageOfAssumption, QueueAssumption
<1> DEFINE Rest == /\ NothingLost
                   /\ NothingLostInCall
                   /\ TornPagesAreDirty
                   /\ FailureRecovers
                   /\ QueuesMarked
                   /\ FullStandsStill
<1> SUFFICES Rest'
  BY <1>0 DEF IInv
<1> USE DEF IInv, TypeOK, VMMTypeOK, NothingLost, NothingLostInCall,
            TornPagesAreDirty, FailureRecovers, QueuesMarked,
            FullStandsStill, Dirty, Memory, File
<1>1. CASE Store
  <2> PICK x \in Cells, v \in Values : GuestStore(x, v) \/ DeviceStore(x, v)
    BY <1>1 DEF Store
  <2>1. UNCHANGED image
    BY <1>1 DEF Store
  <2>2. CASE GuestStore(x, v)
    BY <2>1, <2>2 DEF GuestStore, dumpVars
  <2>3. CASE DeviceStore(x, v)
    BY <2>1, <2>3 DEF DeviceStore, dumpVars
  <2> QED
    BY <2>2, <2>3
<1>2. CASE RunState
  BY <1>2 DEF RunState, PauseVM, ResumeVM, dumpVars
<1>3. CASE Begin
  <2> PICK type \in {"Full", "Diff", "DiffLive"} :
          SnapshotBegin(type, NoFile) /\ UNCHANGED <<image, clean>>
    BY <1>3 DEF Begin
  <2>1. DumpSet("Full") = Pages
    BY DEF DumpSet
  <2> QED
    BY <2>1 DEF SnapshotBegin
<1>4. CASE Copy
  BY <1>4 DEF Copy, CopyCell
<1>5. CASE Done
  BY <1>5 DEF Done, SnapshotDone
<1>6. CASE Fails
  BY <1>6 DEF Fails, SnapshotFails
<1>7. CASE UNCHANGED chainVars
  BY <1>7 DEF chainVars, vmmVars
<1> QED
  BY <1>1, <1>2, <1>3, <1>4, <1>5, <1>6, <1>7 DEF Next

(* The invariant holds initially and always.                               *)
THEOREM Invariance == Spec => []IInv
<1>1. Init => IInv
  BY PageOfAssumption, ValuesAssumption, QueueAssumption
     DEF Init, IInv, TypeOK, VMMTypeOK, NothingLost, NothingLostInCall,
         TornPagesAreDirty, FailureRecovers, QueuesMarked, FullStandsStill,
         Dirty, Memory, File, NoFile
<1> QED
  BY <1>1, IInvStep, PTL DEF Spec

(* No write is ever lost track of: between calls, a full image with every  *)
(* completed diff merged onto it differs from guest memory only on pages   *)
(* still marked dirty (dump_dirty_live and dump_dirty of the patch).       *)
THEOREM NothingIsLost == Spec => []NothingLost
<1>1. IInv => NothingLost
  BY DEF IInv
<1> QED
  BY <1>1, Invariance, PTL

-----------------------------------------------------------------------------
(* Marks only ever appear where the page stops being clean.                *)
LEMMA RedumpInvStep == RedumpInv /\ [Next]_chainVars => RedumpInv'
<1> SUFFICES ASSUME RedumpInv, [Next]_chainVars PROVE CleanIsUnmarked'
  BY TypeOKStep DEF RedumpInv
<1> USE PageOfAssumption, QueueAssumption
        DEF RedumpInv, CleanIsUnmarked, TypeOK, VMMTypeOK
<1>1. CASE Store
  <2> PICK x \in Cells, v \in Values :
          /\ GuestStore(x, v) \/ DeviceStore(x, v)
          /\ clean' = clean \ {PageOf[x]}
    BY <1>1 DEF Store
  <2>1. CASE GuestStore(x, v)
    BY <2>1 DEF GuestStore, dumpVars
  <2>2. CASE DeviceStore(x, v)
    BY <2>2 DEF DeviceStore, dumpVars
  <2> QED
    BY <2>1, <2>2
<1>2. CASE RunState
  BY <1>2 DEF RunState, PauseVM, ResumeVM, dumpVars
<1>3. CASE Begin
  BY <1>3 DEF Begin, SnapshotBegin, Dirty
<1>4. CASE Copy
  BY <1>4 DEF Copy, CopyCell
<1>5. CASE Done
  BY <1>5 DEF Done, SnapshotDone
<1>6. CASE Fails
  BY <1>6 DEF Fails, SnapshotFails
<1>7. CASE UNCHANGED chainVars
  BY <1>7 DEF chainVars, vmmVars
<1> QED
  BY <1>1, <1>2, <1>3, <1>4, <1>5, <1>6, <1>7 DEF Next

(* A page that was dumped and not written since is not dumped again, queue *)
(* pages apart: dump_dirty_live leaves in the bitmap exactly what it did   *)
(* not dump.                                                               *)
THEOREM NothingIsRedumped == Spec => []NoRedump
<1>1. Init => RedumpInv
  BY PageOfAssumption, ValuesAssumption, QueueAssumption
     DEF Init, RedumpInv, CleanIsUnmarked, TypeOK, VMMTypeOK, Memory, File,
         NoFile
<1>2. RedumpInv => NoRedump
  BY DEF RedumpInv, CleanIsUnmarked, NoRedump, Dirty
<1> QED
  BY <1>1, <1>2, RedumpInvStep, PTL DEF Spec

-----------------------------------------------------------------------------
(* The budget test picks at most n pages: the number of dirty pages below  *)
(* a picked one is smaller than n, and no two pages share that number.     *)
LEMMA FirstPagesBounded ==
  ASSUME NEW d \in SUBSET Nat, NEW n \in Nat
  PROVE  Cardinality(FirstPages(d, n)) <= n
<1> DEFINE Below(p) == {q \in d : q < p}
           F == FirstPages(d, n)
           rank == [p \in F |-> Cardinality(Below(p))]
<1>0. \A p \in d : p \in Nat
  OBVIOUS
<1>1. \A p \in d : IsFiniteSet(Below(p)) /\ Cardinality(Below(p)) \in Nat
  <2> TAKE p \in d
  <2>1. Below(p) \in SUBSET Nat /\ p \in Nat
    BY <1>0
  <2>2. \A s \in Below(p) : s <= p
    BY <1>0
  <2> HIDE DEF Below
  <2>3. IsFiniteSet(Below(p))
    BY <2>1, <2>2, FS_BoundedSetOfNaturals
  <2> QED
    BY <2>3, FS_CardinalityType
<1>2. \A p, q \in d : p < q => Cardinality(Below(p)) < Cardinality(Below(q))
  <2> SUFFICES ASSUME NEW p \in d, NEW q \in d, p < q
               PROVE  Cardinality(Below(p)) < Cardinality(Below(q))
    OBVIOUS
  <2>1. p \in Nat /\ q \in Nat
    BY <1>0
  <2>2. \A x \in Below(p) : x \in Below(q)
    BY <1>0, <2>1
  <2>3. p \in Below(q) /\ p \notin Below(p)
    BY <2>1
  <2> HIDE DEF Below
  <2>4. Below(p) \in SUBSET Below(q) /\ Below(p) # Below(q)
    BY <2>2, <2>3
  <2>5. /\ Cardinality(Below(p)) <= Cardinality(Below(q))
        /\ Cardinality(Below(q)) # Cardinality(Below(p))
    BY <1>1, <2>4, FS_Subset
  <2> QED
    BY <1>1, <2>5
<1>3. F \subseteq d /\ \A p \in F : Cardinality(Below(p)) < n
  BY DEF FirstPages
<1> HIDE DEF Below, F
<1>4. rank \in [F -> 0 .. n - 1]
  BY <1>1, <1>3
<1>5. \A p, q \in F : rank[p] = rank[q] => p = q
  <2> SUFFICES ASSUME NEW p \in F, NEW q \in F, rank[p] = rank[q], p # q
               PROVE  FALSE
    OBVIOUS
  <2>1. p \in d /\ q \in d
    BY <1>3
  <2>2. p < q \/ q < p
    BY <1>0, <2>1
  <2>3. Cardinality(Below(p)) = Cardinality(Below(q))
    OBVIOUS
  <2> QED
    BY <1>1, <1>2, <2>1, <2>2, <2>3
<1>6. rank \in Injection(F, 0 .. n - 1)
  BY <1>4, <1>5 DEF Injection, IsInjective
<1>7. IsFiniteSet(0 .. n - 1) /\ Cardinality(0 .. n - 1) = n
  BY FS_Interval
<1> HIDE DEF rank
<1>8. Cardinality(F) <= n
  BY <1>6, <1>7, FS_Injection
<1> QED
  BY <1>8 DEF F

(* A live call dumps no more pages than its budget, however many are       *)
(* dirty: the skipped ones stay marked (dump_dirty_live, live_max_bytes).  *)
THEOREM CallsAreBounded == Spec => []CallIsBounded
<1>1. Init => TypeOK /\ CallIsBounded
  BY PageOfAssumption, ValuesAssumption, QueueAssumption
     DEF Init, CallIsBounded, TypeOK, VMMTypeOK, Memory, File, NoFile
<1>2. TypeOK /\ CallIsBounded /\ [Next]_chainVars => CallIsBounded'
  <2> SUFFICES ASSUME TypeOK, CallIsBounded, [Next]_chainVars
               PROVE  CallIsBounded'
    OBVIOUS
  <2>1. CASE Begin
    <3>1. Dirty \in SUBSET Nat
      BY PagesAssumption DEF TypeOK, VMMTypeOK, Dirty
    <3>2. op' = "DiffLive" => sel' = FirstPages(Dirty, Budget)
      BY <2>1 DEF Begin, SnapshotBegin, DumpSet
    <3> QED
      BY <3>1, <3>2, FirstPagesBounded, BudgetAssumption DEF CallIsBounded
  <2>2. CASE Store
    BY <2>2 DEF Store, GuestStore, DeviceStore, dumpVars, CallIsBounded
  <2>3. CASE RunState
    BY <2>3 DEF RunState, PauseVM, ResumeVM, dumpVars, CallIsBounded
  <2>4. CASE Copy
    BY <2>4 DEF Copy, CopyCell, CallIsBounded
  <2>5. CASE Done
    BY <2>5 DEF Done, SnapshotDone, CallIsBounded
  <2>6. CASE Fails
    BY <2>6 DEF Fails, SnapshotFails, CallIsBounded
  <2>7. CASE UNCHANGED chainVars
    BY <2>7 DEF chainVars, vmmVars, CallIsBounded
  <2> QED
    BY <2>1, <2>2, <2>3, <2>4, <2>5, <2>6, <2>7 DEF Next
<1> QED
  BY <1>1, <1>2, TypeOKStep, PTL DEF Spec
=============================================================================
