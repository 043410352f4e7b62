----------------------------- MODULE Scribbler ------------------------------
(***************************************************************************)
(* The guest's memory check (Scribbler in cmd/guestd/main.go): one         *)
(* goroutine writes self-describing pages and verifies samples of them,    *)
(* while the machine under it is snapshotted and restored at any word.     *)
(*                                                                         *)
(*   buf       the buffer: per page its header and keystream words         *)
(*   spc       where Run is: before an iteration, in writePage (page cur,  *)
(*             word pos next), between calls ("writes", "verifies")        *)
(*   iter, rate, todo   iteration, dirtyMBps, calls left of this phase     *)
(*   errors    IntegrityErrors                                             *)
(*   base      the guest's buffer at an earlier moment, as an older image  *)
(*             of it (a base, an earlier round, a stale file) has it       *)
(*   checked   history: pages verified and not written since, nor damaged  *)
(*   damage    history: what restores did to the buffer                    *)
(*                                                                         *)
(* Every step of splitmix64 is a permutation, so two keystreams agree at   *)
(* the same position only if their seeds do; that, and that no word of the *)
(* keystream of seed 0 is 0, is all that is said of it here.               *)
(***************************************************************************)
EXTENDS Integers, FiniteSets

CONSTANTS
  Pages,      \* page numbers of the buffer
  KWords,     \* keystream words per page
  Rates,      \* values of dirtyMBps
  Samples,    \* pages verified per iteration
  MaxIter,    \* iterations of a run
  Damages     \* how a faulty pipeline may restore a page

ASSUME PagesAssumption == Pages \subseteq Nat /\ Pages # {}
ASSUME RatesAssumption == Rates \subseteq Nat
ASSUME CountsAssumption == KWords \in Nat /\ Samples \in Nat /\ MaxIter \in Nat
ASSUME DamagesAssumption == Damages \subseteq {"torn", "lost", "zeroed", "moved"}

VARIABLES buf, spc, cur, pos, iter, rate, todo, errors, base, checked, damage

vars == <<buf, spc, cur, pos, iter, rate, todo, errors, base, checked, damage>>

(* The words of a page: its index, its iteration, then the keystream.      *)
Words == 1 .. KWords + 2
ZeroPage == [w \in Words |-> 0]

(* keystream: the word at position w for the seed p << 32 ^ i, which is    *)
(* another one for every page and iteration.                               *)
Keystream(p, i, w) == (p * (MaxIter + 1) + i) * (KWords + 3) + w

(* Word w of page p as writePage(p, i) leaves it.                          *)
WordAt(p, i, w) == IF w = 1 THEN p ELSE IF w = 2 THEN i ELSE Keystream(p, i, w)
PageAt(p, i) == [w \in Words |-> WordAt(p, i, w)]

(* The pages of an iteration of 1 ms; an idle guest still writes one.      *)
PerMS(mbps) ==
  LET pages == ((mbps * 2^20) \div 1000) \div 4096
  IN  IF pages = 0 THEN 1 ELSE pages

TypeOK ==
  /\ buf \in [Pages -> [Words -> Int]] /\ base \in [Pages -> [Words -> Int]]
  /\ spc \in {"idle", "writes", "writePage", "verifies"}
  /\ cur \in Pages /\ pos \in Words
  /\ iter \in 0 .. MaxIter /\ rate \in Rates
  /\ todo \in Nat /\ errors \in Nat
  /\ checked \subseteq Pages /\ damage \subseteq Damages

(* NewScribbler has written every page.                                    *)
Init ==
  /\ buf = [p \in Pages |-> PageAt(p, 0)]
  /\ base = buf
  /\ spc = "idle" /\ iter = 0 /\ todo = 0
  /\ cur = CHOOSE p \in Pages : TRUE
  /\ pos = 1
  /\ rate \in Rates
  /\ errors = 0
  /\ checked = {} /\ damage = {}

-----------------------------------------------------------------------------
(* Run.                                                                    *)

NextIteration ==
  /\ spc = "idle"
  /\ iter < MaxIter
  /\ iter' = iter + 1
  /\ todo' = PerMS(rate)
  /\ spc' = "writes"
  /\ UNCHANGED <<buf, cur, pos, rate, errors, base, checked, damage>>

(* The call of writePage for a random page.                                *)
StartWrite(p) ==
  /\ spc = "writes"
  /\ todo > 0
  /\ cur' = p /\ pos' = 1
  /\ todo' = todo - 1
  /\ spc' = "writePage"
  /\ UNCHANGED <<buf, iter, rate, errors, base, checked, damage>>

(* writePage stores one word.                                              *)
StoreWord ==
  /\ spc = "writePage"
  /\ buf' = [buf EXCEPT ![cur][pos] = WordAt(cur, iter, pos)]
  /\ checked' = checked \ {cur}
  /\ IF pos + 1 \in Words THEN pos' = pos + 1 /\ UNCHANGED spc
                          ELSE pos' = 1 /\ spc' = "writes"
  /\ UNCHANGED <<cur, iter, rate, todo, errors, base, damage>>

StartVerify ==
  /\ spc = "writes"
  /\ todo = 0
  /\ todo' = Samples
  /\ spc' = "verifies"
  /\ UNCHANGED <<buf, cur, pos, iter, rate, errors, base, checked, damage>>

(* Variant: only the first word of the keystream is compared.              *)
Intact_FirstWord(p, page) == page[1] = p /\ page[3] = WordAt(page[1], page[2], 3)

(* verifyPage: the expected words follow from the page's own header.       *)
Intact(p, page) ==
  /\ page[1] = p
  /\ \A w \in Words : page[w] = WordAt(page[1], page[2], w)

(* Variant: a page is verified by another goroutine than the writer's.     *)
VerifyPage_Concurrent(p) ==
  /\ iter > 0
  /\ errors' = IF Intact(p, buf[p]) THEN errors ELSE errors + 1
  /\ checked' = checked \cup {p}
  /\ UNCHANGED <<buf, spc, cur, pos, iter, rate, todo, base, damage>>

(* One step, although the code loads the page word by word: nothing writes *)
(* meanwhile, and an exact restore between two loads changes nothing.  A   *)
(* faulty one there lets the check see some words from before and some     *)
(* from after it; of the page read in that moment nothing is claimed.      *)
VerifyPage(p) ==
  /\ spc = "verifies"
  /\ todo > 0
  /\ errors' = IF Intact(p, buf[p]) THEN errors ELSE errors + 1
  /\ checked' = checked \cup {p}
  /\ todo' = todo - 1
  /\ UNCHANGED <<buf, spc, cur, pos, iter, rate, base, damage>>

EndIteration ==
  /\ spc = "verifies"
  /\ todo = 0
  /\ spc' = "idle"
  /\ UNCHANGED <<buf, cur, pos, iter, rate, todo, errors, base, checked, damage>>

(* POST /dirty.                                                            *)
SetRate(mbps) ==
  /\ rate' = mbps
  /\ UNCHANGED <<buf, spc, cur, pos, iter, todo, errors, base, checked, damage>>

-----------------------------------------------------------------------------
(* The pipeline: the machine stops between any two stores, and goes on     *)
(* from the restored memory with the registers it had.                     *)

TakeImage ==
  /\ damage = {}
  /\ base' = buf
  /\ UNCHANGED <<buf, spc, cur, pos, iter, rate, todo, errors, checked, damage>>

(* What a faulty pipeline may make of page p.                              *)
Damaged(kind, p) ==
  CASE kind = "torn"   -> {[w \in Words |-> IF w \in s THEN base[p][w] ELSE buf[p][w]] :
                             s \in SUBSET Words \ {{}, Words}}
    [] kind = "lost"   -> {base[p]}
    [] kind = "zeroed" -> {ZeroPage}
    [] kind = "moved"  -> {buf[q] : q \in Pages \ {p}}

(* One faulty restore per run: a single page has to show.                  *)
RestoreDamaged(kind, p) ==
  /\ damage = {}
  /\ \E page \in Damaged(kind, p) :
       /\ page # buf[p]
       /\ buf' = [buf EXCEPT ![p] = page]
  /\ checked' = checked \ {p}
  /\ damage' = {kind}
  /\ UNCHANGED <<spc, cur, pos, iter, rate, todo, errors, base>>

-----------------------------------------------------------------------------
Next ==
  \/ NextIteration \/ StoreWord \/ StartVerify \/ EndIteration \/ TakeImage
  \/ \E p \in Pages : StartWrite(p) \/ VerifyPage(p)
  \/ \E mbps \in Rates : SetRate(mbps)
  \/ \E kind \in Damages, p \in Pages : RestoreDamaged(kind, p)

Spec == Init /\ [][Next]_vars

-----------------------------------------------------------------------------
(* "Any integrity error it ever reports was introduced by the migration    *)
(* pipeline": snapshots and exact restores at any word, of any number of   *)
(* writes, raise no alarm.                                                 *)
NoFalseAlarm == damage = {} => errors = 0

(* What a clean report shows: every page that was verified and not written *)
(* since holds one complete write of that page.  Tears, zero pages and     *)
(* pages in the wrong place are all seen.  A page that was lost as a whole *)
(* (kind "lost") is not: the older write verifies.                         *)
CheckedPagesAreWhole ==
  errors = 0 => \A p \in checked : \E i \in 0 .. iter : buf[p] = PageAt(p, i)

-----------------------------------------------------------------------------
(* The inductive invariant behind both.  A page is one complete write of   *)
(* it, or the page being written: the new write up to pos, one old write   *)
(* from there on.  Whatever a restore did, the second word of a page is an *)
(* iteration there has been.                                               *)
Whole(p) == \E i \in 0 .. iter : buf[p] = PageAt(p, i)

HalfWritten(p) ==
  \E i \in 0 .. iter : \A w \in Words :
    buf[p][w] = WordAt(p, IF w < pos THEN iter ELSE i, w)

Undamaged ==
  damage = {} =>
    \A p \in Pages :
      IF spc = "writePage" /\ p = cur THEN HalfWritten(p) ELSE Whole(p)

HeadersPast ==
  \A p \in Pages : buf[p][2] \in 0 .. iter /\ base[p][2] \in 0 .. iter

IInv ==
  /\ TypeOK
  /\ Undamaged
  /\ HeadersPast
  /\ NoFalseAlarm
  /\ CheckedPagesAreWhole
=============================================================================
