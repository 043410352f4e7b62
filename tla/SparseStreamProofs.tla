------------------------- MODULE SparseStreamProofs -------------------------
(***************************************************************************)
(* A transfer delivers the file, or is noticed, for files, chunks and      *)
(* pipes of any size.                                                      *)
(***************************************************************************)
EXTENDS SparseStream, FiniteSetTheorems, TLAPS

(* The extents found: of data, apart from each other and in ascending      *)
(* order, up to where the walk is.                                         *)
ExtsSound ==
  /\ \A i \in DOMAIN exts :
       /\ exts[i].off + exts[i].len <= off
       /\ \A p \in exts[i].off .. exts[i].off + exts[i].len - 1 : src[p] # Hole
  /\ \A i, j \in DOMAIN exts : i < j => exts[i].off + exts[i].len <= exts[j].off
  /\ spc # "walk" => \A p \in off .. Size - 1 : src[p] = Hole

(* The order of records, and what either side's progress says of them.     *)
WireSound ==
  /\ spc \in {"walk", "header"} => wire = <<>> /\ rpc = "header" /\ scrc = <<>>
  /\ spc \in {"data", "sent"} /\ rpc = "header" => wire # <<>>
  /\ spc \in {"sent", "ok"} => exts = <<>>
  /\ spc = "ok" => rpc = "ok"
  /\ spc # "failed" => "cut" \notin damage
  /\ "cut" \in damage => wire = <<>> /\ rpc \in {"ok", "err"}
  /\ spc = "failed" => rpc \in {"ok", "err"}
  /\ rpc = "ok" => wire = <<>> /\ exts = <<>> /\ rcrc = scrc /\ spc \in {"sent", "ok", "failed"}
  /\ rpc = "header" => dst = old /\ rcrc = <<>>
  /\ rpc \in {"records", "ok"} => DOMAIN dst = Offsets
  /\ \A i \in DOMAIN wire :
       /\ wire[i].kind = "header" <=> (i = 1 /\ rpc = "header")
       /\ wire[i].kind = "extent" => Len(wire[i].data) \in 1 .. MaxChunk
       /\ wire[i].kind = "trailer" => /\ i = Len(wire) /\ spc \in {"sent", "failed"}
                                      /\ wire[i].crc = scrc /\ exts = <<>>

(* Where the bytes of the payloads come from: loc[k] is the page of the    *)
(* k-th.  They are sent in ascending order, each once, and what is not     *)
(* sent yet is still to come.                                              *)
Sent(loc) ==
  /\ loc \in [1 .. Len(scrc) -> Data]
  /\ \A j, k \in 1 .. Len(scrc) : j < k => loc[j] < loc[k]
  /\ \A k \in 1 .. Len(scrc) : scrc[k] = src[loc[k]]
  /\ \A k \in 1 .. Len(scrc) : \A i \in DOMAIN exts : loc[k] < exts[i].off
  /\ \A p \in Data :
       \/ p >= off
       \/ \E i \in DOMAIN exts : exts[i].off <= p /\ p < exts[i].off + exts[i].len
       \/ \E k \in 1 .. Len(scrc) : loc[k] = p

(* The pages a record carries, and that they are those of the checksum     *)
(* crc from the start-th on, each for its place, as far as faults allow.   *)
Weight(r) == IF r.kind = "extent" THEN Len(r.data) ELSE 0

Fills(r, start, crc, faults, loc) ==
  r.kind = "extent" =>
    \A k \in 1 .. Len(r.data) :
      /\ "offset" \notin faults => r.off + k - 1 = loc[start + k]
      /\ "payload" \notin faults => r.data[k] = crc[start + k]

(* The records of w carry the pages between the received-th and the end of *)
(* crc; record i ends with the pos[i]-th.                                  *)
Carried(w, received, crc, faults, loc, pos) ==
  /\ pos \in [0 .. Len(w) -> 0 .. Len(crc)]
  /\ pos[0] = received /\ pos[Len(w)] = Len(crc)
  /\ \A i \in 1 .. Len(w) :
       pos[i] = pos[i - 1] + Weight(w[i]) /\ Fills(w[i], pos[i - 1], crc, faults, loc)

(* What was received is in place.                                          *)
Placed(loc) ==
  /\ Len(rcrc) <= Len(scrc)
  /\ "payload" \notin damage => \A k \in 1 .. Len(rcrc) : rcrc[k] = scrc[k]
  /\ "offset" \notin damage /\ rpc # "header" =>
       /\ \A k \in 1 .. Len(rcrc) : dst[loc[k]] = rcrc[k]
       /\ \A p \in Offsets : (\A k \in 1 .. Len(rcrc) : loc[k] # p) => dst[p] = Before(p)

Tracked(loc) ==
  /\ Sent(loc)
  /\ (rpc # "err" /\ "cut" \notin damage) =>
       /\ \E pos : Carried(wire, Len(rcrc), scrc, damage, loc, pos)
       /\ Placed(loc)

IInv ==
  /\ TypeOK
  /\ ExtsSound
  /\ WireSound
  /\ SizeRespected
  /\ PartOfFile
  /\ NoFalseReject
  /\ \E loc : Tracked(loc)
-----------------------------------------------------------------------------
(* Helpers.                                                                *)

(* A set of naturals has a least element, which Min picks: the least of    *)
(* the intervals from 0 to its elements is the one to the least of them.   *)
LEMMA MinIsLeast ==
  ASSUME NEW S \in SUBSET Nat, S # {}
  PROVE  Min(S) \in S /\ \A x \in S : Min(S) <= x
<1> DEFINE I(x) == 0 .. x
           T == {I(x) : x \in S}
           R == StrictSubsetOrdering(Nat)
<1>1. \A x \in S : I(x) \in SUBSET Nat /\ IsFiniteSet(I(x))
  BY FS_Interval
<1>2. T \subseteq FiniteSubsetsOf(Nat) /\ T # {}
  BY <1>1 DEF FiniteSubsetsOf
<1>3. IsWellFoundedOn(R, FiniteSubsetsOf(Nat))
  BY FS_StrictSubsetOrderingWellFounded
<1>4. \E t \in T : \A u \in T : ~(<<u, t>> \in R)
  <2> HIDE DEF T, R
  <2> QED
    BY <1>2, <1>3, WFMin
<1>5. PICK x \in S : \A y \in S : ~(<<I(y), I(x)>> \in R)
  BY <1>4
<1>6. \A y \in S : y < x => I(y) \subseteq I(x) /\ x \in I(x) /\ x \notin I(y)
  OBVIOUS
<1>7. \A y \in S : ~(y < x)
  <2> HIDE DEF I
  <2> QED
    BY <1>1, <1>5, <1>6 DEF StrictSubsetOrdering
<1>8. \A y \in S : x <= y
  BY <1>7
<1> QED
  BY <1>8 DEF Min

(* SEEK_HOLE from a page with data: past it, and data until there.         *)
LEMMA SeekHoleEnds ==
  ASSUME TypeOK, NEW d \in Offsets, src[d] # Hole
  PROVE  /\ SeekHole(d) \in d + 1 .. Size
         /\ \A p \in d .. SeekHole(d) - 1 : src[p] # Hole
<1> DEFINE S == {j \in d .. Size - 1 : src[j] = Hole} \cup {Size}
<1>1. S \in SUBSET Nat /\ S # {} /\ \A x \in S : x > d
  BY SizeAssumption DEF Offsets
<1>2. Min(S) \in S /\ \A x \in S : Min(S) <= x
  <2> HIDE DEF S
  <2> QED
    BY <1>1, MinIsLeast
<1>3. SeekHole(d) = Min(S)
  BY DEF SeekHole
<1>4. Min(S) \in Nat /\ Min(S) > d /\ Min(S) <= Size
  BY <1>1, <1>2, SizeAssumption DEF Offsets
<1>5. \A p \in d .. Min(S) - 1 : p \notin S
  BY <1>2, <1>4, SizeAssumption DEF Offsets
<1>6. \A p \in d .. Min(S) - 1 : p \in d .. Size - 1
  BY <1>4, SizeAssumption DEF Offsets
<1>7. \A p \in d .. Min(S) - 1 : src[p] # Hole
  BY <1>5, <1>6
<1>8. Min(S) \in d + 1 .. Size
  BY <1>4, SizeAssumption DEF Offsets
<1> HIDE DEF S
<1> QED
  BY <1>3, <1>7, <1>8

(* A record that passes the checks lies within the file: the sum does not  *)
(* wrap around below SignBit, and a wrapped record has a negative offset.  *)
LEMMA FitsIsInside ==
  ASSUME NEW o \in Nat, NEW n \in Nat, Fits(o, n), NonNegative(o)
  PROVE  o + n <= Size
<1>1. o + n \in 0 .. 2 * SignBit - 1
  BY SizeAssumption, ChunkAssumption DEF Fits, NonNegative
<1>2. (o + n) % (2 * SignBit) = o + n
  BY <1>1, SizeAssumption
<1> QED
  BY <1>2 DEF Fits

(* What Send produces passes them.                                         *)
LEMMA InsideFits ==
  ASSUME NEW o \in Nat, NEW n \in 1 .. MaxChunk, o + n <= Size
  PROVE  Fits(o, n) /\ NonNegative(o) /\ o # TrailerOffset
<1>1. o + n \in 0 .. 2 * SignBit - 1 /\ o < SignBit
  BY SizeAssumption, ChunkAssumption
<1>2. (o + n) % (2 * SignBit) = o + n
  BY <1>1, SizeAssumption
<1> QED
  BY <1>1, <1>2, ChunkAssumption, SizeAssumption DEF Fits, NonNegative, TrailerOffset

(* pwrite into the file.                                                   *)
LEMMA WrittenInside ==
  ASSUME NEW f \in [Offsets -> Values], NEW o \in Nat, NEW p \in Seq(Values), o + Len(p) <= Size
  PROVE  /\ Written(f, o, p) \in [Offsets -> Values]
         /\ \A k \in 1 .. Len(p) : o + k - 1 \in Offsets /\ Written(f, o, p)[o + k - 1] = p[k]
         /\ \A i \in Offsets : i \notin o .. o + Len(p) - 1 => Written(f, o, p)[i] = f[i]
<1>1. DOMAIN f \cup (o .. o + Len(p) - 1) = Offsets
  BY SizeAssumption DEF Offsets
<1>2. Written(f, o, p) = [i \in Offsets |-> IF i \in o .. o + Len(p) - 1 THEN p[i - o + 1] ELSE f[i]]
  BY <1>1 DEF Written
<1> DEFINE W == [i \in Offsets |-> IF i \in o .. o + Len(p) - 1 THEN p[i - o + 1] ELSE f[i]]
<1>3. \A i \in o .. o + Len(p) - 1 : i - o + 1 \in 1 .. Len(p) /\ p[i - o + 1] \in Values
  OBVIOUS
<1>4. W \in [Offsets -> Values]
  BY <1>3
<1>5. \A k \in 1 .. Len(p) : o + k - 1 \in Offsets /\ W[o + k - 1] = p[k]
  <2> TAKE k \in 1 .. Len(p)
  <2>1. o + k - 1 \in o .. o + Len(p) - 1 /\ (o + k - 1) - o + 1 = k /\ o + k - 1 \in Offsets
    BY SizeAssumption DEF Offsets
  <2> QED
    BY <2>1
<1>6. \A i \in Offsets : i \notin o .. o + Len(p) - 1 => W[i] = f[i]
  OBVIOUS
<1> QED
  BY <1>2, <1>4, <1>5, <1>6

-----------------------------------------------------------------------------
(* An element of a sequence is of the sequence's type.                     *)
LEMMA ElementTyped ==
  ASSUME NEW S, NEW q \in Seq(S), NEW i \in DOMAIN q
  PROVE  q[i] \in S
OBVIOUS

(* The two parts of a concatenation.                                       *)
LEMMA ConcatReads ==
  ASSUME NEW S, NEW a \in Seq(S), NEW b \in Seq(S)
  PROVE  /\ a \o b \in Seq(S) /\ Len(a \o b) = Len(a) + Len(b)
         /\ \A k \in 1 .. Len(a) : (a \o b)[k] = a[k]
         /\ \A k \in 1 .. Len(b) : (a \o b)[Len(a) + k] = b[k]
OBVIOUS

(* What TypeOK says of an extent.                                          *)
LEMMA PieceTyped ==
  ASSUME NEW x \in Seq([off : Offsets, len : 1 .. Size]), NEW i \in DOMAIN x
  PROVE  /\ x[i] \in [off : Offsets, len : 1 .. Size]
         /\ x[i].off \in Offsets /\ x[i].len \in 1 .. Size
         /\ x[i].off \in Nat /\ x[i].len \in Nat
<1> DEFINE E == [off : Offsets, len : 1 .. Size]
<1>1. x \in Seq(E)
  OBVIOUS
<1>2. x[i] \in E
  <2> HIDE DEF E
  <2> QED
    BY <1>1, ElementTyped
<1> QED
  BY <1>2, SizeAssumption DEF Offsets

(* The same of the extents still to be sent.                               *)
LEMMA ExtentTyped ==
  ASSUME TypeOK, NEW i \in DOMAIN exts
  PROVE  /\ exts[i] \in [off : Offsets, len : 1 .. Size]
         /\ exts[i].off \in Offsets /\ exts[i].len \in 1 .. Size
         /\ exts[i].off \in Nat /\ exts[i].len \in Nat
BY PieceTyped DEF TypeOK

(* Before the first record the two sides agree on nothing yet.             *)
LEMMA NothingSent ==
  ASSUME wire = <<>>, scrc = <<>>, rcrc = <<>>, rpc = "header",
         \A p \in Data : \/ p >= off
                         \/ \E i \in DOMAIN exts :
                              exts[i].off <= p /\ p < exts[i].off + exts[i].len
  PROVE  \E loc : Tracked(loc)
<1> DEFINE loc == [k \in 1 .. 0 |-> 0]
           pos == [i \in 0 .. 0 |-> 0]
<1>1. Len(wire) = 0 /\ Len(scrc) = 0 /\ Len(rcrc) = 0
  OBVIOUS
<1>2. Sent(loc)
  BY <1>1 DEF Sent
<1>3. Carried(wire, Len(rcrc), scrc, damage, loc, pos)
  BY <1>1 DEF Carried
<1>4. Placed(loc)
  BY <1>1 DEF Placed
<1> QED
  BY <1>2, <1>3, <1>4 DEF Tracked

(* A fresh transfer into the file as it is.                                *)
LEMMA IInvInit == Init => IInv
<1> SUFFICES ASSUME Init PROVE IInv
  OBVIOUS
<1>1. TypeOK
  <2>1. dst \in [DOMAIN dst -> Values]
    BY DEF Init, Contents
  <2>2. off \in 0 .. Size
    BY SizeAssumption DEF Init
  <2> QED
    BY <2>1, <2>2 DEF Init, TypeOK
<1>2. ExtsSound /\ WireSound
  BY DEF Init, ExtsSound, WireSound
<1>3. SizeRespected /\ PartOfFile /\ NoFalseReject
  BY DEF Init, SizeRespected, PartOfFile, NoFalseReject, Before
<1>4. \A p \in Data : p >= off
  BY SizeAssumption DEF Init, Data, Offsets
<1>5. \E loc : Tracked(loc)
  BY <1>4, NothingSent DEF Init
<1> QED
  BY <1>1, <1>2, <1>3, <1>5 DEF IInv

-----------------------------------------------------------------------------
(* WalkExtents.                                                            *)

(* An extent is found behind those before it, or there is no more data.    *)
LEMMA WalkStep == IInv /\ Walk => IInv'
<1> SUFFICES ASSUME IInv, Walk PROVE IInv'
  OBVIOUS
<1> USE DEF IInv, Walk, files, receiverVars
<1>0. PICK loc : Tracked(loc)
  OBVIOUS
<1>1. /\ spc = "walk" /\ wire = <<>> /\ rpc = "header" /\ scrc = <<>> /\ rcrc = <<>>
      /\ exts \in Seq([off : Offsets, len : 1 .. Size]) /\ off \in 0 .. Size
  BY DEF WireSound, TypeOK
<1>2. \A p \in Data : \/ p >= off
                      \/ \E i \in DOMAIN exts : exts[i].off <= p /\ p < exts[i].off + exts[i].len
  <2>1. Len(scrc) = 0
    BY <1>1
  <2> QED
    BY <1>0, <2>1 DEF Tracked, Sent
<1>3. SizeRespected' /\ PartOfFile' /\ NoFalseReject'
  BY DEF SizeRespected, PartOfFile, NoFalseReject, Before, Data
<1>4. CASE DataFrom(off) = {}
  <2>1. TypeOK'
    BY <1>4 DEF TypeOK
  <2>2. \A p \in off .. Size - 1 : src[p] = Hole
    BY <1>4 DEF DataFrom
  <2>3. ExtsSound' /\ WireSound'
    BY <1>1, <1>4, <2>2 DEF ExtsSound, WireSound
  <2>4. Tracked(loc)'
    BY <1>0, <1>1, <1>4 DEF Tracked, Sent, Placed, Data, Before
  <2> QED
    BY <1>3, <2>1, <2>3, <2>4
<1>5. CASE DataFrom(off) # {}
  <2> DEFINE d == Min(DataFrom(off))
             h == SeekHole(d)
  <2>1. DataFrom(off) \in SUBSET Nat
    BY <1>1, SizeAssumption DEF DataFrom
  <2>2. d \in DataFrom(off) /\ \A x \in DataFrom(off) : d <= x
    BY <1>5, <2>1, MinIsLeast
  <2>3. d \in Offsets /\ d \in off .. Size - 1 /\ src[d] # Hole
    BY <1>1, <2>2, SizeAssumption DEF DataFrom, Offsets
  <2>4. h \in d + 1 .. Size /\ \A p \in d .. h - 1 : src[p] # Hole
    BY <2>3, SeekHoleEnds
  <2>5. exts' = Append(exts, [off |-> d, len |-> h - d]) /\ off' = h /\ spc' = spc
    BY <1>5
  <2> HIDE DEF d, h
  <2>6. h - d \in 1 .. Size /\ d + (h - d) = h /\ h \in Nat /\ d \in Nat /\ off <= d /\ off <= h
    BY <1>1, <2>3, <2>4, SizeAssumption DEF Offsets
  <2>7. /\ DOMAIN exts' = 1 .. Len(exts) + 1 /\ DOMAIN exts = 1 .. Len(exts)
        /\ exts'[Len(exts) + 1] = [off |-> d, len |-> h - d]
        /\ \A i \in 1 .. Len(exts) : exts'[i] = exts[i]
    BY <1>1, <2>5
  <2>8. \A i \in DOMAIN exts : exts[i] \in [off : Offsets, len : 1 .. Size]
    BY ExtentTyped
  <2>9. TypeOK'
    <3>1. exts' \in Seq([off : Offsets, len : 1 .. Size]) /\ off' \in 0 .. Size
      BY <1>1, <2>3, <2>4, <2>5, <2>6, SizeAssumption DEF Offsets
    <3> QED
      BY <2>5, <3>1 DEF TypeOK
  <2>10. ExtsSound'
    <3>1. \A i \in DOMAIN exts' :
            /\ exts'[i].off + exts'[i].len <= off'
            /\ \A p \in exts'[i].off .. exts'[i].off + exts'[i].len - 1 : src'[p] # Hole
      <4> TAKE i \in DOMAIN exts'
      <4>1. CASE i \in 1 .. Len(exts)
        BY <4>1, <1>1, <2>5, <2>6, <2>7, <2>8 DEF ExtsSound, Offsets
      <4>2. CASE i = Len(exts) + 1
        BY <4>2, <2>4, <2>5, <2>6, <2>7
      <4> QED
        BY <4>1, <4>2, <2>7, <1>1
    <3>2. \A i, j \in DOMAIN exts' : i < j => exts'[i].off + exts'[i].len <= exts'[j].off
      <4> TAKE i, j \in DOMAIN exts'
      <4> HAVE i < j
      <4>1. i \in 1 .. Len(exts) /\ (j \in 1 .. Len(exts) \/ j = Len(exts) + 1)
        BY <1>1, <2>7
      <4>2. CASE j \in 1 .. Len(exts)
        BY <4>1, <4>2, <2>7 DEF ExtsSound
      <4>3. CASE j = Len(exts) + 1
        <5>1. exts[i].off + exts[i].len <= off
          BY <4>1, <2>7 DEF ExtsSound
        <5>2. exts[i].off \in Nat /\ exts[i].len \in Nat
          BY <4>1, <2>7, <2>8, SizeAssumption DEF Offsets
        <5>3. exts[i].off + exts[i].len <= d
          BY <1>1, <5>1, <5>2, <2>6
        <5>4. exts'[i] = exts[i] /\ exts'[j] = [off |-> d, len |-> h - d]
          BY <4>1, <4>3, <2>7
        <5>5. exts'[j].off = d
          BY <5>4
        <5> QED
          BY <5>3, <5>4, <5>5
      <4> QED
        BY <4>1, <4>2, <4>3
    <3> QED
      BY <1>1, <2>5, <3>1, <3>2 DEF ExtsSound
  <2>11. WireSound'
    BY <1>1, <2>5 DEF WireSound
  <2>12. \A p \in Data : \/ p >= off'
                         \/ \E i \in DOMAIN exts' :
                              exts'[i].off <= p /\ p < exts'[i].off + exts'[i].len
    <3> TAKE p \in Data
    <3>1. p \in Nat /\ p \in Offsets /\ src[p] # Hole
      BY SizeAssumption DEF Data, Offsets
    <3>2. CASE p >= off
      <4>1. p \in DataFrom(off)
        BY <1>1, <3>1, <3>2, SizeAssumption DEF DataFrom, Offsets
      <4>2. d <= p
        BY <2>2, <4>1
      <4>3. p >= h \/ p < d + (h - d)
        BY <2>6, <3>1
      <4> QED
        BY <4>2, <4>3, <2>5, <2>7, <1>1
    <3>3. CASE \E i \in DOMAIN exts : exts[i].off <= p /\ p < exts[i].off + exts[i].len
      BY <3>3, <2>7, <1>1
    <3> QED
      BY <1>2, <3>2, <3>3
  <2>13. Tracked(loc)'
    <3>1. Len(scrc) = 0 /\ Data' = Data
      BY <1>1 DEF Data
    <3>2. Sent(loc)'
      BY <1>0, <2>12, <3>1 DEF Tracked, Sent
    <3>3. Placed(loc)' /\ (\E pos : Carried(wire, Len(rcrc), scrc, damage, loc, pos))'
      BY <1>0, <1>1, <2>5 DEF WireSound, Tracked, Placed, Before
    <3> QED
      BY <3>2, <3>3 DEF Tracked
  <2> QED
    BY <1>3, <2>9, <2>10, <2>11, <2>13
<1> QED
  BY <1>4, <1>5

-----------------------------------------------------------------------------
(* Send.                                                                   *)

Records == Headers \cup Extents \cup Trailers

(* A record is put at the end of the wire.                                 *)
LEMMA PutAppends ==
  ASSUME wire \in Seq(Records), NEW r \in Records, Put(r)
  PROVE  /\ wire' \in Seq(Records)
         /\ Len(wire) \in Nat /\ Len(wire') = Len(wire) + 1
         /\ DOMAIN wire = 1 .. Len(wire) /\ DOMAIN wire' = 1 .. Len(wire) + 1
         /\ wire'[Len(wire) + 1] = r
         /\ \A i \in 1 .. Len(wire) : wire'[i] = wire[i]
<1> HIDE DEF Records
<1> QED
  BY DEF Put

(* What a record carries, if more is sent after it.                        *)
LEMMA FillsExtended ==
  ASSUME NEW r \in Records, NEW start \in Nat, NEW crc \in Seq(Values), NEW p \in Seq(Values),
         NEW faults, NEW loc, NEW loc2,
         \A k \in 1 .. Len(crc) : loc2[k] = loc[k],
         start + Weight(r) <= Len(crc), Fills(r, start, crc, faults, loc)
  PROVE  Fills(r, start, crc \o p, faults, loc2)
<1> SUFFICES ASSUME r.kind = "extent", NEW k \in 1 .. Len(r.data)
             PROVE  /\ "offset" \notin faults => r.off + k - 1 = loc2[start + k]
                    /\ "payload" \notin faults => r.data[k] = (crc \o p)[start + k]
  BY DEF Fills
<1>1. r.data \in Seq(Values)
  BY DEF Records, Headers, Extents, Trailers
<1>2. start + k \in 1 .. Len(crc)
  BY <1>1 DEF Weight
<1>3. (crc \o p)[start + k] = crc[start + k] /\ loc2[start + k] = loc[start + k]
  BY <1>2
<1> QED
  BY <1>3 DEF Fills

(* One more record, with the payload p.                                    *)
LEMMA CarriedAppend ==
  ASSUME NEW w \in Seq(Records), NEW r \in Records, NEW n, NEW crc \in Seq(Values),
         NEW p \in Seq(Values), NEW faults, NEW loc, NEW loc2, NEW pos,
         \A k \in 1 .. Len(crc) : loc2[k] = loc[k],
         Carried(w, n, crc, faults, loc, pos),
         Weight(r) = Len(p), Fills(r, Len(crc), crc \o p, faults, loc2),
         NEW v \in Seq(Records), Len(v) = Len(w) + 1, v[Len(w) + 1] = r,
         \A i \in 1 .. Len(w) : v[i] = w[i]
  PROVE  \E q : Carried(v, n, crc \o p, faults, loc2, q)
<1> DEFINE m == Len(crc) + Len(p)
           q == [i \in 0 .. Len(w) + 1 |-> IF i \in 0 .. Len(w) THEN pos[i] ELSE m]
<1>1. Len(crc) \in Nat /\ Len(p) \in Nat /\ Len(w) \in Nat /\ Len(crc \o p) = m
  OBVIOUS
<1>2. /\ pos \in [0 .. Len(w) -> 0 .. Len(crc)] /\ pos[0] = n /\ pos[Len(w)] = Len(crc)
      /\ \A i \in 1 .. Len(w) :
           pos[i] = pos[i - 1] + Weight(w[i]) /\ Fills(w[i], pos[i - 1], crc, faults, loc)
  BY DEF Carried
<1>3. /\ q \in [0 .. Len(w) + 1 -> 0 .. m] /\ q[0] = n /\ q[Len(w) + 1] = m
      /\ \A i \in 0 .. Len(w) : q[i] = pos[i]
  BY <1>1, <1>2
<1> HIDE DEF q
<1>4. ASSUME NEW i \in 1 .. Len(w) + 1
      PROVE  q[i] = q[i - 1] + Weight(v[i]) /\ Fills(v[i], q[i - 1], crc \o p, faults, loc2)
  <2>1. CASE i \in 1 .. Len(w)
    <3>1. i - 1 \in 0 .. Len(w) /\ i \in 0 .. Len(w) /\ v[i] = w[i] /\ w[i] \in Records
      BY <2>1, <1>1, ElementTyped
    <3>2. q[i] = pos[i] /\ q[i - 1] = pos[i - 1] /\ pos[i] \in 0 .. Len(crc) /\ pos[i - 1] \in Nat
      <4>1. q[i] = pos[i] /\ q[i - 1] = pos[i - 1]
        BY <3>1, <1>3
      <4>2. pos[i] \in 0 .. Len(crc) /\ pos[i - 1] \in 0 .. Len(crc)
        BY <3>1, <1>2
      <4> QED
        BY <4>1, <4>2, <1>1
    <3>3. pos[i - 1] + Weight(w[i]) <= Len(crc)
      BY <2>1, <3>2, <1>1, <1>2
    <3>4. Fills(w[i], pos[i - 1], crc \o p, faults, loc2)
      BY <2>1, <3>1, <3>2, <3>3, <1>2, FillsExtended
    <3> QED
      BY <2>1, <3>1, <3>2, <3>4, <1>2
  <2>2. CASE i = Len(w) + 1
    <3>1. i - 1 = Len(w) /\ Len(w) \in 0 .. Len(w)
      BY <2>2, <1>1
    <3>2. q[i - 1] = Len(crc) /\ q[i] = Len(crc) + Len(p)
      BY <2>2, <3>1, <1>2, <1>3
    <3> QED
      BY <2>2, <3>2
  <2> QED
    BY <2>1, <2>2, <1>1
<1>5. Carried(v, n, crc \o p, faults, loc2, q)
  BY <1>1, <1>3, <1>4 DEF Carried
<1> QED
  BY <1>5

(* The first record is taken.                                              *)
LEMMA CarriedTail ==
  ASSUME NEW w \in Seq(Records), w # <<>>, NEW n, NEW crc \in Seq(Values),
         NEW faults, NEW loc, NEW pos, Carried(w, n, crc, faults, loc, pos)
  PROVE  /\ \E q : Carried(Tail(w), n + Weight(w[1]), crc, faults, loc, q)
         /\ n \in Nat /\ n + Weight(w[1]) <= Len(crc) /\ Fills(w[1], n, crc, faults, loc)
<1> DEFINE q == [i \in 0 .. Len(w) - 1 |-> pos[i + 1]]
<1>1. /\ Len(w) \in Nat /\ Len(w) >= 1 /\ Len(Tail(w)) = Len(w) - 1 /\ Len(crc) \in Nat
      /\ \A i \in 1 .. Len(w) - 1 : Tail(w)[i] = w[i + 1]
  OBVIOUS
<1>2. /\ pos \in [0 .. Len(w) -> 0 .. Len(crc)] /\ pos[0] = n /\ pos[Len(w)] = Len(crc)
      /\ \A i \in 1 .. Len(w) :
           pos[i] = pos[i - 1] + Weight(w[i]) /\ Fills(w[i], pos[i - 1], crc, faults, loc)
  BY DEF Carried
<1>3. pos[1] = n + Weight(w[1]) /\ Fills(w[1], n, crc, faults, loc) /\ pos[1] <= Len(crc) /\ n \in Nat
  BY <1>1, <1>2
<1>4. /\ q \in [0 .. Len(w) - 1 -> 0 .. Len(crc)]
      /\ q[0] = pos[1] /\ q[Len(w) - 1] = Len(crc)
      /\ \A i \in 1 .. Len(w) - 1 : q[i] = pos[i + 1] /\ q[i - 1] = pos[i]
  BY <1>1, <1>2
<1> HIDE DEF q
<1>5. ASSUME NEW i \in 1 .. Len(w) - 1
      PROVE  q[i] = q[i - 1] + Weight(Tail(w)[i]) /\ Fills(Tail(w)[i], q[i - 1], crc, faults, loc)
  <2>1. i + 1 \in 1 .. Len(w) /\ (i + 1) - 1 = i
    BY <1>1
  <2> QED
    BY <2>1, <1>1, <1>2, <1>4
<1>6. Carried(Tail(w), n + Weight(w[1]), crc, faults, loc, q)
  BY <1>1, <1>3, <1>4, <1>5 DEF Carried
<1> QED
  BY <1>3, <1>6

(* The header is the first record and carries no page.                     *)
LEMMA SendHeaderStep == IInv /\ SendHeader => IInv'
<1> SUFFICES ASSUME IInv, SendHeader PROVE IInv'
  OBVIOUS
<1> USE DEF IInv, SendHeader, files, receiverVars
<1> DEFINE r == [kind |-> "header", size |-> Size]
<1>0. PICK loc : Tracked(loc)
  OBVIOUS
<1>1. /\ spc = "header" /\ wire = <<>> /\ rpc = "header" /\ scrc = <<>> /\ rcrc = <<>>
  BY DEF WireSound
<1>2. Len(wire) = 0 /\ Len(scrc) = 0 /\ Len(rcrc) = 0
  BY <1>1
<1>3. r \in Records /\ r.kind = "header" /\ wire \in Seq(Records)
  BY DEF Records, Headers, TypeOK
<1>4. /\ wire' \in Seq(Records) /\ Len(wire') = 1 /\ DOMAIN wire' = 1 .. 1 /\ wire'[1] = r
  BY <1>2, <1>3, PutAppends
<1>5. SizeRespected' /\ PartOfFile' /\ NoFalseReject'
  BY DEF SizeRespected, PartOfFile, NoFalseReject, Before, Data
<1>6. TypeOK' /\ ExtsSound'
  BY <1>4 DEF TypeOK, ExtsSound, Records
<1> HIDE DEF r
<1>7. WireSound'
  BY <1>1, <1>3, <1>4 DEF WireSound
<1> DEFINE q == [i \in 0 .. 1 |-> 0]
<1>8. Tracked(loc)'
  <2>1. Sent(loc)'
    BY <1>0 DEF Tracked, Sent, Data
  <2>2. Carried(wire, Len(rcrc), scrc, damage, loc, q)'
    BY <1>1, <1>2, <1>3, <1>4 DEF Carried, Weight, Fills
  <2>3. Placed(loc)'
    BY <1>1, <1>2 DEF Placed
  <2> QED
    BY <2>1, <2>2, <2>3 DEF Tracked
<1> QED
  BY <1>5, <1>6, <1>7, <1>8

(* The trailer is the last record; every page of data is on its way.       *)
LEMMA SendTrailerStep == IInv /\ SendTrailer => IInv'
<1> SUFFICES ASSUME IInv, SendTrailer PROVE IInv'
  OBVIOUS
<1> USE DEF IInv, SendTrailer, files, receiverVars
<1> DEFINE r == [kind |-> "trailer", off |-> TrailerOffset, crc |-> scrc]
<1>0. PICK loc : Tracked(loc)
  OBVIOUS
<1>1. spc = "data" /\ spc' = "sent" /\ exts = <<>> /\ rpc # "ok" /\ "cut" \notin damage
  BY DEF WireSound
<1>2. r \in Records /\ r.kind = "trailer" /\ r.crc = scrc /\ wire \in Seq(Records)
  BY DEF Records, Trailers, TypeOK
<1>3. /\ wire' \in Seq(Records)
      /\ Len(wire) \in Nat /\ Len(wire') = Len(wire) + 1
      /\ DOMAIN wire = 1 .. Len(wire) /\ DOMAIN wire' = 1 .. Len(wire) + 1
      /\ wire'[Len(wire) + 1] = r
      /\ \A i \in 1 .. Len(wire) : wire'[i] = wire[i]
  BY <1>2, PutAppends
<1>4. SizeRespected' /\ PartOfFile' /\ NoFalseReject'
  BY DEF SizeRespected, PartOfFile, NoFalseReject, Before, Data
<1>5. TypeOK' /\ ExtsSound'
  BY <1>1, <1>3 DEF TypeOK, ExtsSound, Records
<1> HIDE DEF r
<1>6. WireSound'
  <2>1. \A i \in DOMAIN wire' :
          /\ wire'[i].kind = "header" <=> (i = 1 /\ rpc = "header")
          /\ wire'[i].kind = "extent" => Len(wire'[i].data) \in 1 .. MaxChunk
          /\ wire'[i].kind = "trailer" => i = Len(wire') /\ wire'[i].crc = scrc
    <3> TAKE i \in DOMAIN wire'
    <3>1. CASE i \in 1 .. Len(wire)
      BY <3>1, <1>1, <1>3 DEF WireSound
    <3>2. CASE i = Len(wire) + 1
      <4>1. i # 1 \/ rpc # "header"
        BY <3>2, <1>1, <1>3 DEF WireSound
      <4> QED
        BY <4>1, <3>2, <1>2, <1>3
    <3> QED
      BY <3>1, <3>2, <1>3
  <2>2. wire' # <<>>
    BY <1>3
  <2> QED
    BY <1>1, <2>1, <2>2 DEF WireSound
<1>7. Tracked(loc)'
  <2>1. Sent(loc)'
    BY <1>0 DEF Tracked, Sent, Data
  <2>2. ASSUME rpc # "err"
        PROVE  (\E q : Carried(wire, Len(rcrc), scrc, damage, loc, q))' /\ Placed(loc)'
    <3>1. PICK pos : Carried(wire, Len(rcrc), scrc, damage, loc, pos)
      BY <1>0, <1>1, <2>2 DEF Tracked
    <3>2. Placed(loc)'
      BY <1>0, <1>1, <2>2 DEF Tracked, Placed, Before
    <3>3. /\ scrc \in Seq(Values) /\ <<>> \in Seq(Values)
          /\ scrc \o <<>> = scrc /\ Len(<<>>) = 0
      BY DEF TypeOK
    <3>4. Weight(r) = Len(<<>>) /\ Fills(r, Len(scrc), scrc \o <<>>, damage, loc)
      BY <1>2, <3>3 DEF Weight, Fills
    <3>5. \E q : Carried(wire', Len(rcrc), scrc \o <<>>, damage, loc, q)
      BY <1>2, <1>3, <3>1, <3>3, <3>4, CarriedAppend
    <3> QED
      BY <3>2, <3>3, <3>5
  <2> QED
    BY <2>1, <2>2 DEF Tracked
<1> QED
  BY <1>4, <1>5, <1>6, <1>7

(* What is left to send after a chunk of n pages: the rest of the first    *)
(* extent, if it has one, and the others.                                  *)
LEMMA RestFollows ==
  ASSUME TypeOK, exts # <<>>, NEW e, e = Head(exts)
  PROVE  /\ e = exts[1] /\ 1 \in DOMAIN exts /\ DOMAIN exts = 1 .. Len(exts) /\ Len(exts) \in Nat
         /\ e.len <= MaxChunk =>
              /\ Len(Rest(e) \o Tail(exts)) = Len(exts) - 1
              /\ \A i \in 1 .. Len(exts) - 1 : (Rest(e) \o Tail(exts))[i] = exts[i + 1]
         /\ e.len > MaxChunk =>
              /\ Len(Rest(e) \o Tail(exts)) = Len(exts)
              /\ (Rest(e) \o Tail(exts))[1] = [off |-> e.off + MaxChunk, len |-> e.len - MaxChunk]
              /\ \A i \in 2 .. Len(exts) : (Rest(e) \o Tail(exts))[i] = exts[i]
<1> DEFINE E == [off : Offsets, len : 1 .. Size]
           x == [off |-> e.off + MaxChunk, len |-> e.len - MaxChunk]
<1>1. exts \in Seq(E)
  BY DEF TypeOK
<1> HIDE DEF E
<1>2. /\ e = exts[1] /\ 1 \in DOMAIN exts /\ DOMAIN exts = 1 .. Len(exts) /\ Len(exts) \in Nat
      /\ Tail(exts) \in Seq(E) /\ Len(Tail(exts)) = Len(exts) - 1
      /\ \A i \in 1 .. Len(exts) - 1 : Tail(exts)[i] = exts[i + 1]
  BY <1>1
<1>3. e \in E
  BY <1>1, <1>2, ElementTyped
<1>4. e.len \in Int /\ MaxChunk \in Int
  BY <1>3, ChunkAssumption, SizeAssumption DEF E
<1>5. ASSUME e.len <= MaxChunk
      PROVE  /\ Len(Rest(e) \o Tail(exts)) = Len(exts) - 1
             /\ \A i \in 1 .. Len(exts) - 1 : (Rest(e) \o Tail(exts))[i] = exts[i + 1]
  <2>1. Rest(e) = <<>>
    BY <1>5 DEF Rest
  <2>2. <<>> \o Tail(exts) = Tail(exts)
    BY <1>2
  <2> QED
    BY <2>1, <2>2, <1>2
<1>6. ASSUME e.len > MaxChunk
      PROVE  /\ Len(Rest(e) \o Tail(exts)) = Len(exts)
             /\ (Rest(e) \o Tail(exts))[1] = x
             /\ \A i \in 2 .. Len(exts) : (Rest(e) \o Tail(exts))[i] = exts[i]
  <2>1. Rest(e) = <<x>>
    BY <1>4, <1>6 DEF Rest
  <2> HIDE DEF x
  <2> DEFINE F == E \cup {x}
  <2>2. <<x>> \in Seq(F) /\ Tail(exts) \in Seq(F) /\ Len(<<x>>) = 1 /\ <<x>>[1] = x
    <3>1. Tail(exts) \in Seq(F)
      <4>1. \A i \in 1 .. Len(Tail(exts)) : Tail(exts)[i] \in F
        BY <1>2
      <4> QED
        BY <1>2, <4>1
    <3> QED
      BY <3>1
  <2> HIDE DEF F
  <2>3. /\ Len(<<x>> \o Tail(exts)) = 1 + Len(Tail(exts))
        /\ (<<x>> \o Tail(exts))[1] = x
        /\ \A i \in 2 .. 1 + Len(Tail(exts)) : (<<x>> \o Tail(exts))[i] = Tail(exts)[i - 1]
    BY <2>2, <1>2
  <2>4. \A i \in 2 .. Len(exts) : i - 1 \in 1 .. Len(exts) - 1 /\ (i - 1) + 1 = i
    BY <1>2
  <2>5. 1 + Len(Tail(exts)) = Len(exts)
    BY <1>2
  <2> DEFINE y == <<x>> \o Tail(exts)
             t == Tail(exts)
  <2> HIDE DEF y
  <2>6. Len(y) = Len(exts) /\ y[1] = x /\ \A i \in 2 .. Len(exts) : y[i] = t[i - 1]
    BY <2>3, <2>5 DEF y
  <2> HIDE DEF t
  <2>7. \A i \in 2 .. Len(exts) : t[i - 1] = exts[i]
    BY <2>4, <1>2 DEF t
  <2>8. Rest(e) \o Tail(exts) = y
    BY <2>1 DEF y
  <2> QED
    BY <2>6, <2>7, <2>8
<1> QED
  BY <1>2, <1>5, <1>6

(* The chunk and what it is of.                                            *)
LEMMA ChunkTaken ==
  ASSUME TypeOK, ExtsSound, exts # <<>>, NEW e, e = Head(exts)
  PROVE  /\ e.off \in Offsets /\ e.len \in 1 .. Size /\ e.off + e.len <= Size
         /\ ChunkLen(e) = IF e.len <= MaxChunk THEN e.len ELSE MaxChunk
         /\ ChunkLen(e) \in 1 .. MaxChunk
         /\ Payload(e, ChunkLen(e)) \in Seq(Values)
         /\ Len(Payload(e, ChunkLen(e))) = ChunkLen(e)
         /\ \A k \in 1 .. ChunkLen(e) :
              /\ e.off + k - 1 \in Data
              /\ Payload(e, ChunkLen(e))[k] = src[e.off + k - 1]
<1>1. e = exts[1] /\ 1 \in DOMAIN exts
  BY RestFollows
<1>2. off \in 0 .. Size
  BY DEF TypeOK
<1>4. e.off \in Offsets /\ e.off \in Nat /\ e.len \in 1 .. Size /\ e.len \in Nat
  BY <1>1, ExtentTyped
<1>5. e.off + e.len <= Size /\ \A p \in e.off .. e.off + e.len - 1 : src[p] # Hole
  BY <1>1, <1>2, <1>4, SizeAssumption DEF ExtsSound
<1>6. ChunkLen(e) = IF e.len <= MaxChunk THEN e.len ELSE MaxChunk
  <2> DEFINE S == {MaxChunk, e.len}
  <2>1. S \in SUBSET Nat /\ S # {}
    BY <1>4, ChunkAssumption, SizeAssumption
  <2>2. Min(S) \in S /\ \A x \in S : Min(S) <= x
    <3> HIDE DEF S
    <3> QED
      BY <2>1, MinIsLeast
  <2>3. ChunkLen(e) = Min(S)
    BY DEF ChunkLen
  <2> QED
    BY <2>2, <2>3, <1>4, ChunkAssumption, SizeAssumption
<1>7. ChunkLen(e) \in 1 .. MaxChunk /\ ChunkLen(e) \in 1 .. e.len
  BY <1>4, <1>6, ChunkAssumption, SizeAssumption
<1> DEFINE n == ChunkLen(e)
<1> HIDE DEF n
<1>8. n \in 1 .. e.len /\ n \in Nat
  BY <1>4, <1>7 DEF n
<1>9. \A k \in 1 .. n : e.off + k - 1 \in e.off .. e.off + e.len - 1 /\ e.off + k - 1 \in Offsets
  BY <1>4, <1>5, <1>8, SizeAssumption DEF Offsets
<1>10. \A k \in 1 .. n : e.off + k - 1 \in Data /\ src[e.off + k - 1] \in Values
  BY <1>5, <1>9 DEF Data, TypeOK
<1>11. Payload(e, n) \in [1 .. n -> Values] /\ \A k \in 1 .. n : Payload(e, n)[k] = src[e.off + k - 1]
  BY <1>10 DEF Payload
<1>12. Payload(e, n) \in Seq(Values) /\ Len(Payload(e, n)) = n
  BY <1>8, <1>11
<1> QED
  BY <1>4, <1>5, <1>6, <1>7, <1>10, <1>11, <1>12 DEF n

(* The extents that remain are sound.                                      *)
LEMMA ExtsRemain ==
  ASSUME TypeOK, ExtsSound, SendChunk
  PROVE  /\ exts' \in Seq([off : Offsets, len : 1 .. Size])
         /\ ExtsSound'
<1> DEFINE e == Head(exts)
           x == [off |-> e.off + MaxChunk, len |-> e.len - MaxChunk]
<1>0. exts # <<>> /\ exts' = Rest(e) \o Tail(exts)
  BY DEF SendChunk
<1>1. /\ e = exts[1] /\ 1 \in DOMAIN exts /\ DOMAIN exts = 1 .. Len(exts) /\ Len(exts) \in Nat
      /\ e.len <= MaxChunk =>
           /\ Len(exts') = Len(exts) - 1
           /\ \A i \in 1 .. Len(exts) - 1 : exts'[i] = exts[i + 1]
      /\ e.len > MaxChunk =>
           /\ Len(exts') = Len(exts)
           /\ exts'[1] = x
           /\ \A i \in 2 .. Len(exts) : exts'[i] = exts[i]
  <2> HIDE DEF e
  <2> QED
    BY <1>0, RestFollows DEF e
<1>2. e.off \in Offsets /\ e.len \in 1 .. Size /\ e.off + e.len <= Size /\ e.off \in Nat /\ e.len \in Nat
  <2>1. e.off \in Offsets /\ e.len \in 1 .. Size /\ e.off + e.len <= Size
    BY <1>0, ChunkTaken
  <2> QED
    BY <2>1, SizeAssumption DEF Offsets
<1>3. exts' \in Seq([off : Offsets, len : 1 .. Size])
  <2> DEFINE E == [off : Offsets, len : 1 .. Size]
  <2>1. exts \in Seq(E)
    BY DEF TypeOK
  <2>2. Rest(e) \in Seq(E)
    <3>1. CASE e.len <= MaxChunk
      BY <3>1 DEF Rest
    <3>2. CASE e.len > MaxChunk
      <4>1. x \in E
        BY <1>2, <3>2, SizeAssumption, ChunkAssumption DEF Offsets
      <4>2. Rest(e) = <<x>>
        BY <3>2, <1>2, ChunkAssumption, SizeAssumption DEF Rest
      <4> HIDE DEF x, E
      <4>3. <<x>> \in Seq(E)
        BY <4>1
      <4> QED
        BY <4>2, <4>3
    <3> QED
      BY <3>1, <3>2, <1>2, ChunkAssumption, SizeAssumption
  <2> HIDE DEF E, e
  <2>3. Rest(e) \o Tail(exts) \in Seq(E)
    BY <1>0, <2>1, <2>2
  <2> QED
    BY <1>0, <2>3 DEF E
<1>4. DOMAIN exts' = 1 .. Len(exts') /\ Len(exts') \in Nat
  BY <1>3
<1>m. MaxChunk \in Nat /\ MaxChunk > 0
  BY ChunkAssumption, SizeAssumption
<1>x. x.off = e.off + MaxChunk /\ x.len = e.len - MaxChunk
  OBVIOUS
<1> HIDE DEF e, x
<1> DEFINE J(i) == IF e.len <= MaxChunk THEN i + 1 ELSE i
<1>5. ASSUME NEW i \in DOMAIN exts'
      PROVE  /\ J(i) \in DOMAIN exts
             /\ exts'[i].off \in Nat /\ exts'[i].len \in Nat
             /\ exts'[i].off + exts'[i].len = exts[J(i)].off + exts[J(i)].len
             /\ exts'[i].off >= exts[J(i)].off
  <2>1. CASE e.len <= MaxChunk
    <3>0. J(i) = i + 1
      BY <2>1
    <3> HIDE DEF J
    <3>1. i \in 1 .. Len(exts) - 1 /\ i + 1 \in 1 .. Len(exts)
      <4>1. Len(exts') = Len(exts) - 1 /\ Len(exts) \in Nat
        BY <2>1, <1>1
      <4>2. i \in 1 .. Len(exts')
        BY <1>4
      <4> QED
        BY <4>1, <4>2
    <3>2. J(i) \in DOMAIN exts /\ exts'[i] = exts[J(i)]
      BY <2>1, <3>0, <3>1, <1>1
    <3>3. exts'[i].off \in Nat /\ exts'[i].len \in Nat
      BY <3>2, ExtentTyped
    <3> QED
      BY <3>2, <3>3
  <2>2. CASE e.len > MaxChunk /\ i = 1
    <3>0. J(i) = 1
      BY <2>2, <1>m, <1>2
    <3> HIDE DEF J
    <3>1. exts'[i] = x /\ exts[J(i)] = e /\ J(i) \in DOMAIN exts
      BY <2>2, <3>0, <1>1
    <3>2. /\ x.off \in Nat /\ x.len \in Nat
          /\ x.off + x.len = e.off + e.len /\ x.off >= e.off
      BY <2>2, <1>x, <1>m, <1>2
    <3> QED
      BY <3>1, <3>2
  <2>3. CASE e.len > MaxChunk /\ i # 1
    <3>0. J(i) = i
      BY <2>3, <1>m, <1>2
    <3> HIDE DEF J
    <3>1. i \in 2 .. Len(exts) /\ i \in 1 .. Len(exts)
      <4>1. Len(exts') = Len(exts) /\ Len(exts) \in Nat
        BY <2>3, <1>1
      <4>2. i \in 1 .. Len(exts') /\ i # 1
        BY <2>3, <1>4
      <4> QED
        BY <4>1, <4>2
    <3>2. J(i) \in DOMAIN exts /\ exts'[i] = exts[J(i)]
      BY <2>3, <3>0, <3>1, <1>1
    <3>3. exts'[i].off \in Nat /\ exts'[i].len \in Nat
      BY <3>2, ExtentTyped
    <3> QED
      BY <3>2, <3>3
  <2> QED
    BY <2>1, <2>2, <2>3, <1>2, ChunkAssumption, SizeAssumption
<1>6. \A i, j \in DOMAIN exts' : i < j => J(i) < J(j)
  BY <1>4
<1>7. src' = src /\ off' = off /\ spc' = spc /\ spc = "data"
  BY DEF SendChunk, files
<1> HIDE DEF J
<1>8. ASSUME NEW i \in DOMAIN exts'
      PROVE  /\ exts'[i].off + exts'[i].len <= off'
             /\ \A p \in exts'[i].off .. exts'[i].off + exts'[i].len - 1 : src'[p] # Hole
  <2> DEFINE y == exts[J(i)]
  <2>1. J(i) \in DOMAIN exts /\ y.off \in Nat /\ y.len \in Nat
    BY <1>5, ExtentTyped
  <2>2. y.off + y.len <= off /\ \A p \in y.off .. y.off + y.len - 1 : src[p] # Hole
    BY <2>1 DEF ExtsSound
  <2> DEFINE a == exts'[i].off
             b == exts'[i].len
  <2>3. a + b = y.off + y.len /\ a >= y.off /\ a \in Nat /\ b \in Nat
    BY <1>5
  <2> HIDE DEF y, a, b
  <2>4. \A p \in a .. a + b - 1 : p \in y.off .. y.off + y.len - 1
    BY <2>1, <2>3
  <2> USE DEF a, b
  <2> QED
    BY <2>2, <2>3, <2>4, <1>7
<1>9. ASSUME NEW i \in DOMAIN exts', NEW j \in DOMAIN exts', i < j
      PROVE  exts'[i].off + exts'[i].len <= exts'[j].off
  <2>1. J(i) \in DOMAIN exts /\ J(j) \in DOMAIN exts /\ J(i) < J(j)
    BY <1>5, <1>6, <1>9
  <2>2. exts[J(i)].off + exts[J(i)].len <= exts[J(j)].off
    BY <2>1 DEF ExtsSound
  <2>3. /\ exts'[i].off + exts'[i].len = exts[J(i)].off + exts[J(i)].len
        /\ exts'[j].off >= exts[J(j)].off
        /\ exts'[j].off \in Nat /\ exts[J(j)].off \in Nat /\ exts[J(i)].off \in Nat
        /\ exts[J(i)].len \in Nat
    BY <1>5, <2>1, ExtentTyped
  <2> QED
    BY <2>2, <2>3
<1>10. spc' # "walk" => \A p \in off' .. Size - 1 : src'[p] = Hole
  BY <1>7 DEF ExtsSound
<1>11. ExtsSound'
  BY <1>8, <1>9, <1>10 DEF ExtsSound
<1> QED
  BY <1>3, <1>11

(* A chunk takes the pages at the front of the first extent, which come    *)
(* after all that were sent.                                               *)
LEMMA SendChunkStep == IInv /\ SendChunk => IInv'
<1> SUFFICES ASSUME IInv, SendChunk PROVE IInv'
  OBVIOUS
<1> USE DEF IInv
<1> DEFINE e == Head(exts)
           n == ChunkLen(e)
           p == Payload(e, n)
           r == [kind |-> "extent", off |-> e.off, data |-> p]
           c == Len(scrc)
<1>0. PICK loc : Tracked(loc)
  OBVIOUS
<1>1. /\ spc = "data" /\ exts # <<>> /\ Put(r) /\ scrc' = scrc \o p /\ exts' = Rest(e) \o Tail(exts)
      /\ UNCHANGED <<src, old, spc, off, dst, rpc, rcrc, damage>>
  BY DEF SendChunk, files, receiverVars
<1>2. /\ e.off \in Offsets /\ e.len \in 1 .. Size /\ e.off + e.len <= Size
      /\ n = (IF e.len <= MaxChunk THEN e.len ELSE MaxChunk)
      /\ n \in 1 .. MaxChunk
      /\ p \in Seq(Values) /\ Len(p) = n
      /\ \A k \in 1 .. n : e.off + k - 1 \in Data /\ p[k] = src[e.off + k - 1]
  BY <1>1, ChunkTaken
<1>3. /\ e = exts[1] /\ 1 \in DOMAIN exts /\ DOMAIN exts = 1 .. Len(exts) /\ Len(exts) \in Nat
      /\ e.len <= MaxChunk =>
           /\ Len(exts') = Len(exts) - 1
           /\ \A i \in 1 .. Len(exts) - 1 : exts'[i] = exts[i + 1]
      /\ e.len > MaxChunk =>
           /\ Len(exts') = Len(exts)
           /\ exts'[1] = [off |-> e.off + MaxChunk, len |-> e.len - MaxChunk]
           /\ \A i \in 2 .. Len(exts) : exts'[i] = exts[i]
  <2> HIDE DEF e
  <2> QED
    BY <1>1, RestFollows DEF e
<1>a. e = exts[1] /\ DOMAIN exts = 1 .. Len(exts) /\ Len(exts) \in Nat
  BY <1>3
<1>b. e.len > MaxChunk => exts'[1].off = e.off + MaxChunk /\ exts'[1].len = e.len - MaxChunk
  <2> HIDE DEF e
  <2> HAVE e.len > MaxChunk
  <2>1. exts'[1] = [off |-> e.off + MaxChunk, len |-> e.len - MaxChunk]
    BY <1>3
  <2> QED
    BY <2>1
<1>4. exts' \in Seq([off : Offsets, len : 1 .. Size]) /\ ExtsSound'
  BY ExtsRemain
<1>5. r \in Records /\ r.kind = "extent" /\ r.off = e.off /\ r.data = p /\ wire \in Seq(Records)
  <2>1. e.off \in 0 .. TrailerOffset /\ p \in Seq(Values)
    BY <1>2, SizeAssumption DEF Offsets, TrailerOffset
  <2> HIDE DEF e, n, p
  <2>2. r \in Extents /\ r.kind = "extent" /\ r.off = e.off /\ r.data = p
    BY <2>1 DEF Extents
  <2>3. wire \in Seq(Records)
    BY DEF TypeOK, Records
  <2> QED
    BY <2>2, <2>3 DEF Records
<1>6. /\ e.off \in Nat /\ e.len \in Nat /\ n \in Nat /\ n > 0 /\ MaxChunk \in Nat
      /\ c \in Nat /\ scrc \in Seq(Values)
  <2>1. scrc \in Seq(Values)
    BY DEF TypeOK
  <2>2. c \in Nat
    BY <2>1
  <2> HIDE DEF e, n, p, r, c
  <2>3. e.off \in Nat /\ e.len \in Nat /\ MaxChunk \in Nat
    BY <1>2, SizeAssumption, ChunkAssumption DEF Offsets
  <2>4. n \in Nat /\ n > 0
    BY <1>2, <2>3
  <2> QED
    BY <2>1, <2>2, <2>3, <2>4
<1> HIDE DEF e, n, p, r
<1>7. /\ wire' \in Seq(Records)
      /\ Len(wire) \in Nat /\ Len(wire') = Len(wire) + 1
      /\ DOMAIN wire = 1 .. Len(wire) /\ DOMAIN wire' = 1 .. Len(wire) + 1
      /\ wire'[Len(wire) + 1] = r
      /\ \A i \in 1 .. Len(wire) : wire'[i] = wire[i]
  BY <1>1, <1>5, PutAppends
<1>8. /\ scrc' \in Seq(Values) /\ Len(scrc') = c + n
      /\ \A k \in 1 .. c : scrc'[k] = scrc[k]
      /\ \A k \in 1 .. n : scrc'[c + k] = p[k]
  <2>1. /\ scrc \o p \in Seq(Values) /\ Len(scrc \o p) = Len(scrc) + Len(p)
        /\ \A k \in 1 .. Len(scrc) : (scrc \o p)[k] = scrc[k]
        /\ \A k \in 1 .. Len(p) : (scrc \o p)[Len(scrc) + k] = p[k]
    <3>1. scrc \in Seq(Values) /\ p \in Seq(Values)
      BY <1>2, <1>6
    <3> QED
      BY <3>1, ConcatReads
  <2> QED
    BY <1>1, <1>2, <2>1
<1> HIDE DEF c
<1>9. SizeRespected' /\ PartOfFile' /\ NoFalseReject'
  BY <1>1 DEF SizeRespected, PartOfFile, NoFalseReject, Before, Data
<1>10. TypeOK'
  BY <1>1, <1>4, <1>7, <1>8 DEF TypeOK, Records
<1>11. WireSound'
  <2>1. rpc # "ok" /\ "cut" \notin damage
    BY <1>1 DEF WireSound
  <2>2. \A i \in DOMAIN wire' :
          /\ wire'[i].kind = "header" <=> (i = 1 /\ rpc = "header")
          /\ wire'[i].kind = "extent" => Len(wire'[i].data) \in 1 .. MaxChunk
          /\ wire'[i].kind # "trailer"
    <3> TAKE i \in DOMAIN wire'
    <3>1. CASE i \in 1 .. Len(wire)
      BY <3>1, <1>1, <1>7 DEF WireSound
    <3>2. CASE i = Len(wire) + 1
      <4>1. i # 1 \/ rpc # "header"
        BY <3>2, <1>1, <1>7 DEF WireSound
      <4> QED
        BY <4>1, <3>2, <1>2, <1>5, <1>7
    <3> QED
      BY <3>1, <3>2, <1>7
  <2>3. wire' # <<>>
    BY <1>7
  <2> QED
    BY <1>1, <2>1, <2>2, <2>3 DEF WireSound
<1>l. PICK lo : lo = [k \in 1 .. c + n |-> IF k \in 1 .. c THEN loc[k] ELSE e.off + (k - c) - 1]
  OBVIOUS
<1>12. /\ \A k \in 1 .. c : lo[k] = loc[k]
       /\ \A k \in 1 .. n : c + k \in 1 .. c + n /\ lo[c + k] = e.off + k - 1
       /\ DOMAIN lo = 1 .. c + n
  <2>1. \A k \in 1 .. c : k \in 1 .. c + n
    BY <1>6
  <2>2. \A k \in 1 .. n : c + k \in 1 .. c + n /\ c + k \notin 1 .. c /\ (c + k) - c = k
    BY <1>6
  <2> QED
    BY <1>l, <2>1, <2>2
<1>13. \A k \in 1 .. c + n : k \in 1 .. c \/ (k - c \in 1 .. n /\ k = c + (k - c))
  BY <1>6
<1>14. lo = [k \in 1 .. c + n |-> lo[k]]
  BY <1>l
<1>15. Sent(lo)'
  <2>1. /\ loc \in [1 .. c -> Data]
        /\ \A j, k \in 1 .. c : j < k => loc[j] < loc[k]
        /\ \A k \in 1 .. c : scrc[k] = src[loc[k]]
        /\ \A k \in 1 .. c : loc[k] < e.off
    BY <1>0, <1>3 DEF Tracked, Sent, c
  <2>2. \A k \in 1 .. c + n : lo[k] \in Data
    <3> TAKE k \in 1 .. c + n
    <3>1. CASE k \in 1 .. c
      BY <3>1, <1>12, <2>1
    <3>2. CASE k - c \in 1 .. n /\ k = c + (k - c)
      BY <3>2, <1>2, <1>12
    <3> QED
      BY <1>13, <3>1, <3>2
  <2>3. lo \in [1 .. c + n -> Data]
    BY <1>14, <2>2
  <2>4. \A i \in Data : i \in Nat
    BY SizeAssumption DEF Data, Offsets
  <2>5. \A j, k \in 1 .. c + n : j < k => lo[j] < lo[k]
    <3> TAKE j, k \in 1 .. c + n
    <3> HAVE j < k
    <3>1. CASE k \in 1 .. c
      <4>1. j \in 1 .. c
        BY <3>1, <1>6
      <4> QED
        BY <3>1, <4>1, <1>12, <2>1
    <3>2. CASE j \in 1 .. c /\ k - c \in 1 .. n /\ k = c + (k - c)
      <4>1. lo[j] = loc[j] /\ loc[j] < e.off /\ loc[j] \in Nat
        BY <3>2, <1>12, <2>1, <2>4
      <4>2. lo[k] = e.off + (k - c) - 1
        BY <3>2, <1>12
      <4> QED
        BY <3>2, <4>1, <4>2, <1>6
    <3>3. CASE j - c \in 1 .. n /\ j = c + (j - c) /\ k - c \in 1 .. n /\ k = c + (k - c)
      <4>1. lo[j] = e.off + (j - c) - 1 /\ lo[k] = e.off + (k - c) - 1
        BY <3>3, <1>12
      <4> QED
        BY <3>3, <4>1, <1>6
    <3> QED
      BY <1>13, <3>1, <3>2, <3>3
  <2>6. \A k \in 1 .. c + n : scrc'[k] = src[lo[k]]
    <3> TAKE k \in 1 .. c + n
    <3>1. CASE k \in 1 .. c
      BY <3>1, <1>8, <1>12, <2>1
    <3>2. CASE k - c \in 1 .. n /\ k = c + (k - c)
      BY <3>2, <1>2, <1>8, <1>12
    <3> QED
      BY <1>13, <3>1, <3>2
  <2>7. \A i \in DOMAIN exts' : exts'[i].off \in Nat /\ exts'[i].off >= e.off + n
    <3> TAKE i \in DOMAIN exts'
    <3>1. exts'[i].off \in Nat
      BY <1>4, PieceTyped
    <3>2. i \in 1 .. Len(exts')
      BY <1>4
    <3>3. ASSUME NEW j \in 2 .. Len(exts)
          PROVE  exts[j].off >= e.off + n
      <4>1. j \in DOMAIN exts /\ 1 < j
        BY <1>a
      <4>2. e.off + e.len <= exts[j].off
        BY <1>3, <4>1 DEF ExtsSound
      <4>3. exts[j].off \in Nat
        BY <4>1, ExtentTyped
      <4> QED
        BY <4>2, <4>3, <1>2, <1>6
    <3>4. CASE e.len <= MaxChunk
      <4>1. Len(exts') = Len(exts) - 1 /\ Len(exts) \in Nat
        BY <3>4, <1>3
      <4>2. i \in 1 .. Len(exts) - 1 /\ i + 1 \in 2 .. Len(exts)
        BY <3>2, <4>1
      <4>3. exts'[i] = exts[i + 1]
        BY <3>4, <4>2, <1>3
      <4> QED
        BY <3>1, <3>3, <4>2, <4>3
    <3>5. CASE e.len > MaxChunk /\ i = 1
      <4>1. exts'[1].off = e.off + MaxChunk /\ n = MaxChunk
        BY <3>5, <1>2, <1>b, <1>6
      <4> QED
        BY <3>1, <3>5, <4>1, <1>6
    <3>6. CASE e.len > MaxChunk /\ i # 1
      <4>1. Len(exts') = Len(exts) /\ Len(exts) \in Nat
        BY <3>6, <1>3
      <4>2. i \in 2 .. Len(exts)
        BY <3>2, <3>6, <4>1
      <4> QED
        BY <3>1, <3>3, <3>6, <4>2, <1>3
    <3> QED
      BY <3>4, <3>5, <3>6, <1>6
  <2>8. \A k \in 1 .. c + n : \A i \in DOMAIN exts' : lo[k] < exts'[i].off
    <3> TAKE k \in 1 .. c + n
    <3> TAKE i \in DOMAIN exts'
    <3>1. exts'[i].off \in Nat /\ exts'[i].off >= e.off + n
      BY <2>7
    <3>2. CASE k \in 1 .. c
      <4>1. lo[k] < e.off /\ lo[k] \in Nat
        BY <3>2, <1>12, <2>1, <2>4
      <4> QED
        BY <3>1, <4>1, <1>6
    <3>3. CASE k - c \in 1 .. n /\ k = c + (k - c)
      <4>1. lo[k] = e.off + (k - c) - 1
        BY <3>3, <1>12
      <4> QED
        BY <3>1, <3>3, <4>1, <1>6
    <3> QED
      BY <1>13, <3>2, <3>3
  <2>9. \A i \in Data :
          \/ i >= off
          \/ \E j \in DOMAIN exts' : exts'[j].off <= i /\ i < exts'[j].off + exts'[j].len
          \/ \E k \in 1 .. c + n : lo[k] = i
    <3> TAKE i \in Data
    <3>0. i \in Nat
      BY <2>4
    <3>1. CASE \E k \in 1 .. c : loc[k] = i
      <4>1. PICK k \in 1 .. c : loc[k] = i
        BY <3>1
      <4>2. k \in 1 .. c + n
        BY <1>6
      <4> QED
        BY <4>1, <4>2, <1>12
    <3>2. CASE e.off <= i /\ i < e.off + n
      <4>1. i - e.off + 1 \in 1 .. n /\ e.off + (i - e.off + 1) - 1 = i
        BY <3>0, <3>2, <1>6
      <4> QED
        BY <4>1, <1>12
    <3>3. CASE e.off + n <= i /\ i < e.off + e.len
      <4>1. e.len > MaxChunk /\ n = MaxChunk
        BY <3>0, <3>3, <1>2, <1>6
      <4>2. /\ Len(exts') = Len(exts)
            /\ exts'[1].off = e.off + MaxChunk /\ exts'[1].len = e.len - MaxChunk
        <5>1. Len(exts') = Len(exts)
          BY <4>1, <1>3
        <5> QED
          BY <5>1, <4>1, <1>b
      <4>3. 1 \in DOMAIN exts'
        BY <4>2, <1>3, <1>4
      <4>4. exts'[1].off <= i /\ i < exts'[1].off + exts'[1].len
        BY <3>0, <3>3, <4>1, <4>2, <1>6
      <4> QED
        BY <4>3, <4>4
    <3>4. ASSUME NEW j \in 2 .. Len(exts), exts[j].off <= i, i < exts[j].off + exts[j].len
          PROVE  \E m \in DOMAIN exts' : exts'[m].off <= i /\ i < exts'[m].off + exts'[m].len
      <4>1. CASE e.len <= MaxChunk
        <5>1. Len(exts') = Len(exts) - 1 /\ Len(exts) \in Nat
          BY <4>1, <1>3
        <5>2. j - 1 \in 1 .. Len(exts) - 1 /\ j - 1 \in 1 .. Len(exts') /\ (j - 1) + 1 = j
          BY <5>1
        <5>3. exts'[j - 1] = exts[j] /\ j - 1 \in DOMAIN exts'
          <6>1. \A m \in 1 .. Len(exts) - 1 : exts'[m] = exts[m + 1]
            BY <4>1, <1>3
          <6> QED
            BY <6>1, <5>2, <1>4
        <5> QED
          BY <3>4, <5>3
      <4>2. CASE e.len > MaxChunk
        <5>1. Len(exts') = Len(exts) /\ Len(exts) \in Nat
          BY <4>2, <1>3
        <5>2. j \in 1 .. Len(exts')
          BY <5>1
        <5>3. exts'[j] = exts[j] /\ j \in DOMAIN exts'
          <6>1. \A m \in 2 .. Len(exts) : exts'[m] = exts[m]
            BY <4>2, <1>3
          <6> QED
            BY <6>1, <5>2, <1>4
        <5> QED
          BY <3>4, <5>3
      <4> QED
        BY <4>1, <4>2, <1>6
    <3>5. CASE \E j \in DOMAIN exts : exts[j].off <= i /\ i < exts[j].off + exts[j].len
      <4>1. PICK j \in 1 .. Len(exts) : exts[j].off <= i /\ i < exts[j].off + exts[j].len
        BY <3>5, <1>3
      <4>2. j \in 2 .. Len(exts) \/ j = 1
        BY <1>a
      <4>3. CASE j = 1
        <5>1. e.off <= i /\ i < e.off + e.len
          BY <4>1, <4>3, <1>3
        <5> QED
          BY <5>1, <3>0, <3>2, <3>3, <1>6
      <4> QED
        BY <3>4, <4>1, <4>2, <4>3
    <3> QED
      BY <1>0, <3>1, <3>5 DEF Tracked, Sent, c
  <2>10. Data' = Data
    BY <1>1 DEF Data
  <2> QED
    BY <1>1, <1>8, <2>3, <2>5, <2>6, <2>8, <2>9, <2>10 DEF Sent
<1>16. ASSUME rpc # "err", "cut" \notin damage
       PROVE  Placed(lo)' /\ \E q : Carried(wire', Len(rcrc), scrc', damage, lo, q)
  <2>1. PICK pos : Carried(wire, Len(rcrc), scrc, damage, loc, pos)
    BY <1>0, <1>16 DEF Tracked
  <2>2. Placed(loc) /\ rcrc \in Seq(Values) /\ Len(rcrc) \in Nat
    BY <1>0, <1>16 DEF Tracked, TypeOK
  <2>3. Len(rcrc) <= c /\ \A k \in 1 .. Len(rcrc) : k \in 1 .. c
    BY <2>2, <1>6 DEF Placed, c
  <2>4. \A k \in 1 .. Len(rcrc) : lo[k] = loc[k] /\ scrc'[k] = scrc[k]
    BY <2>3, <1>8, <1>12
  <2>5. Placed(lo)'
    <3>1. Len(rcrc) <= Len(scrc')
      BY <2>2, <2>3, <1>6, <1>8
    <3>2. \A i : Before(i)' = Before(i)
      BY <1>1 DEF Before
    <3> QED
      BY <1>1, <2>2, <2>4, <3>1, <3>2 DEF Placed
  <2>6. Weight(r) = Len(p)
    BY <1>5 DEF Weight
  <2>7. Fills(r, c, scrc', damage, lo)
    <3>1. \A k \in 1 .. Len(r.data) : r.off + k - 1 = lo[c + k] /\ r.data[k] = scrc'[c + k]
      BY <1>2, <1>5, <1>8, <1>12
    <3> QED
      BY <3>1 DEF Fills
  <2>8. \A k \in 1 .. Len(scrc) : lo[k] = loc[k]
    BY <1>12 DEF c
  <2>9. \E q : Carried(wire', Len(rcrc), scrc \o p, damage, lo, q)
    <3>1. p \in Seq(Values) /\ scrc \in Seq(Values)
      BY <1>2, <1>6
    <3>2. Fills(r, Len(scrc), scrc \o p, damage, lo)
      BY <2>7, <1>1 DEF c
    <3> QED
      BY <2>1, <2>6, <2>8, <3>1, <3>2, <1>5, <1>7, CarriedAppend
  <2> QED
    BY <2>5, <2>9, <1>1
<1>17. Tracked(lo)'
  BY <1>1, <1>15, <1>16 DEF Tracked
<1> QED
  BY <1>9, <1>10, <1>4, <1>11, <1>17

(* The reply changes what the sender believes, nothing else.               *)
LEMMA ReplyStep == IInv /\ Reply => IInv'
<1> SUFFICES ASSUME IInv, Reply PROVE IInv'
  OBVIOUS
<1> USE DEF IInv, Reply, files, receiverVars
<1>0. PICK loc : Tracked(loc)
  OBVIOUS
<1>1. TypeOK' /\ ExtsSound'
  BY DEF TypeOK, ExtsSound
<1>2. WireSound'
  BY DEF WireSound
<1>3. SizeRespected' /\ PartOfFile' /\ NoFalseReject'
  BY DEF SizeRespected, PartOfFile, NoFalseReject, Before, Data
<1>4. Tracked(loc)'
  BY <1>0 DEF Tracked, Sent, Placed, Data, Before
<1> QED
  BY <1>1, <1>2, <1>3, <1>4

-----------------------------------------------------------------------------
(* Receive.                                                                *)

(* The rest of the wire after its first record.                            *)
LEMMA TailReads ==
  ASSUME wire \in Seq(Records), wire # <<>>, wire' = Tail(wire)
  PROVE  /\ wire' \in Seq(Records) /\ Head(wire) = wire[1] /\ wire[1] \in Records
         /\ 1 \in DOMAIN wire /\ DOMAIN wire = 1 .. Len(wire)
         /\ Len(wire) \in Nat /\ Len(wire') = Len(wire) - 1 /\ DOMAIN wire' = 1 .. Len(wire) - 1
         /\ \A i \in DOMAIN wire' : i + 1 \in DOMAIN wire /\ wire'[i] = wire[i + 1]
<1> HIDE DEF Records
<1> QED
  OBVIOUS

(* What is left of the wire is sound if the receiver is past the header.   *)
LEMMA WireRemains ==
  ASSUME TypeOK, WireSound, wire # <<>>, wire' = Tail(wire), rpc' # "header",
         UNCHANGED <<spc, exts, scrc>>
  PROVE  \A i \in DOMAIN wire' :
           /\ wire'[i].kind # "header"
           /\ wire'[i].kind = "extent" => Len(wire'[i].data) \in 1 .. MaxChunk
           /\ wire'[i].kind = "trailer" => /\ i = Len(wire') /\ spc' \in {"sent", "failed"}
                                           /\ wire'[i].crc = scrc' /\ exts' = <<>>
<1> TAKE i \in DOMAIN wire'
<1>1. /\ i + 1 \in DOMAIN wire /\ wire'[i] = wire[i + 1] /\ i \in Nat /\ i + 1 # 1
      /\ Len(wire') = Len(wire) - 1 /\ Len(wire) \in Nat
  <2>1. wire \in Seq(Records)
    BY DEF TypeOK, Records
  <2> QED
    BY <2>1, TailReads
<1>2. /\ wire[i + 1].kind # "header"
      /\ wire[i + 1].kind = "extent" => Len(wire[i + 1].data) \in 1 .. MaxChunk
      /\ wire[i + 1].kind = "trailer" => /\ i + 1 = Len(wire) /\ spc \in {"sent", "failed"}
                                         /\ wire[i + 1].crc = scrc /\ exts = <<>>
  BY <1>1 DEF WireSound
<1> QED
  BY <1>1, <1>2

(* The file gets its size and keeps what it holds.                         *)
LEMMA ReadHeaderStep == IInv /\ ReadHeader => IInv'
<1> SUFFICES ASSUME IInv, ReadHeader PROVE IInv'
  OBVIOUS
<1> USE DEF IInv
<1>0. PICK loc : Tracked(loc)
  OBVIOUS
<1>1. /\ rpc = "header" /\ rpc' = "records" /\ wire # <<>> /\ wire' = Tail(wire)
      /\ dst' = Resized(dst, Head(wire).size)
      /\ UNCHANGED <<src, old, spc, exts, off, scrc, rcrc, damage>>
  BY DEF ReadHeader, files, senderVars
<1>2. wire \in Seq(Records)
  BY DEF TypeOK, Records
<1>3. /\ wire' \in Seq(Records) /\ Head(wire) = wire[1] /\ wire[1] \in Records
      /\ 1 \in DOMAIN wire
  BY <1>1, <1>2, TailReads
<1>4. wire[1].kind = "header" /\ dst = old /\ rcrc = <<>> /\ "cut" \notin damage
  BY <1>1, <1>3 DEF WireSound
<1>5. Head(wire).size = Size
  BY <1>3, <1>4 DEF Records, Headers, Extents, Trailers
<1>6. dst' \in [Offsets -> Values] /\ DOMAIN dst' = Offsets /\ \A i \in Offsets : dst'[i] = Before(i)
  <2>1. dst' = [i \in Offsets |-> Before(i)]
    BY <1>1, <1>4, <1>5 DEF Resized, Before, Offsets
  <2>2. \A i \in Offsets : Before(i) \in Values
    BY <1>4, HoleAssumption DEF Before, TypeOK
  <2> QED
    BY <2>1, <2>2
<1>7. TypeOK' /\ ExtsSound'
  BY <1>1, <1>3, <1>6 DEF TypeOK, ExtsSound, Records
<1>8. WireSound'
  <2>1. \A i \in DOMAIN wire' :
          /\ wire'[i].kind # "header"
          /\ wire'[i].kind = "extent" => Len(wire'[i].data) \in 1 .. MaxChunk
          /\ wire'[i].kind = "trailer" => /\ i = Len(wire') /\ spc' \in {"sent", "failed"}
                                          /\ wire'[i].crc = scrc' /\ exts' = <<>>
    BY <1>1, WireRemains
  <2>2. spc \in {"data", "sent"}
    BY <1>1 DEF WireSound, TypeOK
  <2> QED
    BY <1>1, <1>4, <1>6, <2>1, <2>2 DEF WireSound
<1>9. SizeRespected' /\ PartOfFile' /\ NoFalseReject'
  <2>1. \A i : Before(i)' = Before(i)
    BY <1>1 DEF Before
  <2> QED
    BY <1>1, <1>6, <2>1 DEF SizeRespected, PartOfFile, NoFalseReject
<1>10. Tracked(loc)'
  <2>1. Sent(loc)'
    BY <1>0, <1>1 DEF Tracked, Sent, Data
  <2>2. PICK pos : Carried(wire, Len(rcrc), scrc, damage, loc, pos)
    BY <1>0, <1>1, <1>4 DEF Tracked
  <2>3. Weight(wire[1]) = 0 /\ Len(rcrc) = 0 /\ scrc \in Seq(Values)
    BY <1>4 DEF Weight, TypeOK
  <2>4. \E q : Carried(Tail(wire), Len(rcrc) + Weight(wire[1]), scrc, damage, loc, q)
    BY <1>1, <1>2, <2>2, <2>3, CarriedTail
  <2>5. \E q : Carried(wire', Len(rcrc), scrc, damage, loc, q)
    BY <1>1, <2>3, <2>4
  <2>6. Placed(loc)'
    <3>1. \A i : Before(i)' = Before(i)
      BY <1>1 DEF Before
    <3>2. Len(scrc) \in Nat
      BY <2>3
    <3> QED
      BY <1>1, <1>6, <2>3, <3>1, <3>2 DEF Placed
  <2> QED
    BY <1>1, <2>1, <2>5, <2>6 DEF Tracked
<1> QED
  BY <1>7, <1>8, <1>9, <1>10

(* The record that ReadExtent takes, as the sender has sent it.            *)
LEMMA ReadExtentStep == IInv /\ ReadExtent => IInv'
<1> SUFFICES ASSUME IInv, ReadExtent PROVE IInv'
  OBVIOUS
<1> USE DEF IInv
<1> DEFINE o == Head(wire).off
           p == Head(wire).data
           c == Len(rcrc)
           n == Len(p)
           Accepted == o # TrailerOffset /\ Fits(o, n) /\ NonNegative(o)
<1>0. PICK loc : Tracked(loc)
  OBVIOUS
<1>1. /\ rpc = "records" /\ wire # <<>> /\ wire' = Tail(wire) /\ Head(wire).kind = "extent"
      /\ Accepted => dst' = Written(dst, o, p) /\ rcrc' = rcrc \o p /\ rpc' = rpc
      /\ ~Accepted => dst' = dst /\ rcrc' = rcrc /\ rpc' = "err"
      /\ UNCHANGED <<src, old, spc, exts, off, scrc, damage>>
  BY DEF ReadExtent, files, senderVars
<1>2. wire \in Seq(Records)
  BY DEF TypeOK, Records
<1>3. /\ wire' \in Seq(Records) /\ Head(wire) = wire[1] /\ wire[1] \in Records
      /\ 1 \in DOMAIN wire
  BY <1>1, <1>2, TailReads
<1>4. wire[1] \in Extents /\ wire[1].kind = "extent"
  BY <1>1, <1>3 DEF Records, Headers, Extents, Trailers
<1>5. o \in 0 .. TrailerOffset /\ o \in Nat /\ p \in Seq(Values) /\ n \in Nat
  BY <1>3, <1>4, SizeAssumption DEF Extents, TrailerOffset
<1>6. n \in 1 .. MaxChunk
  BY <1>3, <1>4 DEF WireSound
<1>7. "cut" \notin damage /\ DOMAIN dst = Offsets /\ spc # "failed" /\ spc \in {"data", "sent"}
  BY <1>1 DEF WireSound, TypeOK
<1>8. Sent(loc) /\ Placed(loc)
  BY <1>0, <1>1, <1>7 DEF Tracked
<1>9. rcrc \in Seq(Values) /\ scrc \in Seq(Values) /\ c \in Nat /\ Len(scrc) \in Nat
  BY DEF TypeOK
<1>10. /\ \E q : Carried(wire', c + n, scrc, damage, loc, q)
       /\ c + n <= Len(scrc) /\ Fills(wire[1], c, scrc, damage, loc)
  <2>1. PICK pos : Carried(wire, c, scrc, damage, loc, pos)
    BY <1>0, <1>1, <1>7 DEF Tracked
  <2>2. Weight(wire[1]) = n
    BY <1>3, <1>4 DEF Weight
  <2>3. /\ \E q : Carried(Tail(wire), c + Weight(wire[1]), scrc, damage, loc, q)
        /\ c + Weight(wire[1]) <= Len(scrc) /\ Fills(wire[1], c, scrc, damage, loc)
    BY <1>1, <1>2, <1>9, <2>1, CarriedTail
  <2> QED
    BY <1>1, <2>2, <2>3
<1>11. \A k \in 1 .. n :
         /\ c + k \in 1 .. Len(scrc) /\ loc[c + k] \in Data
         /\ "offset" \notin damage => o + k - 1 = loc[c + k]
         /\ "payload" \notin damage => p[k] = scrc[c + k]
  <2> TAKE k \in 1 .. n
  <2>1. c + k \in 1 .. Len(scrc)
    BY <1>5, <1>9, <1>10
  <2>2. loc[c + k] \in Data
    BY <1>8, <2>1 DEF Sent
  <2>3. /\ "offset" \notin damage => o + k - 1 = loc[c + k]
        /\ "payload" \notin damage => p[k] = scrc[c + k]
    BY <1>3, <1>4, <1>10 DEF Fills
  <2> QED
    BY <2>1, <2>2, <2>3
<1>w. \A i \in DOMAIN wire' :
        /\ wire'[i].kind # "header"
        /\ wire'[i].kind = "extent" => Len(wire'[i].data) \in 1 .. MaxChunk
        /\ wire'[i].kind = "trailer" => /\ i = Len(wire') /\ spc' \in {"sent", "failed"}
                                        /\ wire'[i].crc = scrc' /\ exts' = <<>>
  BY <1>1, WireRemains
<1>d. Data' = Data /\ (\A i : Before(i)' = Before(i)) /\ \A i \in Data : i \in Offsets /\ i \in Nat /\ i < Size
  BY <1>1, SizeAssumption DEF Data, Before, Offsets
<1> HIDE DEF o, p, c, n
<1>12. CASE ~Accepted
  <2>1. damage # {}
    <3> SUFFICES ASSUME damage = {} PROVE FALSE
      OBVIOUS
    <3>1. o + n - 1 = loc[c + n] /\ loc[c + n] \in Data
      BY <1>5, <1>6, <1>11
    <3>2. o + n - 1 < Size
      BY <3>1, <1>d
    <3>3. o + n <= Size
      BY <3>2, <1>5, SizeAssumption
    <3> QED
      BY <3>3, <1>5, <1>6, <1>12, InsideFits
  <2>2. TypeOK' /\ ExtsSound'
    BY <1>1, <1>3, <1>12 DEF TypeOK, ExtsSound, Records
  <2>3. WireSound'
    BY <1>1, <1>7, <1>12, <1>w DEF WireSound
  <2>4. SizeRespected' /\ PartOfFile' /\ NoFalseReject'
    BY <1>1, <1>12, <1>d, <2>1 DEF SizeRespected, PartOfFile, NoFalseReject
  <2>5. Tracked(loc)'
    BY <1>1, <1>8, <1>12, <1>d DEF Tracked, Sent
  <2> QED
    BY <2>2, <2>3, <2>4, <2>5
<1>13. CASE Accepted
  <2>1. o + n <= Size
    BY <1>5, <1>13, FitsIsInside
  <2>2. dst \in [Offsets -> Values]
    BY <1>7 DEF TypeOK
  <2>3. /\ dst' \in [Offsets -> Values]
        /\ \A k \in 1 .. n : o + k - 1 \in Offsets /\ dst'[o + k - 1] = p[k]
        /\ \A i \in Offsets : i \notin o .. o + n - 1 => dst'[i] = dst[i]
    <3>1. o \in Nat /\ p \in Seq(Values) /\ o + Len(p) <= Size
      BY <1>5, <2>1 DEF n
    <3>2. /\ Written(dst, o, p) \in [Offsets -> Values]
          /\ \A k \in 1 .. Len(p) : o + k - 1 \in Offsets /\ Written(dst, o, p)[o + k - 1] = p[k]
          /\ \A i \in Offsets : i \notin o .. o + Len(p) - 1 => Written(dst, o, p)[i] = dst[i]
      BY <2>2, <3>1, WrittenInside
    <3>3. dst' = Written(dst, o, p)
      BY <1>1, <1>13
    <3> QED
      BY <3>2, <3>3 DEF n
  <2>4. /\ rcrc' \in Seq(Values) /\ Len(rcrc') = c + n
        /\ \A k \in 1 .. c : rcrc'[k] = rcrc[k]
        /\ \A k \in 1 .. n : rcrc'[c + k] = p[k]
    <3>1. /\ rcrc \o p \in Seq(Values) /\ Len(rcrc \o p) = Len(rcrc) + Len(p)
          /\ \A k \in 1 .. Len(rcrc) : (rcrc \o p)[k] = rcrc[k]
          /\ \A k \in 1 .. Len(p) : (rcrc \o p)[Len(rcrc) + k] = p[k]
      <4>1. rcrc \in Seq(Values) /\ p \in Seq(Values)
        BY <1>5, <1>9
      <4> QED
        BY <4>1, ConcatReads
    <3> QED
      BY <1>1, <1>13, <3>1 DEF c, n
  <2>5. rpc' = "records"
    BY <1>1, <1>13
  <2>6. TypeOK' /\ ExtsSound'
    BY <1>1, <1>3, <2>3, <2>4, <2>5 DEF TypeOK, ExtsSound, Records
  <2>7. WireSound'
    BY <1>1, <1>7, <1>w, <2>3, <2>5 DEF WireSound
  <2>8. \A i \in o .. o + n - 1 : i - o + 1 \in 1 .. n /\ i = o + (i - o + 1) - 1
    BY <1>5
  <2>9. PartOfFile'
    <3> SUFFICES ASSUME damage \subseteq {"cut"}, NEW i \in Offsets
                 PROVE  dst'[i] = Before(i) \/ (i \in Data /\ dst'[i] = src[i])
      BY <1>1, <1>d, <2>3 DEF PartOfFile
    <3>1. CASE i \in o .. o + n - 1
      <4> DEFINE k == i - o + 1
      <4>1. k \in 1 .. n /\ i = o + k - 1
        BY <2>8, <3>1
      <4> HIDE DEF k
      <4>2. dst'[i] = p[k] /\ p[k] = scrc[c + k] /\ i = loc[c + k] /\ c + k \in 1 .. Len(scrc)
            /\ loc[c + k] \in Data
        BY <4>1, <1>7, <1>11, <2>3
      <4>3. scrc[c + k] = src[loc[c + k]]
        BY <4>2, <1>8 DEF Sent
      <4> QED
        BY <4>2, <4>3
    <3>2. CASE i \notin o .. o + n - 1
      <4>1. dst'[i] = dst[i]
        BY <3>2, <2>3
      <4> QED
        BY <4>1, <1>7 DEF PartOfFile
    <3> QED
      BY <3>1, <3>2
  <2>10. SizeRespected' /\ NoFalseReject'
    BY <1>1, <2>3, <2>5 DEF SizeRespected, NoFalseReject
  <2>11. Sent(loc)'
    BY <1>1, <1>8, <1>d DEF Sent
  <2>12. \A k \in 1 .. c + n : k \in 1 .. c \/ (k - c \in 1 .. n /\ k = c + (k - c))
    BY <1>5, <1>9
  <2>13. Placed(loc)'
    <3>1. ASSUME "payload" \notin damage, NEW k \in 1 .. c + n
          PROVE  rcrc'[k] = scrc[k]
      <4>1. CASE k \in 1 .. c
        BY <3>1, <4>1, <1>8, <2>4 DEF Placed, c
      <4>2. CASE k - c \in 1 .. n /\ k = c + (k - c)
        BY <3>1, <4>2, <1>11, <2>4
      <4> QED
        BY <4>1, <4>2, <2>12
    <3>2. ASSUME "offset" \notin damage, NEW k \in 1 .. c + n
          PROVE  dst'[loc[k]] = rcrc'[k]
      <4>1. CASE k \in 1 .. c
        <5>1. k \in 1 .. Len(scrc) /\ loc[k] \in Offsets
          <6>1. k \in 1 .. Len(scrc)
            BY <4>1, <1>5, <1>9, <1>10
          <6>2. loc[k] \in Data
            BY <6>1, <1>8 DEF Sent
          <6> QED
            BY <6>1, <6>2, <1>d
        <5>2. loc[k] \notin o .. o + n - 1
          <6> SUFFICES ASSUME loc[k] \in o .. o + n - 1 PROVE FALSE
            OBVIOUS
          <6> DEFINE j == loc[k] - o + 1
          <6>1. j \in 1 .. n /\ loc[k] = o + j - 1
            BY <2>8
          <6> HIDE DEF j
          <6>2. loc[c + j] = loc[k] /\ c + j \in 1 .. Len(scrc)
            BY <3>2, <6>1, <1>11
          <6>3. k < c + j
            BY <4>1, <6>1, <1>5, <1>9
          <6>4. loc[k] < loc[c + j]
            BY <5>1, <6>2, <6>3, <1>8 DEF Sent
          <6>5. loc[k] \in Nat
            BY <5>1, SizeAssumption DEF Offsets
          <6> QED
            BY <6>2, <6>4, <6>5
        <5>3. dst[loc[k]] = rcrc[k]
          BY <3>2, <4>1, <1>1, <1>8 DEF Placed, c
        <5> QED
          BY <4>1, <5>1, <5>2, <5>3, <2>3, <2>4
      <4>2. CASE k - c \in 1 .. n /\ k = c + (k - c)
        <5>1. loc[k] = o + (k - c) - 1
          BY <3>2, <4>2, <1>11
        <5> QED
          BY <4>2, <5>1, <2>3, <2>4
      <4> QED
        BY <4>1, <4>2, <2>12
    <3>3. ASSUME "offset" \notin damage, NEW i \in Offsets, \A k \in 1 .. c + n : loc[k] # i
          PROVE  dst'[i] = Before(i)
      <4>1. \A k \in 1 .. c : k \in 1 .. c + n
        BY <1>5, <1>9
      <4>2. dst[i] = Before(i)
        BY <3>3, <4>1, <1>1, <1>8 DEF Placed, c
      <4>3. i \notin o .. o + n - 1
        <5> SUFFICES ASSUME i \in o .. o + n - 1 PROVE FALSE
          OBVIOUS
        <5> DEFINE j == i - o + 1
        <5>1. j \in 1 .. n /\ i = o + j - 1
          BY <2>8
        <5> HIDE DEF j
        <5>2. loc[c + j] = i /\ c + j \in 1 .. c + n
          BY <3>3, <5>1, <1>5, <1>9, <1>11
        <5> QED
          BY <3>3, <5>2
      <4> QED
        BY <4>2, <4>3, <2>3
    <3> QED
      BY <1>1, <1>10, <1>d, <2>4, <3>1, <3>2, <3>3 DEF Placed
  <2>14. Tracked(loc)'
    BY <1>1, <1>10, <2>4, <2>11, <2>13 DEF Tracked
  <2> QED
    BY <2>6, <2>7, <2>9, <2>10, <2>14
<1> QED
  BY <1>12, <1>13

(* The trailer is the last record: what comes before it has been received. *)
LEMMA ReadTrailerStep == IInv /\ ReadTrailer => IInv'
<1> SUFFICES ASSUME IInv, ReadTrailer PROVE IInv'
  OBVIOUS
<1> USE DEF IInv
<1>0. PICK loc : Tracked(loc)
  OBVIOUS
<1>1. /\ rpc = "records" /\ wire # <<>> /\ wire' = Tail(wire) /\ Head(wire).kind = "trailer"
      /\ rpc' = IF Head(wire).crc = rcrc THEN "ok" ELSE "err"
      /\ UNCHANGED <<src, old, spc, exts, off, scrc, damage, dst, rcrc>>
  BY DEF ReadTrailer, files, senderVars
<1>2. wire \in Seq(Records)
  BY DEF TypeOK, Records
<1>3. /\ wire' \in Seq(Records) /\ Head(wire) = wire[1] /\ wire[1] \in Records
      /\ 1 \in DOMAIN wire
  BY <1>1, <1>2, TailReads
<1>4. /\ wire[1].kind = "trailer" /\ Len(wire) = 1 /\ wire[1].crc = scrc
      /\ exts = <<>> /\ spc \in {"sent", "failed"}
  BY <1>1, <1>3 DEF WireSound
<1>5. wire' = <<>>
  BY <1>1, <1>2, <1>4
<1>6. "cut" \notin damage /\ DOMAIN dst = Offsets /\ spc = "sent"
  BY <1>1, <1>4 DEF WireSound
<1>7. Sent(loc) /\ Placed(loc)
  BY <1>0, <1>1, <1>6 DEF Tracked
<1>8. rcrc \in Seq(Values) /\ scrc \in Seq(Values) /\ Len(rcrc) \in Nat /\ Len(scrc) \in Nat
  BY DEF TypeOK
<1>9. Len(rcrc) = Len(scrc)
  <2>1. PICK pos : Carried(wire, Len(rcrc), scrc, damage, loc, pos)
    BY <1>0, <1>1, <1>6 DEF Tracked
  <2>2. Weight(wire[1]) = 0
    BY <1>4 DEF Weight
  <2>3. pos[0] = Len(rcrc) /\ pos[1] = Len(scrc) /\ pos[1] = pos[0] + 0
    <3>1. pos[0] = Len(rcrc) /\ pos[1] = Len(scrc)
      BY <1>4, <2>1 DEF Carried
    <3>2. 1 \in 1 .. Len(wire) /\ 1 - 1 = 0
      BY <1>4
    <3>3. pos[1] = pos[1 - 1] + Weight(wire[1])
      BY <2>1, <3>2 DEF Carried
    <3> QED
      BY <2>2, <3>1, <3>2, <3>3
  <2> QED
    BY <1>8, <2>3
<1>10. damage = {} => rcrc = scrc
  <2> HAVE damage = {}
  <2>1. \A k \in 1 .. Len(scrc) : rcrc[k] = scrc[k]
    BY <1>7, <1>9 DEF Placed
  <2> QED
    BY <1>8, <1>9, <2>1
<1>d. Data' = Data /\ \A i : Before(i)' = Before(i)
  BY <1>1 DEF Data, Before
<1>11. rpc' \in {"ok", "err"} /\ (rpc' = "ok" => rcrc = scrc) /\ (rpc' = "err" => damage # {})
  BY <1>1, <1>3, <1>4, <1>10
<1>12. TypeOK' /\ ExtsSound'
  <2>1. wire' \in Seq(Headers \cup Extents \cup Trailers)
    BY <1>3 DEF Records
  <2> QED
    BY <1>1, <1>11, <2>1 DEF TypeOK, ExtsSound
<1>13. WireSound'
  <2>1. DOMAIN wire' = {}
    BY <1>5
  <2> QED
    BY <1>1, <1>4, <1>5, <1>6, <1>11, <2>1 DEF WireSound
<1>14. SizeRespected' /\ PartOfFile' /\ NoFalseReject'
  BY <1>1, <1>11, <1>d DEF SizeRespected, PartOfFile, NoFalseReject
<1>15. Tracked(loc)'
  <2>1. Sent(loc)'
    BY <1>1, <1>7, <1>d DEF Sent
  <2>2. Placed(loc)'
    BY <1>1, <1>7, <1>11, <1>d DEF Placed
  <2>3. \E q : Carried(wire', Len(rcrc), scrc, damage, loc, q)
    <3> DEFINE q == [i \in 0 .. 0 |-> Len(scrc)]
    <3>1. Len(wire') = 0
      BY <1>5
    <3>2. q \in [0 .. 0 -> 0 .. Len(scrc)] /\ q[0] = Len(scrc)
      BY <1>8
    <3> HIDE DEF q
    <3>3. Carried(wire', Len(rcrc), scrc, damage, loc, q)
      BY <1>9, <3>1, <3>2 DEF Carried
    <3> QED
      BY <3>3
  <2> QED
    BY <1>1, <2>1, <2>2, <2>3 DEF Tracked
<1> QED
  BY <1>12, <1>13, <1>14, <1>15

-----------------------------------------------------------------------------
(* Faults.                                                                 *)

(* After a cut nothing is under way; what the receiver has stays.          *)
LEMMA CutStep == IInv /\ Cut => IInv'
<1> SUFFICES ASSUME IInv, Cut PROVE IInv'
  OBVIOUS
<1> USE DEF IInv
<1>0. PICK loc : Tracked(loc)
  OBVIOUS
<1>1. /\ "cut" \in Faults /\ spc \in {"header", "data", "sent"} /\ spc' = "failed"
      /\ rpc' = (IF rpc = "ok" THEN "ok" ELSE "err")
      /\ wire' = <<>> /\ damage' = damage \cup {"cut"}
      /\ UNCHANGED <<src, old, exts, off, scrc, dst, rcrc>>
  BY DEF Cut, files
<1>2. Data' = Data /\ \A i : Before(i)' = Before(i)
  BY <1>1 DEF Data, Before
<1>3. TypeOK'
  <2>1. wire' \in Seq(Headers \cup Extents \cup Trailers)
    BY <1>1
  <2> QED
    BY <1>1, <2>1 DEF TypeOK
<1>4. ExtsSound'
  BY <1>1 DEF ExtsSound
<1>5. WireSound'
  <2>1. DOMAIN wire' = {}
    BY <1>1
  <2> QED
    BY <1>1, <2>1 DEF WireSound
<1>6. SizeRespected' /\ PartOfFile' /\ NoFalseReject'
  BY <1>1, <1>2 DEF SizeRespected, PartOfFile, NoFalseReject
<1>7. Tracked(loc)'
  BY <1>0, <1>1, <1>2 DEF Tracked, Sent
<1> QED
  BY <1>3, <1>4, <1>5, <1>6, <1>7

(* A record that is altered still carries as many pages.                   *)
LEMMA CarriedAltered ==
  ASSUME NEW w, NEW v, NEW received, NEW crc, NEW faults, NEW more, NEW loc, NEW pos,
         Len(v) = Len(w), Carried(w, received, crc, faults, loc, pos),
         \A i \in 1 .. Len(w) :
           /\ Weight(v[i]) = Weight(w[i])
           /\ \A s : Fills(w[i], s, crc, faults, loc) => Fills(v[i], s, crc, more, loc)
  PROVE  Carried(v, received, crc, more, loc, pos)
BY DEF Carried

(* An altered extent is still an extent of that length; whatever it was    *)
(* altered in is no longer claimed of it.                                  *)
LEMMA AlteredStep ==
  ASSUME IInv, NEW i \in DOMAIN wire, NEW r \in Extents, NEW f \in {"payload", "offset"},
         wire[i].kind = "extent", Len(r.data) = Len(wire[i].data), f \in Faults,
         f = "payload" => r.off = wire[i].off,
         f = "offset" => r.data = wire[i].data,
         wire' = [wire EXCEPT ![i] = r], damage' = damage \cup {f},
         UNCHANGED <<src, old, spc, exts, off, scrc, dst, rpc, rcrc>>
  PROVE  IInv'
<1> USE DEF IInv
<1>0. PICK loc : Tracked(loc)
  OBVIOUS
<1>1. wire \in Seq(Records) /\ r \in Records /\ r.kind = "extent"
  BY DEF TypeOK, Records, Extents
<1>2. /\ wire' \in Seq(Records) /\ Len(wire') = Len(wire) /\ DOMAIN wire' = DOMAIN wire
      /\ DOMAIN wire = 1 .. Len(wire)
      /\ wire'[i] = r /\ \A j \in DOMAIN wire : j # i => wire'[j] = wire[j]
  BY <1>1
<1>3. Data' = Data /\ \A p : Before(p)' = Before(p)
  BY DEF Data, Before
<1>4. damage \subseteq damage' /\ ("cut" \in damage' <=> "cut" \in damage)
      /\ wire # <<>> /\ wire' # <<>>
  BY <1>2
<1>5. TypeOK'
  <2>1. wire' \in Seq(Headers \cup Extents \cup Trailers)
    BY <1>2 DEF Records
  <2> QED
    BY <2>1 DEF TypeOK
<1>6. ExtsSound'
  BY DEF ExtsSound
<1>7. WireSound'
  <2>1. \A j \in DOMAIN wire' :
          /\ wire'[j].kind = wire[j].kind
          /\ wire'[j].kind = "extent" => Len(wire'[j].data) = Len(wire[j].data)
          /\ wire'[j].kind = "trailer" => wire'[j] = wire[j]
    BY <1>1, <1>2
  <2>2. \A j \in DOMAIN wire' :
          /\ wire'[j].kind = "header" <=> (j = 1 /\ rpc' = "header")
          /\ wire'[j].kind = "extent" => Len(wire'[j].data) \in 1 .. MaxChunk
          /\ wire'[j].kind = "trailer" => /\ j = Len(wire') /\ spc' \in {"sent", "failed"}
                                          /\ wire'[j].crc = scrc' /\ exts' = <<>>
    BY <1>2, <2>1 DEF WireSound
  <2> QED
    BY <1>2, <1>4, <2>2 DEF WireSound
<1>8. SizeRespected' /\ PartOfFile' /\ NoFalseReject'
  BY <1>3, <1>4 DEF SizeRespected, PartOfFile, NoFalseReject
<1>9. Tracked(loc)'
  <2>1. Sent(loc)'
    BY <1>0, <1>3 DEF Tracked, Sent
  <2>2. ASSUME rpc # "err", "cut" \notin damage
        PROVE  (\E pos : Carried(wire', Len(rcrc), scrc, damage', loc, pos)) /\ Placed(loc)'
    <3>1. PICK pos : Carried(wire, Len(rcrc), scrc, damage, loc, pos)
      BY <1>0, <2>2 DEF Tracked
    <3>2. \A j \in 1 .. Len(wire) :
            /\ Weight(wire'[j]) = Weight(wire[j])
            /\ \A s : Fills(wire[j], s, scrc, damage, loc) => Fills(wire'[j], s, scrc, damage', loc)
      <4> TAKE j \in 1 .. Len(wire)
      <4>1. CASE j = i
        <5>1. wire'[j] = r /\ wire[j] = wire[i]
          BY <4>1, <1>2
        <5>2. \A s : Fills(wire[i], s, scrc, damage, loc) => Fills(r, s, scrc, damage', loc)
          BY <1>1 DEF Fills
        <5> QED
          BY <5>1, <5>2, <1>1 DEF Weight
      <4>2. CASE j # i
        BY <4>2, <1>2, <1>4 DEF Fills
      <4> QED
        BY <4>1, <4>2
    <3>3. Carried(wire', Len(rcrc), scrc, damage', loc, pos)
      BY <1>2, <3>1, <3>2, CarriedAltered
    <3>4. Placed(loc)'
      BY <1>0, <1>3, <1>4, <2>2 DEF Tracked, Placed
    <3> QED
      BY <3>3, <3>4
  <2> QED
    BY <1>4, <2>1, <2>2 DEF Tracked
<1> QED
  BY <1>5, <1>6, <1>7, <1>8, <1>9

(* A payload altered in transit keeps its length and its place.            *)
LEMMA AlterPayloadStep == IInv /\ AlterPayload => IInv'
<1> SUFFICES ASSUME IInv, AlterPayload PROVE IInv'
  OBVIOUS
<1>1. PICK i \in DOMAIN wire : \E k \in DOMAIN wire[i].data, v \in Values :
        wire[i].kind = "extent" /\ wire' = [wire EXCEPT ![i].data[k] = v]
  BY DEF AlterPayload
<1>a. PICK k \in DOMAIN wire[i].data, v \in Values : wire' = [wire EXCEPT ![i].data[k] = v]
  BY <1>1
<1>2. /\ "payload" \in Faults /\ damage' = damage \cup {"payload"}
      /\ UNCHANGED <<src, old, spc, exts, off, scrc, dst, rpc, rcrc>>
  BY DEF AlterPayload, files, senderVars, receiverVars
<1>3. wire \in Seq(Records)
  BY DEF IInv, TypeOK, Records
<1>4. wire[i] \in Records
  BY <1>3, ElementTyped
<1>5. wire[i] \in Extents
  BY <1>1, <1>4 DEF Records, Headers, Extents, Trailers
<1> DEFINE q == [wire[i].data EXCEPT ![k] = v]
           r == [wire[i] EXCEPT !.data = q]
<1>6. wire[i].data \in Seq(Values)
  BY <1>5 DEF Extents
<1>7. q \in Seq(Values) /\ Len(q) = Len(wire[i].data)
  BY <1>6
<1>8. wire' = [wire EXCEPT ![i] = r]
  BY <1>a
<1> HIDE DEF q
<1>9. r \in Extents /\ r.data = q /\ r.off = wire[i].off
  BY <1>5, <1>7 DEF Extents
<1> HIDE DEF r
<1> QED
  BY <1>1, <1>2, <1>7, <1>8, <1>9, AlteredStep

(* An offset altered in transit leaves the payload.                        *)
LEMMA AlterOffsetStep == IInv /\ AlterOffset => IInv'
<1> SUFFICES ASSUME IInv, AlterOffset PROVE IInv'
  OBVIOUS
<1>1. PICK i \in DOMAIN wire, o \in 0 .. TrailerOffset :
        /\ wire[i].kind = "extent"
        /\ wire' = [wire EXCEPT ![i].off = o]
  BY DEF AlterOffset
<1>2. /\ "offset" \in Faults /\ damage' = damage \cup {"offset"}
      /\ UNCHANGED <<src, old, spc, exts, off, scrc, dst, rpc, rcrc>>
  BY DEF AlterOffset, files, senderVars, receiverVars
<1>3. wire \in Seq(Records)
  BY DEF IInv, TypeOK, Records
<1>4. wire[i] \in Records
  BY <1>3, ElementTyped
<1>5. wire[i] \in Extents
  BY <1>1, <1>4 DEF Records, Headers, Extents, Trailers
<1> DEFINE r == [wire[i] EXCEPT !.off = o]
<1>6. wire' = [wire EXCEPT ![i] = r]
  BY <1>1
<1>7. r \in Extents /\ r.data = wire[i].data /\ r.off = o
  BY <1>5 DEF Extents
<1> HIDE DEF r
<1> QED
  BY <1>1, <1>2, <1>6, <1>7, AlteredStep

-----------------------------------------------------------------------------
(* Every step of the transfer or of a fault, and none at all.              *)
LEMMA IInvStep == IInv /\ [Next]_vars => IInv'
<1> SUFFICES ASSUME IInv, [Next]_vars PROVE IInv'
  OBVIOUS
<1>1. CASE Transfer
  BY <1>1, WalkStep, SendHeaderStep, SendChunkStep, SendTrailerStep, ReplyStep,
     ReadHeaderStep, ReadExtentStep, ReadTrailerStep DEF Transfer
<1>2. CASE Cut \/ AlterPayload \/ AlterOffset
  BY <1>2, CutStep, AlterPayloadStep, AlterOffsetStep
<1>3. CASE UNCHANGED vars
  <2>1. UNCHANGED <<src, old, dst, spc, exts, off, wire, rpc, scrc, rcrc, damage>>
    BY <1>3 DEF vars, files, senderVars, receiverVars
  <2> USE DEF IInv
  <2>2. PICK loc : Tracked(loc)
    OBVIOUS
  <2>3. Data' = Data /\ \A i : Before(i)' = Before(i)
    BY <2>1 DEF Data, Before
  <2>4. TypeOK' /\ ExtsSound'
    BY <2>1 DEF TypeOK, ExtsSound
  <2>5. WireSound'
    BY <2>1 DEF WireSound
  <2>6. SizeRespected' /\ PartOfFile' /\ NoFalseReject'
    BY <2>1, <2>3 DEF SizeRespected, PartOfFile, NoFalseReject
  <2>7. Tracked(loc)'
    BY <2>1, <2>2, <2>3 DEF Tracked, Sent, Placed
  <2> QED
    BY <2>4, <2>5, <2>6, <2>7
<1> QED
  BY <1>1, <1>2, <1>3 DEF Next

(* Both sides of the stream agree on which page every byte of it is of,    *)
(* through any number of faults, up to what those faults have altered.     *)
THEOREM StreamInvariance == Spec => []IInv
<1>1. Init => IInv
  BY IInvInit
<1>2. IInv /\ [Next]_vars => IInv'
  BY IInvStep
<1> QED
  BY <1>1, <1>2, PTL DEF Spec

(* The image never outgrows the guest's memory: Receive writes no record   *)
(* that lies outside the announced size, also where off + length wraps.    *)
THEOREM SizeIsRespected == Spec => []SizeRespected
<1>1. IInv => SizeRespected
  BY DEF IInv
<1> QED
  BY <1>1, StreamInvariance, PTL

(* A transfer that broke off has put nothing but the file's own data into  *)
(* place: handleMem keeps the image, and the next round completes it.      *)
THEOREM BrokenTransferIsPart == Spec => []PartOfFile
<1>1. IInv => PartOfFile
  BY DEF IInv
<1> QED
  BY <1>1, StreamInvariance, PTL

(* Receive refuses nothing that Send produces.                             *)
THEOREM NothingIsFalselyRejected == Spec => []NoFalseReject
<1>1. IInv => NoFalseReject
  BY DEF IInv
<1> QED
  BY <1>1, StreamInvariance, PTL

(* As many pages are sent as the file has data: loc is a bijection.        *)
LEMMA AllDataSent ==
  ASSUME IInv, spc = "ok", NEW loc, Sent(loc)
  PROVE  /\ \A p \in Data : \E k \in 1 .. Len(scrc) : loc[k] = p
         /\ Len(scrc) = Cardinality(Data)
<1>1. exts = <<>> /\ scrc \in Seq(Values) /\ Len(scrc) \in Nat /\ off \in Nat
  BY SizeAssumption DEF IInv, WireSound, TypeOK
<1>2. \A p \in Data : p \in Nat /\ p < off
  <2> TAKE p \in Data
  <2>1. p \in Offsets /\ src[p] # Hole /\ p \in Nat
    BY SizeAssumption DEF Data, Offsets
  <2>2. \A q \in off .. Size - 1 : src[q] = Hole
    BY DEF IInv, ExtsSound
  <2> QED
    BY <1>1, <2>1, <2>2, SizeAssumption DEF Offsets
<1>3. \A p \in Data : \E k \in 1 .. Len(scrc) : loc[k] = p
  <2>1. DOMAIN exts = {}
    BY <1>1
  <2> QED
    BY <1>1, <1>2, <2>1 DEF Sent
<1>4. loc \in [1 .. Len(scrc) -> Data]
      /\ \A j, k \in 1 .. Len(scrc) : j < k => loc[j] < loc[k]
  BY DEF Sent
<1>5. \A j, k \in 1 .. Len(scrc) : loc[j] = loc[k] => j = k
  <2> TAKE j, k \in 1 .. Len(scrc)
  <2>1. loc[j] \in Nat /\ loc[k] \in Nat
    BY <1>2, <1>4
  <2>2. j < k \/ k < j \/ j = k
    BY <1>1
  <2> QED
    BY <1>4, <2>1, <2>2
<1>6. loc \in Bijection(1 .. Len(scrc), Data)
  BY <1>3, <1>4, <1>5 DEF Bijection, Injection, Surjection, IsInjective
<1>7. ExistsBijection(1 .. Len(scrc), Data)
  BY <1>6 DEF ExistsBijection
<1>8. Cardinality(Data) = Len(scrc)
  BY <1>1, <1>7, FS_CountingElements
<1> QED
  BY <1>3, <1>8

(* A transfer that the sender believes in has put every page of the file's *)
(* data into place, each once, and changed nothing else: no order of       *)
(* records, faults and replies loses a piece unnoticed, except that an     *)
(* altered offset is not covered by the checksum.                          *)
THEOREM TransferIsWhole == Spec => []DeliveredWhole
<1>1. IInv => DeliveredWhole
  <2> SUFFICES ASSUME IInv, spc = "ok", "offset" \notin damage
               PROVE  dst = Merged /\ Len(scrc) = Cardinality(Data)
    BY DEF DeliveredWhole
  <2>1. PICK loc : Tracked(loc)
    BY DEF IInv
  <2>2. /\ rpc = "ok" /\ rcrc = scrc /\ "cut" \notin damage /\ DOMAIN dst = Offsets
        /\ dst \in [DOMAIN dst -> Values]
    BY DEF IInv, WireSound, TypeOK
  <2>3. Sent(loc) /\ Placed(loc)
    BY <2>1, <2>2 DEF Tracked
  <2>4. /\ \A p \in Data : \E k \in 1 .. Len(scrc) : loc[k] = p
        /\ Len(scrc) = Cardinality(Data)
    BY <2>3, AllDataSent
  <2>5. /\ \A k \in 1 .. Len(scrc) : dst[loc[k]] = scrc[k] /\ loc[k] \in Data /\ scrc[k] = src[loc[k]]
        /\ \A p \in Offsets : (\A k \in 1 .. Len(scrc) : loc[k] # p) => dst[p] = Before(p)
    BY <2>2, <2>3 DEF Placed, Sent
  <2>6. \A p \in Offsets : dst[p] = IF p \in Data THEN src[p] ELSE Before(p)
    BY <2>4, <2>5
  <2>7. dst = Merged
    BY <2>2, <2>6 DEF Merged
  <2> QED
    BY <2>4, <2>7
<1> QED
  BY <1>1, StreamInvariance, PTL
=============================================================================
