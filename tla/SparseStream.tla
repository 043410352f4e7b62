---------------------------- MODULE SparseStream ----------------------------
(***************************************************************************)
(* One transfer of a memory file: sparse.Send in the goroutine of          *)
(* sendMemFile, the HTTP body as a bounded pipe, sparse.Receive in the     *)
(* peer's handleMem, and the reply.  The unit of an offset is a page.      *)
(* PreCopy takes the effect of a whole transfer as one step (Splat, Part); *)
(* this module is why it may.                                              *)
(*                                                                         *)
(*   src        the file to send: a value, or Hole where it has no data    *)
(*   old, dst   the receiver's file before and now                         *)
(*   spc        "walk" (WalkExtents), "header", "data", "sent" (waiting    *)
(*              for the reply), "ok", "failed"                             *)
(*   exts, off  extents found and still to be sent; where the walk is      *)
(*   wire       records on their way                                       *)
(*   rpc        "header", "records", "ok", "err"                           *)
(*   scrc, rcrc the checksum of either side, taken to be ideal: it is the  *)
(*              sequence of the payloads                                   *)
(*   damage     history: faults that have hit the stream                   *)
(***************************************************************************)
EXTENDS Integers, Sequences, FiniteSets, FiniteSetsExt, SequencesExt

CONSTANTS
  Size,       \* pages of the file
  MaxChunk,   \* maxExtentChunk
  Values,
  Zero,       \* what a hole reads as
  Hole,
  SignBit,    \* 2^63: offsets on the wire are below twice that, and
              \* int64(off) is negative from there on
  MaxWire,    \* records the pipe and the sockets hold: a bound
  Faults      \* which of AllFaults happen

AllFaults == {"cut",       \* the connection breaks
              "payload",   \* a payload arrives altered
              "offset"}    \* the offset of a record arrives altered

ASSUME SizeAssumption == SignBit \in Nat /\ Size \in Nat /\ Size < SignBit
ASSUME ChunkAssumption == MaxChunk \in 1 .. SignBit
ASSUME HoleAssumption == Zero \in Values /\ Hole \notin Values
ASSUME WireFaultsAssumption == Faults \subseteq AllFaults

VARIABLES src, old, dst, spc, exts, off, wire, rpc, scrc, rcrc, damage

senderVars == <<spc, exts, off, scrc>>
receiverVars == <<dst, rpc, rcrc>>
files == <<src, old>>
vars == <<files, senderVars, receiverVars, wire, damage>>

Offsets == 0 .. Size - 1
TrailerOffset == 2 * SignBit - 1

Contents(n) == [0 .. n - 1 -> Values]

(* The records of the stream.                                              *)
Headers == [kind : {"header"}, size : {Size}]
Extents == [kind : {"extent"}, off : 0 .. TrailerOffset, data : Seq(Values)]
Trailers == [kind : {"trailer"}, off : {TrailerOffset}, crc : Seq(Values)]

TypeOK ==
  /\ src \in [Offsets -> Values \cup {Hole}]
  /\ old \in Contents(0) \cup Contents(Size)
  /\ dst \in [DOMAIN dst -> Values]
  /\ spc \in {"walk", "header", "data", "sent", "ok", "failed"}
  /\ exts \in Seq([off : Offsets, len : 1 .. Size])
  /\ off \in 0 .. Size
  /\ wire \in Seq(Headers \cup Extents \cup Trailers)
  /\ rpc \in {"header", "records", "ok", "err"}
  /\ scrc \in Seq(Values) /\ rcrc \in Seq(Values)
  /\ damage \subseteq Faults

(* prepare left an empty recv.mem; an earlier round left a full one.       *)
Init ==
  /\ src \in [Offsets -> Values \cup {Hole}]
  /\ old \in Contents(0) \cup Contents(Size)
  /\ dst = old
  /\ spc = "walk" /\ exts = <<>> /\ off = 0 /\ scrc = <<>>
  /\ rpc = "header" /\ rcrc = <<>>
  /\ wire = <<>>
  /\ damage = {}

-----------------------------------------------------------------------------
(* WalkExtents.                                                            *)

DataFrom(i) == {j \in i .. Size - 1 : src[j] # Hole}
SeekHole(i) == Min({j \in i .. Size - 1 : src[j] = Hole} \cup {Size})

Walk ==
  /\ spc = "walk"
  /\ IF DataFrom(off) = {}
     THEN spc' = "header" /\ UNCHANGED <<exts, off>>
     ELSE LET d == Min(DataFrom(off)) IN
          /\ exts' = Append(exts, [off |-> d, len |-> SeekHole(d) - d])
          /\ off' = SeekHole(d)
          /\ UNCHANGED spc
  /\ UNCHANGED <<files, scrc, receiverVars, wire, damage>>

-----------------------------------------------------------------------------
(* Send.                                                                   *)

Put(record) == Len(wire) < MaxWire /\ wire' = Append(wire, record)

SendHeader ==
  /\ spc = "header"
  /\ Put([kind |-> "header", size |-> Size])
  /\ spc' = "data"
  /\ UNCHANGED <<files, exts, off, scrc, receiverVars, damage>>

(* The first n pages of extent e.                                          *)
Payload(e, n) == [k \in 1 .. n |-> src[e.off + k - 1]]

(* Variant: an extent is never split.                                      *)
ChunkLen_Whole(e) == e.len

(* The chunk that is sent of extent e next, and what is left of e after it. *)
ChunkLen(e) == Min({MaxChunk, e.len})
Rest(e) == IF e.len <= MaxChunk THEN <<>>
           ELSE <<[off |-> e.off + MaxChunk, len |-> e.len - MaxChunk]>>

SendChunk ==
  /\ spc = "data"
  /\ exts # <<>>
  /\ LET e == Head(exts)
         p == Payload(e, ChunkLen(e))
     IN  /\ Put([kind |-> "extent", off |-> e.off, data |-> p])
         /\ scrc' = scrc \o p
         /\ exts' = Rest(e) \o Tail(exts)
  /\ UNCHANGED <<files, spc, off, receiverVars, damage>>

SendTrailer ==
  /\ spc = "data"
  /\ exts = <<>>
  /\ Put([kind |-> "trailer", off |-> TrailerOffset, crc |-> scrc])
  /\ spc' = "sent"
  /\ UNCHANGED <<files, exts, off, scrc, receiverVars, damage>>

(* Variant: a refusal is not looked at.                                    *)
Reply_OnlyOk ==
  /\ spc = "sent" /\ rpc = "ok" /\ spc' = "ok"
  /\ UNCHANGED <<files, exts, off, scrc, receiverVars, wire, damage>>

(* sendMemFile returns: the status of the reply.  A refusal may arrive     *)
(* before the body is out.                                                 *)
Reply ==
  /\ \/ spc = "sent" /\ rpc = "ok" /\ spc' = "ok"
     \/ spc \in {"header", "data", "sent"} /\ rpc = "err" /\ spc' = "failed"
  /\ UNCHANGED <<files, exts, off, scrc, receiverVars, wire, damage>>

-----------------------------------------------------------------------------
(* Receive.                                                                *)

(* Variant: the file is recreated, not resized.                            *)
Resized_Recreated(f, n) == [i \in 0 .. n - 1 |-> Zero]

(* The truncate to the stream's size.                                      *)
Resized(f, n) == [i \in 0 .. n - 1 |-> IF i \in DOMAIN f THEN f[i] ELSE Zero]

ReadHeader ==
  /\ rpc = "header"
  /\ wire # <<>>
  /\ dst' = Resized(dst, Head(wire).size)
  /\ rpc' = "records"
  /\ wire' = Tail(wire)
  /\ UNCHANGED <<files, senderVars, rcrc, damage>>

(* pwrite, past the end of the file if it has to.                          *)
Written(f, o, p) ==
  [i \in DOMAIN f \cup (o .. o + Len(p) - 1) |->
     IF i \in o .. o + Len(p) - 1 THEN p[i - o + 1]
     ELSE f[i]]

(* Variant: only where the extent begins is compared with the file size.   *)
Fits_StartOnly(o, n) == n <= MaxChunk /\ o < Size

(* The two checks of a record; the sum is a uint64.                        *)
Fits(o, n) ==
  /\ n <= MaxChunk
  /\ (o + n) % (2 * SignBit) <= Size

(* WriteAt refuses a negative offset, which is what int64(off) makes of    *)
(* the offsets that pass the check by wrapping around.                     *)
NonNegative(o) == o < SignBit

ReadExtent ==
  /\ rpc = "records"
  /\ wire # <<>> /\ Head(wire).kind = "extent"
  /\ LET o == Head(wire).off
         p == Head(wire).data
     IN  IF o # TrailerOffset /\ Fits(o, Len(p)) /\ NonNegative(o)
         THEN /\ dst' = Written(dst, o, p)
              /\ rcrc' = rcrc \o p
              /\ UNCHANGED rpc
         ELSE rpc' = "err" /\ UNCHANGED <<dst, rcrc>>
  /\ wire' = Tail(wire)
  /\ UNCHANGED <<files, senderVars, damage>>

(* Variant: the checksum is read and not compared.                         *)
ReadTrailer_NoCRC ==
  /\ rpc = "records"
  /\ wire # <<>> /\ Head(wire).kind = "trailer"
  /\ rpc' = "ok"
  /\ wire' = Tail(wire)
  /\ UNCHANGED <<files, senderVars, dst, rcrc, damage>>

ReadTrailer ==
  /\ rpc = "records"
  /\ wire # <<>> /\ Head(wire).kind = "trailer"
  /\ rpc' = IF Head(wire).crc = rcrc THEN "ok" ELSE "err"
  /\ wire' = Tail(wire)
  /\ UNCHANGED <<files, senderVars, dst, rcrc, damage>>

-----------------------------------------------------------------------------
(* Faults.                                                                 *)

(* The connection breaks.  What was under way is lost; a reply may be, too.*)
Cut ==
  /\ "cut" \in Faults
  /\ spc \in {"header", "data", "sent"}
  /\ spc' = "failed"
  /\ rpc' = IF rpc = "ok" THEN "ok" ELSE "err"
  /\ wire' = <<>>
  /\ damage' = damage \cup {"cut"}
  /\ UNCHANGED <<files, exts, off, scrc, dst, rcrc>>

AlterPayload ==
  /\ "payload" \in Faults \ damage
  /\ \E i \in DOMAIN wire :
       /\ wire[i].kind = "extent"
       /\ \E k \in DOMAIN wire[i].data :
            \E v \in Values \ {wire[i].data[k]} :
              wire' = [wire EXCEPT ![i].data[k] = v]
  /\ damage' = damage \cup {"payload"}
  /\ UNCHANGED <<files, senderVars, receiverVars>>

AlterOffset ==
  /\ "offset" \in Faults \ damage
  /\ \E i \in DOMAIN wire :
       /\ wire[i].kind = "extent"
       /\ \E o \in 0 .. TrailerOffset :
            wire' = [wire EXCEPT ![i].off = o]
  /\ damage' = damage \cup {"offset"}
  /\ UNCHANGED <<files, senderVars, receiverVars>>

-----------------------------------------------------------------------------
Transfer ==
  \/ Walk \/ SendHeader \/ SendChunk \/ SendTrailer \/ Reply
  \/ ReadHeader \/ ReadExtent \/ ReadTrailer

Next == Transfer \/ Cut \/ AlterPayload \/ AlterOffset

(* Both goroutines run; a blocked pipe ends in a timeout (Cut).            *)
Spec == Init /\ [][Next]_vars /\ WF_vars(Transfer)

-----------------------------------------------------------------------------
Data == {i \in Offsets : src[i] # Hole}

(* What the receiver's file reads at page i before the transfer; a file    *)
(* reads as zeros past its end.                                            *)
Before(i) == IF i \in DOMAIN old THEN old[i] ELSE Zero

(* The file as PreCopy's Splat has it.                                     *)
Merged == [i \in Offsets |-> IF i \in Data THEN src[i] ELSE Before(i)]

(* A transfer that the sender believes in has put every extent into place, *)
(* each page once, and nothing else: chunking, the checksum and the reply  *)
(* leave no way to lose a piece unnoticed.  (The checksum is of the        *)
(* payloads: an altered offset is only noticed if it does not fit.)        *)
DeliveredWhole ==
  (spc = "ok" /\ "offset" \notin damage) => dst = Merged /\ Len(scrc) = Cardinality(Data)

(* A transfer that broke off, at any record, has changed nothing outside   *)
(* the extents of the file, and there it has put what the file holds       *)
(* (PreCopy's Part).                                                       *)
PartOfFile ==
  damage \subseteq {"cut"} =>
    \A i \in DOMAIN dst :
      \/ dst[i] = Before(i)
      \/ i \in Data /\ dst[i] = src[i]

(* The receiver's checks accept whatever Send produces: a transfer fails   *)
(* only if the stream was damaged.                                         *)
NoFalseReject == rpc = "err" => damage # {}

(* The image never outgrows the guest's memory, whatever a record says:    *)
(* the sum off + length wraps around, and no wrapped record is written.    *)
SizeRespected == DOMAIN dst \in {DOMAIN old, Offsets}

(* Every transfer comes to an end, with a pipe of any size.                *)
TransferEnds == <>(spc \in {"ok", "failed"})
=============================================================================
