------------------------------- MODULE Prober -------------------------------
(***************************************************************************)
(* How fcprobe measures an outage (cmd/fcprobe/main.go): sendLoop and      *)
(* recvLoop share the samples, the guest's UDP echo (cmd/guestd) answers   *)
(* whatever reaches it while it executes, and one pause-to-resume window   *)
(* falls somewhere into it.                                                *)
(*                                                                         *)
(*   now              CLOCK_MONOTONIC, from 1                              *)
(*   tick             an unread tick in the ticker's channel (of size 1)   *)
(*   spc, seq, stamp  sendLoop: the probe it is at, its time stamp         *)
(*   samples          prober.samples; recv = 0 until answered              *)
(*   air, back        probes and replies in flight: delayed and overtaken  *)
(*                    at will, and lost if nothing ever takes them out. A  *)
(*                    probe may wait in the buffers of a stopped guest.    *)
(*   mig              the agents' switchover: marked, stopped, loaded,     *)
(*                    done; the guest executes unless it is stopped        *)
(*   pauseNS, resumeNS   their time stamps "blackout.pause" and            *)
(*                    "target.resumed" (0: not yet)                        *)
(*   down             history: since when and until when the guest stood   *)
(*   early, old       history: replies that recvLoop read before their     *)
(*                    sample was appended, or ScanLimit samples later      *)
(*   answered         history: probes whose reply recvLoop has read        *)
(***************************************************************************)
EXTENDS Integers, Sequences, FiniteSets, FiniteSetsExt

CONSTANTS
  Interval,    \* prober.interval, in clock units
  BadRTT,      \* badRTT
  ScanLimit,   \* how far recvLoop looks back: 4096 samples
  MaxTime      \* bounds a run

ASSUME IntervalAssumption == Interval \in Nat \ {0}
ASSUME BoundsAssumption == BadRTT \in Nat /\ ScanLimit \in Nat /\ MaxTime \in Nat \ {0}

VARIABLES now, tick, spc, seq, stamp, samples, air, back,
          mig, pauseNS, resumeNS, down, early, old, answered

clockVars == <<now, tick>>
sendVars == <<spc, seq, stamp>>
netVars == <<air, back>>
guestVars == <<mig, pauseNS, resumeNS, down>>
history == <<early, old, answered>>
vars == <<clockVars, sendVars, samples, netVars, guestVars, history>>

Init ==
  /\ now = 1 /\ tick = FALSE
  /\ spc = "wait" /\ seq = 0 /\ stamp = 0
  /\ samples = <<>>
  /\ air = {} /\ back = {}
  /\ mig = "before" /\ pauseNS = 0 /\ resumeNS = 0
  /\ down = [from |-> 0, to |-> 0]
  /\ early = {} /\ old = {} /\ answered = {}

(* time.Ticker drops a tick that finds its channel full.                   *)
Clock ==
  /\ now < MaxTime
  /\ now' = now + 1
  /\ tick' = (tick \/ now' % Interval = 0)
  /\ UNCHANGED <<sendVars, samples, netVars, guestVars, history>>

-----------------------------------------------------------------------------
(* sendLoop.  It may be held up before each of its steps.                  *)

TakeTick ==
  /\ spc = "wait"
  /\ tick
  /\ tick' = FALSE
  /\ seq' = seq + 1
  /\ stamp' = now
  /\ spc' = "stamped"
  /\ UNCHANGED <<now, samples, netVars, guestVars, history>>

(* conn.Write; a probe it refuses leaves no sample.                        *)
Write ==
  /\ spc = "stamped"
  /\ \/ air' = air \cup {seq} /\ spc' = "written"
     \/ air' = air /\ spc' = "wait"
  /\ UNCHANGED <<clockVars, seq, stamp, samples, back, guestVars, history>>

AppendSample ==
  /\ spc = "written"
  /\ samples' = Append(samples, [seq |-> seq, sent |-> stamp, recv |-> 0])
  /\ spc' = "wait"
  /\ UNCHANGED <<clockVars, seq, stamp, netVars, guestVars, history>>

-----------------------------------------------------------------------------
(* The network and the guest.                                              *)

(* runUDPEcho.                                                             *)
Echo(s) ==
  /\ mig # "stopped"
  /\ s \in air
  /\ air' = air \ {s} /\ back' = back \cup {s}
  /\ UNCHANGED <<clockVars, sendVars, samples, guestVars, history>>

-----------------------------------------------------------------------------
(* The switchover: what migrateInner and handleFinalize mark, and when.    *)

MarkPause ==
  /\ mig = "before"
  /\ mig' = "marked" /\ pauseNS' = now
  /\ UNCHANGED <<clockVars, sendVars, samples, netVars, resumeNS, down, history>>

Pause ==
  /\ mig = "marked"
  /\ mig' = "stopped" /\ down' = [down EXCEPT !.from = now]
  /\ UNCHANGED <<clockVars, sendVars, samples, netVars, pauseNS, resumeNS, history>>

(* LoadSnapshot resumes the guest before it returns.                       *)
LoadSnapshot ==
  /\ mig = "stopped"
  /\ mig' = "loaded" /\ down' = [down EXCEPT !.to = now]
  /\ UNCHANGED <<clockVars, sendVars, samples, netVars, pauseNS, resumeNS, history>>

MarkResumed ==
  /\ mig = "loaded"
  /\ mig' = "done" /\ resumeNS' = now
  /\ UNCHANGED <<clockVars, sendVars, samples, netVars, pauseNS, down, history>>

-----------------------------------------------------------------------------
(* recvLoop.                                                               *)

(* Variant: only the newest sample is compared.                            *)
Scanned_TailOnly == {Len(samples)} \cap DOMAIN samples

(* The samples that recvLoop looks at.                                     *)
Scanned == {i \in DOMAIN samples : i > Len(samples) - ScanLimit}

Recv(s) ==
  /\ s \in back
  /\ back' = back \ {s}
  /\ samples' = [i \in DOMAIN samples |->
       IF i \in Scanned /\ samples[i].seq = s THEN [samples[i] EXCEPT !.recv = now]
       ELSE samples[i]]
  /\ answered' = answered \cup {s}
  /\ early' = IF spc = "written" /\ s = seq THEN early \cup {s} ELSE early
  /\ old' = IF Cardinality({i \in DOMAIN samples : samples[i].seq > s}) >= ScanLimit
            THEN old \cup {s} ELSE old
  /\ UNCHANGED <<clockVars, sendVars, air, guestVars>>

-----------------------------------------------------------------------------
(* The figures: stats, window and switchoverBlackout.                      *)

Lost(s) == s.recv = 0
Bad(s) == s.recv = 0 \/ s.recv - s.sent > BadRTT

(* The lost and the bad probes of a window.                                *)
LostIn(win) == {i \in DOMAIN win : Lost(win[i])}
BadIn(win) == {i \in DOMAIN win : Bad(win[i])}

Length(g) == g.end - g.start
Longest(gaps) == Max({0} \cup {Length(g) : g \in gaps})

NoGap == [start |-> 0, end |-> 0]

(* Variant: a run ends with its last probe.                                *)
Extended_NoInterval(g, s) ==
  [start |-> IF g = NoGap THEN s.sent ELSE g.start, end |-> s.sent]

(* A run with one more probe: it lasts until the next one would have gone. *)
Extended(g, s) ==
  [start |-> IF g = NoGap THEN s.sent ELSE g.start, end |-> s.sent + Interval]

Flushed(acc) == IF acc.run = NoGap THEN acc.gaps ELSE acc.gaps \cup {acc.run}

(* One pass of the loop over win, for the runs of the probes in set.       *)
Scan(win, set) ==
  LET acc[i \in 0 .. Len(win)] ==
        IF i = 0 THEN [gaps |-> {}, run |-> NoGap]
        ELSE IF i \in set THEN [acc[i - 1] EXCEPT !.run = Extended(@, win[i])]
        ELSE [gaps |-> Flushed(acc[i - 1]), run |-> NoGap]
  IN  acc[Len(win)]

(* Variant: the run that is open at the end of the window is dropped.      *)
Runs_DropLast(win, set) == Scan(win, set).gaps

Runs(win, set) == Flushed(Scan(win, set))

window(from, to) ==
  LET out[i \in 0 .. Len(samples)] ==
        IF i = 0 THEN <<>>
        ELSE IF from <= samples[i].sent /\ samples[i].sent <= to
             THEN Append(out[i - 1], samples[i])
        ELSE out[i - 1]
  IN  out[Len(samples)]

LostRunNS(win) == Longest(Runs(win, LostIn(win)))
MaxGapNS(win) == Longest(Runs(win, BadIn(win)))
MaxSendStallNS(win) == Max({0} \cup {win[i + 1].sent - win[i].sent : i \in 1 .. Len(win) - 1})

(* Variant: the longest run of the whole migration.                        *)
switchoverBlackout_Anywhere(pause, resume) == Longest(Runs(samples, LostIn(samples)))

switchoverBlackout(pause, resume) ==
  Longest({g \in Runs(samples, LostIn(samples)) : g.start <= resume /\ g.end >= pause})

(* The figure that runBench and printMigration hold against the budget.    *)
blackout(pause, resume) == Max({switchoverBlackout(pause, resume), resume - pause})

-----------------------------------------------------------------------------
Seqs == 1 .. seq

Next ==
  \/ Clock \/ TakeTick \/ Write \/ AppendSample
  \/ MarkPause \/ Pause \/ LoadSnapshot \/ MarkResumed
  \/ \E s \in Seqs : Echo(s) \/ Recv(s)

Spec == Init /\ [][Next]_vars

-----------------------------------------------------------------------------
Records == [seq : Seqs, sent : 1 .. MaxTime, recv : 0 .. MaxTime]

TypeOK ==
  /\ now \in 1 .. MaxTime /\ tick \in BOOLEAN
  /\ spc \in {"wait", "stamped", "written"}
  /\ seq \in Nat /\ stamp \in 0 .. MaxTime
  /\ samples \in Seq(Records)
  /\ air \subseteq Seqs /\ back \subseteq Seqs
  /\ mig \in {"before", "marked", "stopped", "loaded", "done"}
  /\ pauseNS \in 0 .. MaxTime /\ resumeNS \in 0 .. MaxTime
  /\ down \in [from : 0 .. MaxTime, to : 0 .. MaxTime]
  /\ early \cup old \cup answered \subseteq Seqs

(* A probe is charged as lost only if its reply did not come, or came      *)
(* before sendLoop had appended the sample (held up after its Write), or   *)
(* more than the scan's reach later; replies in any order are all booked.  *)
LossIsReal ==
  \A i \in DOMAIN samples :
    (Lost(samples[i]) /\ samples[i].seq \in answered) => samples[i].seq \in early \cup old

(* The stretches of consecutive probes of win that are in set, by their    *)
(* first and last one, and the length of the longest.                      *)
Stretches(win, set) ==
  {ij \in (DOMAIN win) \X (DOMAIN win) : ij[1] <= ij[2] /\ ij[1] .. ij[2] \subseteq set}

LongestStretch(win, set) ==
  Max({0} \cup {win[ij[2]].sent - win[ij[1]].sent + Interval : ij \in Stretches(win, set)})

(* The one-pass loops compute what the comment on stats says, for the      *)
(* window of any two moments: "the wall-clock span of the longest          *)
(* consecutive bad run, extended by one probe interval", and the same of   *)
(* lost probes.  Blackout is part of brownout.  The span counts whatever   *)
(* lies between the first and the last probe of a run, a sender's stall    *)
(* included, in the code as in LongestStretch; that a stalled sender       *)
(* "contributes nothing" (the comment on LostRunNS) is not what the code   *)
(* computes and not what is stated here.                                   *)
FiguresExact ==
  \A from \in {0, pauseNS}, to \in {resumeNS, now} :
    LET win == window(from, to)
    IN  /\ LostRunNS(win) = LongestStretch(win, LostIn(win))
        /\ MaxGapNS(win) = LongestStretch(win, BadIn(win))
        /\ LostRunNS(win) <= MaxGapNS(win)

(* The figure held against the budget is the larger of both views          *)
(* (printMigration, runBench): whatever the probes met, it never           *)
(* understates how long the guest stood still.  And the client's own view  *)
(* is worth having: if the sender kept its pace from before the outage to  *)
(* after it (the self-check MaxSendStallNS shows it) and no probe of the   *)
(* outage was answered late, it falls short of the outage by less than one *)
(* interval.                                                               *)
OutageIsMeasured ==
  LET outage == down.to - down.from
      during == {i \in DOMAIN samples : down.from <= samples[i].sent /\ samples[i].sent < down.to}
  IN  mig = "done" =>
        /\ blackout(pauseNS, resumeNS) >= outage
        /\ ( /\ \E i \in DOMAIN samples : samples[i].sent <= down.from
             /\ \E i \in DOMAIN samples : samples[i].sent >= down.to
             /\ MaxSendStallNS(samples) <= Interval
             /\ \A i \in during : Lost(samples[i]) )
           => switchoverBlackout(pauseNS, resumeNS) + Interval > outage

(* Losses elsewhere are no downtime: if the probes within an interval of   *)
(* the switchover were answered, some of them at either side, the figure   *)
(* is zero.                                                                *)
BrownoutExcluded ==
  LET around == {i \in DOMAIN samples : pauseNS - Interval <= samples[i].sent
                                       /\ samples[i].sent <= resumeNS + Interval}
  IN  ( /\ mig = "done"
        /\ \A i \in around : ~Lost(samples[i])
        /\ \E i, j \in around : samples[i].sent <= pauseNS /\ samples[j].sent >= resumeNS )
      => switchoverBlackout(pauseNS, resumeNS) = 0
=============================================================================
