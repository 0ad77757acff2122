------------------------------ MODULE RingTrim ------------------------------
(***************************************************************************)
(* Ring-tone trimming of one G.711 stream (audio.go, RingDetector and      *)
(* findRingEnd).  Frames that arrive before the call is answered are       *)
(* buffered; the buffer is searched for a leading ring cadence and written *)
(* out when a frame of the answered call arrives, when it spans too much   *)
(* time, or when the stream is closed.  The SIP half of the program sets   *)
(* ConnectedAt of the Call between any two frames.                         *)
(*                                                                         *)
(* Times are integers in any unit.  A frame stands for its RTP packet, and *)
(* active says whether its energy is above rdSilenceRMS.                   *)
(***************************************************************************)
EXTENDS Integers, Sequences, FiniteSetsExt

CONSTANTS
    MinOnSec, MaxOnSec, MinOffSec, MaxOffSec, \* rdMinOnSec, rdMaxOnSec, ...
    MaxBufSec,   \* rdMaxBufSec
    DefaultDur,  \* assumed duration of a frame
    MaxDur,      \* largest frame duration that is believed
    Steps,       \* time from one packet of the capture to the next
    Answers,     \* ConnectedAt when the stream opens; 0 is not answered
    MaxFrames    \* bound: frames of the stream

Ordered == \A d \in Steps : d >= 0
Frames  == [ts : Int, active : BOOLEAN]

ASSUME RingAssumption ==
    /\ \A x \in {MinOnSec, MaxOnSec, MinOffSec, MaxOffSec} : x \in Int
    /\ MaxBufSec \in Nat
    /\ DefaultDur \in Int /\ MaxDur \in Int
    /\ Steps \subseteq Int /\ Answers \subseteq Nat /\ MaxFrames \in Nat

VARIABLES
    buf, pass,    \* the fields of RingDetector
    connectedAt,  \* ConnectedAt of its Call
    out,          \* frames handed to the inner audio writer
    closed,
    arrived,      \* history: the frames of the stream
    now           \* timestamp of the packet of the capture read last

vars == <<buf, pass, connectedAt, out, closed, arrived, now>>

Init ==
    /\ buf = << >> /\ pass = FALSE /\ out = << >> /\ closed = FALSE
    /\ connectedAt \in Answers
    /\ arrived = << >> /\ now = 0

-----------------------------------------------------------------------------
(* findRingEnd.                                                            *)

(* The last frame of the run of equally active frames that begins at s.    *)
EndOf(b, s) ==
    Max({j \in s .. Len(b) : \A k \in s .. j : b[k].active = b[s].active})

(* The duration of a frame is the mean distance of the frames, a fraction. *)
FrameDur(b) ==
    LET span == b[Len(b)].ts - b[1].ts
        gaps == Len(b) - 1
    IN  IF span > 0 /\ span <= MaxDur * gaps THEN [num |-> span, den |-> gaps]
                                             ELSE [num |-> DefaultDur, den |-> 1]

(* The run that begins at s lasts at least, at most, so long.              *)
AtLeast(b, s, sec) ==
    LET d == FrameDur(b)
    IN  (b[EndOf(b, s)].ts - b[s].ts) * d.den + d.num >= sec * d.den

AtMost(b, s, sec) ==
    LET d == FrameDur(b)
    IN  (b[EndOf(b, s)].ts - b[s].ts) * d.den + d.num <= sec * d.den

IsBurst(b, s) == /\ s <= Len(b) /\ b[s].active
                 /\ AtLeast(b, s, MinOnSec) /\ AtMost(b, s, MaxOnSec)

IsPause(b, s) == /\ s <= Len(b) /\ ~b[s].active
                 /\ AtLeast(b, s, MinOffSec) /\ AtMost(b, s, MaxOffSec)

(* The first frame behind the ring cycles that begin at s.                 *)
AfterCycles(b, s) ==
    LET behind[i \in 1 .. Len(b) + 1] ==
          IF IsBurst(b, i) /\ IsPause(b, EndOf(b, i) + 1)
          THEN behind[EndOf(b, EndOf(b, i) + 1) + 1] ELSE i
    IN  behind[s]

(* Mutant of findRingEnd: the burst behind the last pause is taken for the *)
(* ring whatever its length.                                               *)
findRingEnd_greedy(b) ==
    LET start == IF b[1].active THEN 1 ELSE EndOf(b, 1) + 1
        rest  == AfterCycles(b, start)
        cut   == IF rest = start THEN 0
                 ELSE IF rest <= Len(b) THEN EndOf(b, rest) ELSE rest - 1
    IN  IF Len(b) >= 5 /\ cut \in 1 .. Len(b) - 1 THEN cut ELSE 0

(* The number of leading frames to trim; 0 as well when it is all of them. *)
findRingEnd(b) ==
    LET start == IF ~b[1].active /\ AtLeast(b, 1, MinOffSec)
                 THEN EndOf(b, 1) + 1 ELSE 1
        rest  == AfterCycles(b, start)
        cut   == IF rest = start THEN 0
                 ELSE IF IsBurst(b, rest) THEN EndOf(b, rest) ELSE rest - 1
    IN  IF Len(b) >= 5 /\ cut \in 1 .. Len(b) - 1 THEN cut ELSE 0

-----------------------------------------------------------------------------
(* Mutant of Kept: the ringing is written and the rest dropped.            *)
Kept_ring(b) == SubSeq(b, 1, findRingEnd(b))

(* flushBuf: what is left of the buffer.                                   *)
Kept(b) == SubSeq(b, findRingEnd(b) + 1, Len(b))

PassFrame(f) ==
    /\ pass
    /\ out' = Append(out, f)
    /\ UNCHANGED <<buf, pass>>

(* Mutant of Answered: one unit of time too late.                          *)
Answered_late(f) == connectedAt > 0 /\ f.ts > connectedAt + 1

Answered(f) == connectedAt > 0 /\ f.ts >= connectedAt

AnsweredFrame(f) ==
    /\ ~pass /\ Answered(f)
    /\ out' = Append(out \o Kept(buf), f)
    /\ buf' = << >> /\ pass' = TRUE

(* Mutant of TooLong: compared with the frame before the last.             *)
TooLong_late(b) == Len(b) > 1 /\ b[Len(b) - 1].ts - b[1].ts > MaxBufSec

TooLong(b) == Len(b) > 1 /\ b[Len(b)].ts - b[1].ts > MaxBufSec

BufferFrame(f) ==
    /\ ~pass /\ ~Answered(f)
    /\ ~TooLong(Append(buf, f))
    /\ buf' = Append(buf, f)
    /\ UNCHANGED <<out, pass>>

CapReached(f) ==
    /\ ~pass /\ ~Answered(f)
    /\ TooLong(Append(buf, f))
    /\ out' = out \o Kept(Append(buf, f))
    /\ buf' = << >> /\ pass' = TRUE

writePacket(f) ==
    /\ ~closed
    /\ PassFrame(f) \/ AnsweredFrame(f) \/ BufferFrame(f) \/ CapReached(f)
    /\ arrived' = Append(arrived, f)
    /\ UNCHANGED <<connectedAt, closed>>

(* By a sweep or at the end of the capture.                                *)
close ==
    /\ ~closed /\ closed' = TRUE
    /\ out' = out \o Kept(buf)
    /\ buf' = << >>
    /\ UNCHANGED <<pass, connectedAt, arrived, now>>

(* processSIPPkt reads the first 200 OK to INVITE.                         *)
Answer(ts) ==
    /\ ~closed /\ connectedAt = 0
    /\ connectedAt' = ts
    /\ UNCHANGED <<buf, pass, out, closed, arrived>>

Next ==
    \/ \E d \in Steps :
          /\ now + d >= 0 /\ now' = now + d
          /\ \/ /\ Len(arrived) < MaxFrames
                /\ \E a \in BOOLEAN : writePacket([ts |-> now', active |-> a])
             \/ Answer(now')
    \/ close

Spec == Init /\ [][Next]_vars

-----------------------------------------------------------------------------
(* Reference for findRingEnd, over positions instead of step by step.      *)

(* i .. j is a longest run of equally active frames.                       *)
IsRun(b, i, j) ==
    /\ \A k \in i .. j : b[k].active = b[i].active
    /\ i > 1 => b[i - 1].active # b[i].active
    /\ j < Len(b) => b[j + 1].active # b[j].active

RunDur(b, i, j) == (b[j].ts - b[i].ts) * FrameDur(b).den + FrameDur(b).num

(* The first t frames are ringing: whole runs, each of the length of a     *)
(* burst or of a pause (the very first may be a longer pause), with at     *)
(* least one burst and one pause.                                          *)
IsRingtone(b, t) ==
    LET Within(x, lo, hi) == lo * FrameDur(b).den <= x /\ x <= hi * FrameDur(b).den
        runs == {r \in (1 .. t) \X (1 .. t) : r[1] <= r[2] /\ IsRun(b, r[1], r[2])}
    IN  /\ \E r \in runs : r[2] = t
        /\ \A r \in runs :
              LET x == RunDur(b, r[1], r[2])
              IN  IF b[r[1]].active THEN Within(x, MinOnSec, MaxOnSec)
                  ELSE x >= MinOffSec * FrameDur(b).den
                       /\ (r[1] > 1 => Within(x, MinOffSec, MaxOffSec))
        /\ \E r \in runs, s \in runs : b[r[1]].active /\ s[1] = r[2] + 1

(* The ring cycles: the first t frames are ringing up to a ring-off.       *)
RingCycles(b) ==
    Max({0} \cup {t \in 1 .. Len(b) : IsRingtone(b, t) /\ ~b[t].active})

(* Behind the last ring-off comes a run as long as a burst.                *)
BurstBehindCycles(b) == \E t \in RingCycles(b) + 1 .. Len(b) : IsRingtone(b, t)

-----------------------------------------------------------------------------
(* Types, and what of the stream is where: before the decision everything  *)
(* is in the buffer, after it nothing is.                                  *)
TypeOK ==
    /\ buf \in Seq(Frames) /\ out \in Seq(Frames) /\ arrived \in Seq(Frames)
    /\ pass \in BOOLEAN /\ closed \in BOOLEAN
    /\ connectedAt \in Nat /\ now \in Nat
    /\ IF pass \/ closed THEN buf = << >> ELSE buf = arrived /\ out = << >>

(* Only ringing is trimmed, whole runs that have the length of a burst or  *)
(* of a pause, with a burst and a pause among them; and where other audio  *)
(* follows the ring cycles, exactly the cycles are.                        *)
CyclesTrimmed ==
    LET cut    == findRingEnd(buf)
        cycles == RingCycles(buf)
    IN  /\ cut = 0 \/ IsRingtone(buf, cut)
        /\ Len(buf) >= 5 /\ cycles < Len(buf) /\ ~BurstBehindCycles(buf)
              => cut = cycles

(* Nothing said after the answer is ever taken for ringing, whichever of   *)
(* the answer and the frame is read first, and however the stream ends.    *)
AnsweredAudioKept ==
    Ordered /\ connectedAt > 0 /\ (pass \/ closed) =>
        \A i \in 1 .. Len(arrived) - Len(out) : arrived[i].ts <= connectedAt

(* The buffer never spans more than the cap.                               *)
BufferBounded == \A i \in DOMAIN buf : buf[i].ts - buf[1].ts <= MaxBufSec

(* The detector delays and trims a stream, and does nothing else to it.    *)
Listener == INSTANCE TrimmedStream WITH
    arrived <- arrived, out <- out, decided <- pass \/ closed

ImplementsTrimmedStream == Listener!Spec

=============================================================================
