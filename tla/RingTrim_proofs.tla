--------------------------- MODULE RingTrim_proofs ---------------------------
(***************************************************************************)
(* Theorems about RingTrim, for every cadence, cap and stream: nothing of  *)
(* the stream is lost but one prefix, the prefix ends before the answer    *)
(* and is ringing, and the detector implements TrimmedStream.              *)
(***************************************************************************)
EXTENDS RingTrim, Arithmetic, SequenceTheorems, TLAPS

(* The frames read are not later than the clock, in an ordered capture.    *)
PastIsPast == Ordered => \A i \in DOMAIN arrived : arrived[i].ts <= now

(* What is buffered after the answer was read is from before it.           *)
BufferIsEarly ==
    Ordered /\ connectedAt > 0 => \A i \in DOMAIN buf : buf[i].ts <= connectedAt

RingInv ==
    TypeOK /\ PastIsPast /\ BufferIsEarly /\ BufferBounded /\ AnsweredAudioKept

(* findRingEnd returns a number of frames of the buffer.                   *)
LEMMA RingEndInBuffer ==
    ASSUME NEW b \in Seq(Frames)
    PROVE  findRingEnd(b) \in 0 .. Len(b)
<1> DEFINE start == IF ~b[1].active /\ AtLeast(b, 1, MinOffSec)
                    THEN EndOf(b, 1) + 1 ELSE 1
           rest  == AfterCycles(b, start)
           cut   == IF rest = start THEN 0
                    ELSE IF IsBurst(b, rest) THEN EndOf(b, rest) ELSE rest - 1
<1>1. findRingEnd(b) = IF Len(b) >= 5 /\ cut \in 1 .. Len(b) - 1 THEN cut ELSE 0
  BY DEF findRingEnd
<1> HIDE DEF cut
<1>2. Len(b) \in Nat
  BY LenProperties
<1>3. QED
  BY <1>1, <1>2

(* What is kept of a buffer is the buffer without that many frames.        *)
LEMMA KeptIsSuffix ==
    ASSUME NEW b \in Seq(Frames)
    PROVE  /\ Kept(b) \in Seq(Frames)
           /\ Len(Kept(b)) = Len(b) - findRingEnd(b)
           /\ Kept(b) = SubSeq(b, findRingEnd(b) + 1, Len(b))
<1>1. findRingEnd(b) \in 0 .. Len(b) /\ Len(b) \in Nat
  BY RingEndInBuffer, LenProperties
<1>2. \A i \in findRingEnd(b) + 1 .. Len(b) : b[i] \in Frames
  BY <1>1, ElementOfSeq
<1> DEFINE m == findRingEnd(b) + 1
           n == Len(b)
<1>3. m \in Int /\ n \in Int /\ \A i \in m .. n : b[i] \in Frames
  BY <1>1, <1>2
<1> HIDE DEF m, n
<1>4. /\ SubSeq(b, m, n) \in Seq(Frames)
      /\ Len(SubSeq(b, m, n)) = IF m <= n THEN n - m + 1 ELSE 0
  BY <1>3, SubSeqProperties
<1>5. QED
  BY <1>1, <1>4 DEF Kept, m, n

(* Appending a frame keeps the frames there were.                          *)
LEMMA Appending ==
    ASSUME NEW s \in Seq(Frames), NEW f \in Frames
    PROVE  /\ Append(s, f) \in Seq(Frames)
           /\ Len(Append(s, f)) = Len(s) + 1
           /\ DOMAIN Append(s, f) = 1 .. Len(s) + 1
           /\ DOMAIN s = 1 .. Len(s) /\ Len(s) \in Nat
           /\ \A i \in 1 .. Len(s) : Append(s, f)[i] = s[i]
           /\ Append(s, f)[Len(s) + 1] = f
           /\ Append(s, f) # << >>
BY AppendProperties, LenProperties

(* The detector starts in the invariant.                                   *)
LEMMA RingInit == Init => RingInv
<1> SUFFICES ASSUME Init PROVE RingInv
  OBVIOUS
<1> USE RingAssumption
<1>1. << >> \in Seq(Frames) /\ Len(<< >>) = 0 /\ DOMAIN << >> = {}
  BY EmptySeq, LenProperties
<1>2. TypeOK
  BY <1>1 DEF Init, TypeOK
<1>3. QED
  BY <1>1, <1>2 DEF Init, RingInv, PastIsPast, BufferIsEarly, BufferBounded,
                    AnsweredAudioKept

(* A frame that is read, by any of the four ways through writePacket.      *)
LEMMA RingPacket ==
    ASSUME RingInv, NEW d \in Steps, now + d >= 0, now' = now + d,
           NEW a \in BOOLEAN, writePacket([ts |-> now', active |-> a])
    PROVE  RingInv'
<1> DEFINE f == [ts |-> now', active |-> a]
<1> USE RingAssumption
<1>1. /\ f \in Frames /\ f.ts = now' /\ now' \in Nat /\ now \in Nat /\ d \in Int
      /\ Ordered => now <= now'
  BY DEF RingInv, TypeOK, Frames, Ordered
<1>2. /\ buf \in Seq(Frames) /\ out \in Seq(Frames) /\ arrived \in Seq(Frames)
      /\ pass \in BOOLEAN /\ closed = FALSE /\ connectedAt \in Nat
      /\ pass => buf = << >>
      /\ ~pass => buf = arrived /\ out = << >>
  BY DEF RingInv, TypeOK, writePacket
<1>3. arrived' = Append(arrived, f) /\ connectedAt' = connectedAt /\ closed' = FALSE
  BY <1>2 DEF writePacket
<1> HIDE DEF f
<1>4. PastIsPast'
  <2> SUFFICES ASSUME Ordered, NEW i \in DOMAIN arrived'
               PROVE  arrived'[i].ts <= now'
    BY DEF PastIsPast, Ordered
  <2>1. /\ i \in 1 .. Len(arrived) + 1
        /\ arrived'[Len(arrived) + 1] = f
    BY <1>1, <1>2, <1>3, Appending
  <2>2. CASE i = Len(arrived) + 1
    BY <1>1, <2>1, <2>2
  <2>3. CASE i \in 1 .. Len(arrived)
    <3>1. arrived'[i] = arrived[i] /\ i \in DOMAIN arrived
      BY <1>1, <1>2, <1>3, <2>3, Appending
    <3>2. arrived[i] \in Frames
      BY <1>2, <2>3, ElementOfSeq
    <3>3. arrived[i].ts <= now
      BY <3>1 DEF RingInv, PastIsPast
    <3>4. QED
      BY <1>1, <3>1, <3>2, <3>3 DEF Frames
  <2>4. QED
    BY <1>2, <2>1, <2>2, <2>3, LenProperties
<1>5. << >> \in Seq(Frames) /\ Len(<< >>) = 0 /\ DOMAIN << >> = {}
  BY EmptySeq, LenProperties
<1>6. CASE PassFrame(f)
  <2>1. pass /\ out' = Append(out, f) /\ buf' = << >> /\ pass'
    BY <1>2, <1>6 DEF PassFrame
  <2>2. TypeOK'
    BY <1>1, <1>2, <1>3, <1>5, <2>1, Appending DEF TypeOK
  <2>3. AnsweredAudioKept'
    <3>1. Len(arrived') - Len(out') = Len(arrived) - Len(out)
      BY <1>1, <1>2, <1>3, <2>1, Appending
    <3>2. \A i \in 1 .. Len(arrived) - Len(out) : arrived'[i] = arrived[i]
      BY <1>1, <1>2, <1>3, Appending
    <3>3. QED
      BY <1>2, <1>3, <2>1, <3>1, <3>2 DEF RingInv, AnsweredAudioKept, Ordered
  <2>4. QED
    BY <1>4, <1>5, <2>1, <2>2, <2>3 DEF RingInv, BufferIsEarly, BufferBounded
<1>7. CASE AnsweredFrame(f)
  <2>1. /\ ~pass /\ out' = Append(out \o Kept(buf), f) /\ buf' = << >> /\ pass'
        /\ buf = arrived /\ out = << >>
    BY <1>2, <1>7 DEF AnsweredFrame
  <2>2. out \o Kept(buf) = Kept(buf) /\ Kept(buf) \in Seq(Frames)
    BY <1>2, <2>1, KeptIsSuffix, ConcatEmptySeq
  <2>3. TypeOK'
    BY <1>1, <1>2, <1>3, <1>5, <2>1, <2>2, Appending DEF TypeOK
  <2>4. AnsweredAudioKept'
    <3>1. Len(arrived') - Len(out') = findRingEnd(buf)
      <4>1. Len(arrived') = Len(buf) + 1
        BY <1>1, <1>2, <1>3, <2>1, Appending
      <4>2. Len(out') = Len(Kept(buf)) + 1
        BY <1>1, <2>1, <2>2, Appending
      <4>3. Len(Kept(buf)) = Len(buf) - findRingEnd(buf)
        BY <1>2, KeptIsSuffix
      <4>4. findRingEnd(buf) \in 0 .. Len(buf) /\ Len(buf) \in Nat
        BY <1>2, RingEndInBuffer, LenProperties
      <4> DEFINE l == Len(buf)
                 e == findRingEnd(buf)
                 o == Len(Kept(buf))
      <4>5. l \in Nat /\ e \in 0 .. l /\ o = l - e
        BY <4>3, <4>4
      <4> HIDE DEF l, e, o
      <4>6. (l + 1) - (o + 1) = e
        BY <4>5
      <4>7. QED
        BY <4>1, <4>2, <4>6 DEF l, e, o
    <3>2. \A i \in 1 .. findRingEnd(buf) : i \in DOMAIN buf /\ arrived'[i] = buf[i]
      BY <1>1, <1>2, <1>3, <2>1, Appending, RingEndInBuffer
    <3>3. QED
      BY <1>3, <3>1, <3>2 DEF RingInv, AnsweredAudioKept, BufferIsEarly, Ordered
  <2>5. QED
    BY <1>4, <1>5, <2>1, <2>3, <2>4 DEF RingInv, BufferIsEarly, BufferBounded
<1>8. CASE BufferFrame(f)
  <2>1. /\ ~pass /\ out' = out /\ buf' = Append(buf, f) /\ pass' = pass
        /\ buf = arrived /\ out = << >>
        /\ ~Answered(f) /\ ~TooLong(Append(buf, f))
    BY <1>2, <1>8 DEF BufferFrame
  <2>2. TypeOK'
    BY <1>1, <1>2, <1>3, <2>1, Appending DEF TypeOK
  <2>3. BufferIsEarly'
    <3>1. connectedAt > 0 => f.ts <= connectedAt
      BY <1>1, <1>2, <2>1 DEF Answered
    <3>2. QED
      BY <1>1, <1>2, <1>3, <2>1, <3>1, Appending DEF RingInv, BufferIsEarly, Ordered
  <2>4. BufferBounded'
    <3>1. \A i \in DOMAIN buf : buf'[i] = buf[i]
      BY <1>1, <1>2, <2>1, Appending
    <3>2. CASE Len(buf) = 0
      <4>1. DOMAIN buf' = 1 .. 1 /\ buf'[1] = f
        BY <1>1, <1>2, <2>1, <3>2, Appending
      <4>2. MaxBufSec >= 0
        BY DEF RingAssumption
      <4>3. QED
        BY <1>1, <4>1, <4>2 DEF BufferBounded
    <3>3. CASE Len(buf) > 0
      <4>1. buf'[1] = buf[1] /\ buf[1].ts \in Int /\ f.ts \in Int
        <5>1. 1 \in DOMAIN buf /\ buf[1] \in Frames
          BY <1>2, <3>3, LenProperties, ElementOfSeq
        <5>2. QED
          BY <1>1, <3>1, <5>1 DEF Frames
      <4>2. /\ Len(buf') = Len(buf) + 1 /\ buf'[Len(buf) + 1] = f
            /\ DOMAIN buf' = 1 .. Len(buf) + 1 /\ DOMAIN buf = 1 .. Len(buf)
        BY <1>1, <1>2, <2>1, Appending
      <4>3. f.ts - buf[1].ts <= MaxBufSec
        BY <1>2, <2>1, <3>3, <4>1, <4>2 DEF TooLong
      <4>4. \A i \in 1 .. Len(buf) + 1 : buf'[i].ts - buf'[1].ts <= MaxBufSec
        <5> TAKE i \in 1 .. Len(buf) + 1
        <5>1. CASE i = Len(buf) + 1
          BY <4>1, <4>2, <4>3, <5>1
        <5>2. CASE i \in 1 .. Len(buf)
          BY <3>1, <4>1, <4>2, <5>2 DEF RingInv, BufferBounded
        <5>3. QED
          BY <1>2, <5>1, <5>2, LenProperties
      <4>5. QED
        BY <4>2, <4>4 DEF BufferBounded
    <3>4. QED
      BY <1>2, <3>2, <3>3, LenProperties
  <2>5. AnsweredAudioKept'
    BY <1>3, <2>1 DEF AnsweredAudioKept
  <2>6. QED
    BY <1>4, <2>2, <2>3, <2>4, <2>5 DEF RingInv
<1>9. CASE CapReached(f)
  <2>1. /\ ~pass /\ out' = out \o Kept(Append(buf, f)) /\ buf' = << >> /\ pass'
        /\ buf = arrived /\ out = << >> /\ ~Answered(f)
    BY <1>2, <1>9 DEF CapReached
  <2>2. Append(buf, f) \in Seq(Frames) /\ arrived' = Append(buf, f)
    BY <1>1, <1>2, <1>3, <2>1, Appending
  <2>3. out' = Kept(arrived') /\ out' \in Seq(Frames)
    BY <2>1, <2>2, KeptIsSuffix, ConcatEmptySeq
  <2>4. TypeOK'
    BY <1>1, <1>2, <1>3, <1>5, <2>1, <2>2, <2>3 DEF TypeOK
  <2>5. AnsweredAudioKept'
    <3>1. Len(arrived') - Len(out') = findRingEnd(arrived')
      <4>1. findRingEnd(arrived') \in 0 .. Len(arrived') /\ Len(arrived') \in Nat
        BY <2>2, RingEndInBuffer, LenProperties
      <4>2. Len(out') = Len(arrived') - findRingEnd(arrived')
        BY <2>2, <2>3, KeptIsSuffix
      <4>3. QED
        BY <4>1, <4>2
    <3>2. connectedAt > 0 => f.ts <= connectedAt
      BY <1>1, <1>2, <2>1 DEF Answered
    <3>3. Ordered /\ connectedAt > 0 =>
             \A i \in 1 .. Len(arrived') : arrived'[i].ts <= connectedAt
      BY <1>1, <1>2, <2>1, <2>2, <3>2, Appending DEF RingInv, BufferIsEarly
    <3>4. findRingEnd(arrived') \in 0 .. Len(arrived') /\ Len(arrived') \in Nat
      BY <2>2, RingEndInBuffer, LenProperties
    <3>5. QED
      BY <1>3, <3>1, <3>3, <3>4 DEF AnsweredAudioKept, Ordered
  <2>6. QED
    BY <1>4, <1>5, <2>1, <2>4, <2>5 DEF RingInv, BufferIsEarly, BufferBounded
<1>10. QED
  BY <1>6, <1>7, <1>8, <1>9 DEF writePacket, f

(* The rest of the capture: an answer is read, the stream is closed.       *)
LEMMA RingAnswer ==
    ASSUME RingInv, NEW d \in Steps, now + d >= 0, now' = now + d, Answer(now')
    PROVE  RingInv'
<1> USE RingAssumption
<1>1. /\ now' \in Nat /\ now \in Nat /\ (Ordered => now <= now')
      /\ arrived \in Seq(Frames) /\ out \in Seq(Frames)
  BY DEF RingInv, TypeOK, Ordered
<1>2. /\ connectedAt = 0 /\ connectedAt' = now'
      /\ buf' = buf /\ pass' = pass /\ out' = out /\ closed' = closed
      /\ arrived' = arrived
  BY DEF Answer
<1>3. TypeOK' /\ BufferBounded'
  BY <1>1, <1>2 DEF RingInv, TypeOK, BufferBounded
<1>4. Ordered => \A i \in DOMAIN arrived : arrived[i].ts <= now'
  <2>1. \A i \in DOMAIN arrived : arrived[i] \in Frames
    BY <1>1, LenProperties, ElementOfSeq
  <2>2. QED
    BY <1>1, <2>1 DEF RingInv, PastIsPast, Frames
<1>5. PastIsPast'
  BY <1>2, <1>4 DEF PastIsPast, Ordered
<1>6. BufferIsEarly'
  BY <1>1, <1>2, <1>4, LenProperties
     DEF RingInv, TypeOK, BufferIsEarly, Ordered
<1>7. AnsweredAudioKept'
  <2>1. 1 .. Len(arrived) - Len(out) \subseteq DOMAIN arrived
    BY <1>1, LenProperties
  <2>2. QED
    BY <1>2, <1>4, <2>1 DEF AnsweredAudioKept, Ordered
<1>8. QED
  BY <1>3, <1>5, <1>6, <1>7 DEF RingInv

(* Closing writes what is kept of the buffer.                              *)
LEMMA RingClose == RingInv /\ close => RingInv'
<1> SUFFICES ASSUME RingInv, close PROVE RingInv'
  OBVIOUS
<1>1. /\ buf \in Seq(Frames) /\ out \in Seq(Frames) /\ arrived \in Seq(Frames)
      /\ pass => buf = << >>
      /\ ~pass => buf = arrived /\ out = << >>
      /\ pass \in BOOLEAN
  BY DEF RingInv, TypeOK, close
<1>2. /\ out' = out \o Kept(buf) /\ buf' = << >> /\ closed' = TRUE
      /\ pass' = pass /\ connectedAt' = connectedAt
      /\ arrived' = arrived /\ now' = now
  BY DEF close
<1>3. << >> \in Seq(Frames) /\ Len(<< >>) = 0 /\ DOMAIN << >> = {}
  BY EmptySeq, LenProperties
<1>4. Kept(buf) \in Seq(Frames) /\ out' \in Seq(Frames)
  BY <1>1, <1>2, KeptIsSuffix, ConcatProperties
<1>5. TypeOK'
  BY <1>1, <1>2, <1>3, <1>4 DEF RingInv, TypeOK
<1>6. PastIsPast' /\ BufferIsEarly' /\ BufferBounded'
  BY <1>2, <1>3 DEF RingInv, PastIsPast, BufferIsEarly, BufferBounded, Ordered
<1>7. AnsweredAudioKept'
  <2>1. CASE pass
    <3>1. out' = out
      <4>1. findRingEnd(buf) \in 0 .. Len(buf) /\ Len(buf) = 0
        BY <1>1, <1>3, <2>1, RingEndInBuffer
      <4>2. Len(Kept(buf)) = Len(buf) - findRingEnd(buf)
        BY <1>1, KeptIsSuffix
      <4>3. Len(Kept(buf)) = 0
        BY <4>1, <4>2
      <4>4. QED
        BY <1>1, <1>2, <1>4, <4>3, EmptySeq, ConcatEmptySeq
    <3>2. QED
      BY <1>2, <2>1, <3>1 DEF RingInv, AnsweredAudioKept, Ordered
  <2>2. CASE ~pass
    <3>1. out' = Kept(arrived)
      BY <1>1, <1>2, <1>4, <2>2, ConcatEmptySeq
    <3>2. findRingEnd(arrived) \in 0 .. Len(arrived) /\ Len(arrived) \in Nat
      BY <1>1, RingEndInBuffer, LenProperties
    <3>3. Len(out') = Len(arrived) - findRingEnd(arrived)
      BY <1>1, <3>1, KeptIsSuffix
    <3>4. 1 .. Len(arrived) - Len(out') \subseteq DOMAIN buf
      BY <1>1, <2>2, <3>2, <3>3, LenProperties
    <3>5. QED
      BY <1>1, <1>2, <2>2, <3>4
         DEF RingInv, AnsweredAudioKept, BufferIsEarly, Ordered
  <2>3. QED
    BY <2>1, <2>2
<1>8. QED
  BY <1>5, <1>6, <1>7 DEF RingInv

(* Every step keeps the invariant.                                         *)
LEMMA RingStep == RingInv /\ [Next]_vars => RingInv'
<1> SUFFICES ASSUME RingInv, [Next]_vars PROVE RingInv'
  OBVIOUS
<1>1. ASSUME NEW d \in Steps, now + d >= 0, now' = now + d,
             NEW a \in BOOLEAN, writePacket([ts |-> now', active |-> a])
      PROVE  RingInv'
  BY <1>1, RingPacket
<1>2. ASSUME NEW d \in Steps, now + d >= 0, now' = now + d, Answer(now')
      PROVE  RingInv'
  BY <1>2, RingAnswer
<1>3. CASE close
  BY <1>3, RingClose
<1>4. CASE UNCHANGED vars
  BY <1>4 DEF RingInv, TypeOK, PastIsPast, BufferIsEarly, BufferBounded,
              AnsweredAudioKept, Ordered, vars
<1>5. QED
  BY <1>1, <1>2, <1>3, <1>4 DEF Next

(* The invariant holds throughout.                                         *)
THEOREM RingInvariant == Spec => []RingInv
<1>1. Init => RingInv
  BY RingInit
<1>2. RingInv /\ [Next]_vars => RingInv'
  BY RingStep
<1>3. QED
  BY <1>1, <1>2, PTL DEF Spec

(* Before the decision the buffer is the whole stream, after it is empty.  *)
THEOREM RingTypeCorrect == Spec => []TypeOK
<1>1. RingInv => TypeOK
  BY DEF RingInv
<1>2. QED
  BY <1>1, RingInvariant, PTL

(* No frame later than the answer is ever trimmed, whatever findRingEnd    *)
(* takes for ringing.                                                      *)
THEOREM AnsweredAudioIsKept == Spec => []AnsweredAudioKept
<1>1. RingInv => AnsweredAudioKept
  BY DEF RingInv
<1>2. QED
  BY <1>1, RingInvariant, PTL

(* The buffer never spans more time than the cap.                          *)
THEOREM BufferIsBounded == Spec => []BufferBounded
<1>1. RingInv => BufferBounded
  BY DEF RingInv
<1>2. QED
  BY <1>1, RingInvariant, PTL

-----------------------------------------------------------------------------
(* The detector implements TrimmedStream.                                  *)

(* A suffix of a stream, and the same suffix one frame later.              *)
LEMMA SuffixGrows ==
    ASSUME NEW s \in Seq(Frames), NEW f \in Frames, NEW t \in 0 .. Len(s)
    PROVE  Append(SubSeq(s, t + 1, Len(s)), f)
             = SubSeq(Append(s, f), t + 1, Len(Append(s, f)))
<1> DEFINE u == SubSeq(s, t + 1, Len(s))
           v == Append(s, f)
           w == SubSeq(v, t + 1, Len(v))
<1>1. /\ v \in Seq(Frames) /\ Len(v) = Len(s) + 1 /\ Len(s) \in Nat
      /\ \A i \in 1 .. Len(s) : v[i] = s[i]
      /\ v[Len(s) + 1] = f
  BY Appending
<1>1a. Len(s) \in Nat /\ t \in 0 .. Len(s)
  BY <1>1
<1>2. /\ u \in Seq(Frames) /\ Len(u) = Len(s) - t
      /\ \A i \in 1 .. Len(s) - t : u[i] = s[t + i]
  <2>1. \A i \in t + 1 .. Len(s) : s[i] \in Frames
    BY <1>1, ElementOfSeq
  <2>2. /\ u \in Seq(Frames)
        /\ Len(u) = IF t + 1 <= Len(s) THEN Len(s) - (t + 1) + 1 ELSE 0
        /\ \A i \in 1 .. Len(s) - (t + 1) + 1 : u[i] = s[t + 1 + i - 1]
    BY <1>1, <2>1, SubSeqProperties
  <2>3. QED
    BY <1>1, <2>2
<1>3. /\ w \in Seq(Frames) /\ Len(w) = Len(s) - t + 1
      /\ \A i \in 1 .. Len(s) - t + 1 : w[i] = v[t + i]
  <2>1. \A i \in t + 1 .. Len(v) : v[i] \in Frames
    BY <1>1, ElementOfSeq
  <2>2. /\ w \in Seq(Frames)
        /\ Len(w) = IF t + 1 <= Len(v) THEN Len(v) - (t + 1) + 1 ELSE 0
        /\ \A i \in 1 .. Len(v) - (t + 1) + 1 : w[i] = v[t + 1 + i - 1]
    BY <1>1, <2>1, SubSeqProperties
  <2>3. QED
    BY <1>1, <2>2
<1> HIDE DEF u, v, w
<1>4. /\ Append(u, f) \in Seq(Frames) /\ Len(Append(u, f)) = Len(s) - t + 1
      /\ \A i \in 1 .. Len(s) - t : Append(u, f)[i] = u[i]
      /\ Append(u, f)[Len(s) - t + 1] = f
  BY <1>2, Appending
<1>5. \A i \in 1 .. Len(s) - t + 1 : Append(u, f)[i] = w[i]
  <2> SUFFICES ASSUME NEW i \in 1 .. Len(s) - t + 1
               PROVE  Append(u, f)[i] = w[i]
    OBVIOUS
  <2>1. CASE i = Len(s) - t + 1
    BY <1>1, <1>3, <1>4, <2>1
  <2>2. CASE i \in 1 .. Len(s) - t
    BY <1>1, <1>2, <1>3, <1>4, <2>2
  <2>3. i = Len(s) - t + 1 \/ i \in 1 .. Len(s) - t
    BY <1>1a
  <2>4. QED
    BY <2>1, <2>2, <2>3
<1>6. Append(u, f) = w
  BY <1>3, <1>4, <1>5, SeqEqual
<1>7. QED
  BY <1>6 DEF u, v, w

(* A frame appended to the stream is a frame arriving.                     *)
LEMMA ArrivalIsArrival ==
    ASSUME NEW f \in Frames, arrived \in Seq(Frames), arrived' = Append(arrived, f)
    PROVE  Listener!Arrives /\ arrived'[Len(arrived')] = f
<1>1. /\ Append(arrived, f) \in Seq(Frames)
      /\ Len(Append(arrived, f)) = Len(arrived) + 1 /\ Len(arrived) \in Nat
      /\ \A i \in 1 .. Len(arrived) : Append(arrived, f)[i] = arrived[i]
      /\ Append(arrived, f)[Len(arrived) + 1] = f
  BY Appending
<1> DEFINE w == SubSeq(Append(arrived, f), 1, Len(arrived))
<1>2. /\ w \in Seq(Frames) /\ Len(w) = Len(arrived)
      /\ \A i \in 1 .. Len(arrived) : w[i] = arrived[i]
  <2>1. \A i \in 1 .. Len(arrived) : Append(arrived, f)[i] \in Frames
    BY <1>1, ElementOfSeq
  <2>2. /\ w \in Seq(Frames)
        /\ Len(w) = IF 1 <= Len(arrived) THEN Len(arrived) - 1 + 1 ELSE 0
        /\ \A i \in 1 .. Len(arrived) - 1 + 1 :
              w[i] = Append(arrived, f)[1 + i - 1]
    BY <1>1, <2>1, SubSeqProperties
  <2>3. QED
    BY <1>1, <2>2
<1> HIDE DEF w
<1>3. w = arrived
  BY <1>2, SeqEqual
<1>4. QED
  BY <1>1, <1>3 DEF Listener!Arrives, w

(* Every step of the detector is a step of TrimmedStream or changes none   *)
(* of its variables.                                                       *)
LEMMA RingSimulates ==
    RingInv /\ [Next]_vars
      => [Listener!Next]_<<arrived, out, pass \/ closed>>
<1> SUFFICES ASSUME RingInv, [Next]_vars
             PROVE  [Listener!Next]_<<arrived, out, pass \/ closed>>
  OBVIOUS
<1>1. /\ buf \in Seq(Frames) /\ out \in Seq(Frames) /\ arrived \in Seq(Frames)
      /\ pass \in BOOLEAN /\ closed \in BOOLEAN
      /\ IF pass \/ closed THEN buf = << >> ELSE buf = arrived /\ out = << >>
  BY DEF RingInv, TypeOK
<1>2. ASSUME NEW d \in Steps, now + d >= 0, now' = now + d,
             NEW a \in BOOLEAN, writePacket([ts |-> now', active |-> a])
      PROVE  Listener!Next
  <2> DEFINE f == [ts |-> now', active |-> a]
  <2>1. /\ f \in Frames /\ ~closed /\ ~closed'
        /\ arrived' = Append(arrived, f)
    BY <1>2, RingAssumption DEF RingInv, TypeOK, Frames, writePacket
  <2> HIDE DEF f
  <2>2. /\ Listener!Arrives /\ arrived'[Len(arrived')] = f
        /\ arrived' \in Seq(Frames) /\ Len(arrived') = Len(arrived) + 1
        /\ Len(arrived) \in Nat
    BY <1>1, <2>1, ArrivalIsArrival, Appending
  <2>3. CASE PassFrame(f)
    BY <2>1, <2>2, <2>3 DEF PassFrame, Listener!Next, Listener!Forward
  <2>4. CASE AnsweredFrame(f)
    <3>1. ~pass /\ pass' /\ out = << >> /\ buf = arrived
          /\ out' = Append(out \o Kept(buf), f)
      BY <1>1, <2>1, <2>4 DEF AnsweredFrame
    <3>2. findRingEnd(arrived) \in 0 .. Len(arrived)
      BY <1>1, RingEndInBuffer
    <3>3. out' = Append(Kept(arrived), f)
      BY <1>1, <3>1, KeptIsSuffix, ConcatEmptySeq
    <3>4. out' = SubSeq(arrived', findRingEnd(arrived) + 1, Len(arrived'))
      BY <1>1, <2>1, <3>2, <3>3, SuffixGrows DEF Kept
    <3>5. findRingEnd(arrived) \in 0 .. Len(arrived')
      BY <2>2, <3>2
    <3>6. QED
      BY <2>1, <2>2, <3>1, <3>4, <3>5 DEF Listener!Next, Listener!Decide
  <2>5. CASE BufferFrame(f)
    BY <2>1, <2>2, <2>5 DEF BufferFrame, Listener!Next, Listener!Hold
  <2>6. CASE CapReached(f)
    <3>1. ~pass /\ pass' /\ out = << >> /\ out' = out \o Kept(arrived')
      BY <1>1, <2>1, <2>6 DEF CapReached
    <3>2. out' = Kept(arrived')
      BY <2>2, <3>1, KeptIsSuffix, ConcatEmptySeq
    <3>3. /\ findRingEnd(arrived') \in 0 .. Len(arrived')
          /\ out' = SubSeq(arrived', findRingEnd(arrived') + 1, Len(arrived'))
      BY <2>2, <3>2, RingEndInBuffer DEF Kept
    <3>4. QED
      BY <2>1, <2>2, <3>1, <3>3 DEF Listener!Next, Listener!Decide
  <2>7. QED
    BY <1>2, <2>3, <2>4, <2>5, <2>6 DEF writePacket, f
<1>3. ASSUME NEW d \in Steps, Answer(now + d)
      PROVE  UNCHANGED <<arrived, out, pass \/ closed>>
  BY <1>3 DEF Answer
<1>4. CASE close
  <2>1. /\ ~closed /\ closed' /\ pass' = pass /\ arrived' = arrived
        /\ out' = out \o Kept(buf)
    BY <1>4 DEF close
  <2>2. CASE pass
    <3>1. buf = << >> /\ Len(buf) = 0
      BY <1>1, <2>2, EmptySeq
    <3>2. findRingEnd(buf) \in 0 .. Len(buf)
      BY <1>1, RingEndInBuffer
    <3>3. Kept(buf) \in Seq(Frames) /\ Len(Kept(buf)) = Len(buf) - findRingEnd(buf)
      BY <1>1, KeptIsSuffix
    <3>4. Len(Kept(buf)) = 0
      BY <3>1, <3>2, <3>3
    <3>5. out' = out
      BY <1>1, <2>1, <3>3, <3>4, EmptySeq, ConcatEmptySeq
    <3>6. QED
      BY <2>1, <2>2, <3>5
  <2>3. CASE ~pass
    <3>1. out' = Kept(arrived')
      BY <1>1, <2>1, <2>3, KeptIsSuffix, ConcatEmptySeq
    <3>2. /\ findRingEnd(arrived') \in 0 .. Len(arrived')
          /\ out' = SubSeq(arrived', findRingEnd(arrived') + 1, Len(arrived'))
      BY <1>1, <2>1, <3>1, RingEndInBuffer DEF Kept
    <3>3. QED
      BY <2>1, <2>3, <3>2 DEF Listener!Next, Listener!Decide
  <2>4. QED
    BY <1>1, <2>2, <2>3
<1>5. CASE UNCHANGED vars
  BY <1>5 DEF vars
<1>6. QED
  BY <1>2, <1>3, <1>4, <1>5 DEF Next

(* The detector delays and trims a stream and does nothing else to it: at  *)
(* most a prefix is lost, nothing is doubled, moved or held back for ever. *)
THEOREM RingImplementsTrimmedStream == Spec => ImplementsTrimmedStream
<1>1. Init => Listener!Init
  BY DEF Init, Listener!Init
<1>2. RingInv /\ [Next]_vars
        => [Listener!Next]_<<arrived, out, pass \/ closed>>
  BY RingSimulates
<1>3. QED
  BY <1>1, <1>2, RingInvariant, PTL DEF Spec, ImplementsTrimmedStream, Listener!Spec

-----------------------------------------------------------------------------
(* What is trimmed is ringing.                                             *)

(* A run of equally active frames begins at s.                             *)
Begins(b, s) == s \in 1 .. Len(b) /\ (s > 1 => b[s - 1].active # b[s].active)

(* The run that begins at s is as long as ringing may be.                  *)
Fits(b, s) ==
    IF b[s].active THEN AtLeast(b, s, MinOnSec) /\ AtMost(b, s, MaxOnSec)
    ELSE AtLeast(b, s, MinOffSec) /\ (s > 1 => AtMost(b, s, MaxOffSec))

Ringing(b, t) == \A s \in 1 .. t : Begins(b, s) => Fits(b, s)

(* A run ends at t; one that ends at t is a pause; a burst with some of    *)
(* the pause behind it lies in the first t frames.                         *)
RunEndsAt(b, t)   == \E s \in 1 .. t : Begins(b, s) /\ EndOf(b, s) = t
PauseEndsAt(b, t) ==
    \E s \in 1 .. t : Begins(b, s) /\ ~b[s].active /\ EndOf(b, s) = t
HasCycle(b, t)    ==
    \E s \in 1 .. t : Begins(b, s) /\ b[s].active /\ EndOf(b, s) + 1 \in 1 .. t

(* EndOf is the end of the longest run from s on.                          *)
LEMMA RunEnd ==
    ASSUME NEW b \in Seq(Frames), NEW s \in 1 .. Len(b)
    PROVE  /\ EndOf(b, s) \in s .. Len(b)
           /\ \A k \in s .. EndOf(b, s) : b[k].active = b[s].active
           /\ EndOf(b, s) < Len(b) => b[EndOf(b, s) + 1].active # b[s].active
<1> DEFINE M == {j \in s .. Len(b) : \A k \in s .. j : b[k].active = b[s].active}
<1>1. Len(b) \in Nat
  BY LenProperties
<1>2. s \in M
  BY <1>1
<1>3. M \in SUBSET (0 .. Len(b)) /\ M \in SUBSET Nat /\ M # {}
  BY <1>1, <1>2
<1>4. EndOf(b, s) \in M /\ \A j \in M : j <= EndOf(b, s)
  <2> HIDE DEF M
  <2>1. PICK m \in M : \A j \in M : m >= j
    BY <1>1, <1>3, GreatestElement
  <2>2. Max(M) = m
    BY <1>3, <2>1, MaxIsGreatest
  <2>3. EndOf(b, s) = Max(M)
    BY Zenon DEF EndOf, M
  <2> QED
    BY <2>1, <2>2, <2>3
<1> DEFINE e == EndOf(b, s)
<1>5. e < Len(b) => b[e + 1].active # b[s].active
  <2> SUFFICES ASSUME e < Len(b), b[e + 1].active = b[s].active PROVE FALSE
    OBVIOUS
  <2> HIDE DEF e
  <2>1. e \in s .. Len(b) /\ \A k \in s .. e : b[k].active = b[s].active
    BY <1>4 DEF e
  <2>2. e + 1 \in M
    BY <1>1, <2>1
  <2>3. e + 1 <= e
    BY <1>4, <2>2 DEF e
  <2> QED
    BY <1>1, <2>1, <2>3
<1> QED
  BY <1>4, <1>5

(* Only the first frame of a run begins one, and behind a run the other    *)
(* kind begins.                                                            *)
LEMMA BehindRun ==
    ASSUME NEW b \in Seq(Frames), NEW s \in 1 .. Len(b)
    PROVE  /\ \A p \in s .. EndOf(b, s) : Begins(b, p) => p = s
           /\ EndOf(b, s) < Len(b) =>
                 /\ Begins(b, EndOf(b, s) + 1)
                 /\ b[EndOf(b, s) + 1].active # b[s].active
<1>1. PICK e : e = EndOf(b, s)
  OBVIOUS
<1>2. /\ e \in s .. Len(b) /\ Len(b) \in Nat
      /\ \A k \in s .. e : b[k].active = b[s].active
      /\ e < Len(b) => b[e + 1].active # b[s].active
  BY <1>1, RunEnd, LenProperties
<1>3. ASSUME NEW p \in s .. e, Begins(b, p) PROVE p = s
  <2> SUFFICES ASSUME p # s PROVE FALSE
    OBVIOUS
  <2>1. p - 1 \in s .. e /\ p > 1
    BY <1>2
  <2>2. b[p - 1].active = b[s].active /\ b[p].active = b[s].active
    BY <1>2, <2>1
  <2> QED
    BY <1>3, <2>1, <2>2 DEF Begins
<1>4. ASSUME e < Len(b) PROVE Begins(b, e + 1)
  <2>1. e + 1 \in 1 .. Len(b) /\ (e + 1) - 1 = e /\ e \in s .. e
    BY <1>2, <1>4
  <2>2. b[e].active = b[s].active
    BY <1>2, <2>1
  <2> QED
    BY <1>2, <1>4, <2>1, <2>2 DEF Begins
<1> QED
  BY <1>1, <1>2, <1>3, <1>4

(* The runs of the reference are those from a beginning to EndOf.          *)
LEMMA RunsBegin ==
    ASSUME NEW b \in Seq(Frames), NEW i \in 1 .. Len(b), NEW j \in i .. Len(b)
    PROVE  IsRun(b, i, j) <=> Begins(b, i) /\ j = EndOf(b, i)
<1>1. PICK e : e = EndOf(b, i)
  OBVIOUS
<1>2. /\ e \in i .. Len(b) /\ Len(b) \in Nat
      /\ \A k \in i .. e : b[k].active = b[i].active
      /\ e < Len(b) => b[e + 1].active # b[i].active
  BY <1>1, RunEnd, LenProperties
<1>3. ASSUME IsRun(b, i, j) PROVE Begins(b, i) /\ j = e
  <2>1. /\ \A k \in i .. j : b[k].active = b[i].active
        /\ i > 1 => b[i - 1].active # b[i].active
        /\ j < Len(b) => b[j + 1].active # b[j].active
    BY <1>3 DEF IsRun
  <2>2. ~(j < e)
    <3> SUFFICES ASSUME j < e PROVE FALSE
      OBVIOUS
    <3>1. j \in i .. e /\ j + 1 \in i .. e /\ j < Len(b)
      BY <1>2
    <3>2. b[j].active = b[i].active /\ b[j + 1].active = b[i].active
      BY <1>2, <3>1
    <3> QED
      BY <2>1, <3>1, <3>2
  <2>3. ~(e < j)
    <3> SUFFICES ASSUME e < j PROVE FALSE
      OBVIOUS
    <3>1. e + 1 \in i .. j /\ e < Len(b)
      BY <1>2
    <3> QED
      BY <1>2, <2>1, <3>1
  <2> QED
    BY <1>2, <2>1, <2>2, <2>3 DEF Begins
<1>4. ASSUME Begins(b, i), j = e PROVE IsRun(b, i, j)
  <2>1. e \in i .. e
    BY <1>2
  <2>2. b[e].active = b[i].active
    BY <1>2, <2>1
  <2> QED
    BY <1>2, <1>4, <2>2 DEF Begins, IsRun
<1> QED
  BY <1>1, <1>3, <1>4

(* No run lies across the end of another.                                  *)
LEMMA NoRunAcross ==
    ASSUME NEW b \in Seq(Frames), NEW t \in 1 .. Len(b), RunEndsAt(b, t),
           NEW p \in 1 .. t
    PROVE  EndOf(b, p) \in p .. t
<1>1. Len(b) \in Nat
  BY LenProperties
<1>2. PICK s \in 1 .. t : EndOf(b, s) = t
  BY DEF RunEndsAt
<1>3. s \in 1 .. Len(b) /\ p \in 1 .. Len(b)
  BY <1>1
<1>4. /\ b[t].active = b[s].active
      /\ t < Len(b) => b[t + 1].active # b[s].active
  <2>1. t \in s .. t
    BY <1>1
  <2> QED
    BY <1>2, <1>3, <2>1, RunEnd
<1>5. PICK e : e = EndOf(b, p)
  OBVIOUS
<1>6. e \in p .. Len(b) /\ \A k \in p .. e : b[k].active = b[p].active
  BY <1>3, <1>5, RunEnd
<1>7. ASSUME e > t PROVE FALSE
  <2>1. t \in p .. e /\ t + 1 \in p .. e /\ t < Len(b)
    BY <1>1, <1>6, <1>7
  <2>2. b[t].active = b[p].active /\ b[t + 1].active = b[p].active
    BY <1>6, <2>1
  <2> QED
    BY <1>4, <2>1, <2>2
<1> QED
  BY <1>1, <1>5, <1>6, <1>7

(* The reference, run by run.                                              *)
LEMMA RingtoneRuns ==
    ASSUME NEW b \in Seq(Frames), NEW t \in 1 .. Len(b)
    PROVE  IsRingtone(b, t) <=> RunEndsAt(b, t) /\ Ringing(b, t) /\ HasCycle(b, t)
<1> DEFINE runs == {r \in (1 .. t) \X (1 .. t) : r[1] <= r[2] /\ IsRun(b, r[1], r[2])}
           Allowed(i, j) ==
             IF b[i].active
             THEN /\ MinOnSec * FrameDur(b).den <= RunDur(b, i, j)
                  /\ RunDur(b, i, j) <= MaxOnSec * FrameDur(b).den
             ELSE /\ RunDur(b, i, j) >= MinOffSec * FrameDur(b).den
                  /\ i > 1 => /\ MinOffSec * FrameDur(b).den <= RunDur(b, i, j)
                              /\ RunDur(b, i, j) <= MaxOffSec * FrameDur(b).den
<1>1. Len(b) \in Nat
  BY LenProperties
<1>2. IsRingtone(b, t) <=>
        /\ \E r \in runs : r[2] = t
        /\ \A r \in runs : Allowed(r[1], r[2])
        /\ \E r \in runs, s \in runs : b[r[1]].active /\ s[1] = r[2] + 1
  BY Zenon DEF IsRingtone
<1>3. \A i \in 1 .. t : Allowed(i, EndOf(b, i)) <=> Fits(b, i)
  BY DEF Fits, AtLeast, AtMost, RunDur
<1>4. \A r \in runs : /\ r[1] \in 1 .. t /\ r[2] \in 1 .. t
                      /\ Begins(b, r[1]) /\ r[2] = EndOf(b, r[1])
  <2> TAKE r \in runs
  <2>1. r[1] \in 1 .. Len(b) /\ r[2] \in r[1] .. Len(b) /\ IsRun(b, r[1], r[2])
    BY <1>1
  <2> QED
    BY <2>1, RunsBegin
<1>5. ASSUME NEW i \in 1 .. t, Begins(b, i), EndOf(b, i) \in i .. t
      PROVE  <<i, EndOf(b, i)>> \in runs
  <2>1. i \in 1 .. Len(b) /\ EndOf(b, i) \in i .. Len(b) /\ EndOf(b, i) \in 1 .. t
        /\ i <= EndOf(b, i)
    BY <1>1, <1>5
  <2>2. IsRun(b, i, EndOf(b, i))
    BY <1>5, <2>1, RunsBegin
  <2> QED
    BY <2>1, <2>2
<1> HIDE DEF runs, Allowed
<1>6. ASSUME IsRingtone(b, t)
      PROVE  RunEndsAt(b, t) /\ Ringing(b, t) /\ HasCycle(b, t)
  <2>1. RunEndsAt(b, t)
    BY <1>2, <1>4, <1>6 DEF RunEndsAt
  <2>2. ASSUME NEW i \in 1 .. t, Begins(b, i) PROVE Fits(b, i)
    <3>1. EndOf(b, i) \in i .. t
      BY <2>1, NoRunAcross
    <3>2. <<i, EndOf(b, i)>> \in runs
      BY <1>5, <2>2, <3>1
    <3>3. Allowed(i, EndOf(b, i))
      <4> DEFINE r == <<i, EndOf(b, i)>>
      <4>1. r[1] = i /\ r[2] = EndOf(b, i)
        OBVIOUS
      <4>2. r \in runs
        BY <3>2
      <4> HIDE DEF r
      <4>3. Allowed(r[1], r[2])
        BY <1>2, <1>6, <4>2
      <4> QED
        BY <4>1, <4>3
    <3> QED
      BY <1>3, <3>3
  <2>3. HasCycle(b, t)
    <3>1. PICK r \in runs, s \in runs : b[r[1]].active /\ s[1] = r[2] + 1
      BY <1>2, <1>6
    <3> QED
      BY <1>4, <3>1 DEF HasCycle
  <2> QED
    BY <2>1, <2>2, <2>3 DEF Ringing
<1>7. ASSUME RunEndsAt(b, t), Ringing(b, t), HasCycle(b, t)
      PROVE  IsRingtone(b, t)
  <2>1. \E r \in runs : r[2] = t
    <3>1. PICK i \in 1 .. t : Begins(b, i) /\ EndOf(b, i) = t
      BY <1>7 DEF RunEndsAt
    <3>2. <<i, EndOf(b, i)>> \in runs
      BY <1>5, <1>7, <3>1, NoRunAcross
    <3> QED
      BY <3>1, <3>2
  <2>2. \A r \in runs : Allowed(r[1], r[2])
    <3> TAKE r \in runs
    <3>1. PICK i \in 1 .. t : i = r[1] /\ Begins(b, i) /\ r[2] = EndOf(b, i)
      BY <1>4
    <3>2. Fits(b, i)
      BY <1>7, <3>1 DEF Ringing
    <3> QED
      BY <1>3, <3>1, <3>2
  <2>3. \E r \in runs, s \in runs : b[r[1]].active /\ s[1] = r[2] + 1
    <3>1. PICK i \in 1 .. t : Begins(b, i) /\ b[i].active /\ EndOf(b, i) + 1 \in 1 .. t
      BY <1>7 DEF HasCycle
    <3>2. PICK j : j = EndOf(b, i) + 1
      OBVIOUS
    <3>3. EndOf(b, i) \in i .. t /\ i \in 1 .. Len(b) /\ EndOf(b, i) < Len(b)
      BY <1>1, <1>7, <3>1, NoRunAcross
    <3>4. Begins(b, j) /\ j \in 1 .. t
      BY <3>1, <3>2, <3>3, BehindRun
    <3>5. EndOf(b, j) \in j .. t
      BY <1>7, <3>4, NoRunAcross
    <3>6. <<i, EndOf(b, i)>> \in runs /\ <<j, EndOf(b, j)>> \in runs
      BY <1>5, <3>1, <3>3, <3>4, <3>5
    <3> DEFINE r == <<i, EndOf(b, i)>>
               s == <<j, EndOf(b, j)>>
    <3>7. r[1] = i /\ r[2] = EndOf(b, i) /\ s[1] = j
      OBVIOUS
    <3>8. r \in runs /\ s \in runs
      BY <3>6
    <3> HIDE DEF r, s
    <3> QED
      BY <3>1, <3>2, <3>7, <3>8
  <2> QED
    BY <1>2, <2>1, <2>2, <2>3
<1> QED
  BY <1>6, <1>7

(* One turn of the loop over the cycles.                                   *)
IsCycle(b, i)     == IsBurst(b, i) /\ IsPause(b, EndOf(b, i) + 1)
BehindCycle(b, i) == EndOf(b, EndOf(b, i) + 1) + 1

LEMMA OneCycle ==
    ASSUME NEW b \in Seq(Frames), NEW i \in 1 .. Len(b) + 1, IsCycle(b, i)
    PROVE  /\ i \in 1 .. Len(b) /\ EndOf(b, i) + 1 \in i + 1 .. Len(b)
           /\ BehindCycle(b, i) \in i + 2 .. Len(b) + 1
<1>1. Len(b) \in Nat
  BY LenProperties
<1>2. i \in 1 .. Len(b)
  BY <1>1 DEF IsCycle, IsBurst
<1>3. PICK e : e = EndOf(b, i)
  OBVIOUS
<1>4. e \in i .. Len(b) /\ e + 1 <= Len(b)
  BY <1>2, <1>3, RunEnd DEF IsCycle, IsPause
<1>5. e + 1 \in 1 .. Len(b)
  BY <1>1, <1>2, <1>4
<1>6. EndOf(b, e + 1) \in e + 1 .. Len(b)
  BY <1>5, RunEnd
<1> QED
  BY <1>1, <1>2, <1>3, <1>4, <1>6 DEF BehindCycle

(* g says of every position from m on what is behind the cycles there.     *)
IsCycleTable(b, g, m) ==
    g = [i \in m .. Len(b) + 1 |-> IF IsCycle(b, i) THEN g[BehindCycle(b, i)] ELSE i]

(* The recursive function of AfterCycles exists, so that the loop can be   *)
(* followed cycle by cycle.                                                *)
LEMMA CycleByCycle ==
    ASSUME NEW b \in Seq(Frames)
    PROVE  \A i \in 1 .. Len(b) + 1 :
              AfterCycles(b, i) =
                IF IsCycle(b, i) THEN AfterCycles(b, BehindCycle(b, i)) ELSE i
<1>1. PICK n \in Nat : n = Len(b)
  BY LenProperties
<1> DEFINE G == {k \in Nat : k <= n => \E g : IsCycleTable(b, g, (n + 1) - k)}
<1>2. 0 \in G
  <2> DEFINE g == [i \in n + 1 .. n + 1 |-> i]
  <2>1. \A i \in n + 1 .. n + 1 : ~IsCycle(b, i)
    BY <1>1 DEF IsCycle, IsBurst
  <2>2. g = [i \in n + 1 .. n + 1 |-> IF IsCycle(b, i) THEN g[BehindCycle(b, i)] ELSE i]
    BY <2>1
  <2>3. \E e : IsCycleTable(b, e, n + 1)
    BY <1>1, <2>2 DEF IsCycleTable
  <2>4. (n + 1) - 0 = n + 1
    OBVIOUS
  <2> QED
    BY <2>3, <2>4
<1>3. ASSUME NEW k \in Nat, k \in G PROVE k + 1 \in G
  <2> SUFFICES ASSUME k + 1 <= n PROVE \E g : IsCycleTable(b, g, (n + 1) - (k + 1))
    OBVIOUS
  <2>1. PICK m \in 1 .. n : m = (n + 1) - (k + 1) /\ m + 1 = (n + 1) - k
    OBVIOUS
  <2>2. PICK g : IsCycleTable(b, g, m + 1)
    BY <1>3, <2>1
  <2> DEFINE next == IF IsCycle(b, m) THEN g[BehindCycle(b, m)] ELSE m
             h == [i \in m .. n + 1 |-> IF i = m THEN next ELSE g[i]]
  <2>3. \A i \in m + 1 .. n + 1 : g[i] = IF IsCycle(b, i) THEN g[BehindCycle(b, i)] ELSE i
    BY Zenon, <1>1, <2>2 DEF IsCycleTable
  <2>4. \A i \in m .. n + 1 :
           /\ i # m => i \in m + 1 .. n + 1
           /\ IsCycle(b, i) => BehindCycle(b, i) \in m .. n + 1 /\ BehindCycle(b, i) # m
    <3> TAKE i \in m .. n + 1
    <3>1. i \in 1 .. Len(b) + 1
      BY <1>1
    <3>2. IsCycle(b, i) => BehindCycle(b, i) \in i + 2 .. n + 1
      BY <1>1, <3>1, OneCycle
    <3> QED
      BY <3>2
  <2> HIDE DEF next
  <2>5. \A i \in m .. n + 1 : h[i] = IF IsCycle(b, i) THEN h[BehindCycle(b, i)] ELSE i
    <3> TAKE i \in m .. n + 1
    <3>1. IsCycle(b, i) => h[BehindCycle(b, i)] = g[BehindCycle(b, i)]
      BY <2>4
    <3>2. CASE i = m
      <4>1. h[i] = next
        BY <3>2
      <4> QED
        BY Zenon, <3>1, <3>2, <4>1 DEF next
    <3>3. CASE i # m
      <4>1. h[i] = g[i] /\ i \in m + 1 .. n + 1
        BY <2>4, <3>3
      <4> QED
        BY Zenon, <2>3, <3>1, <4>1
    <3> QED
      BY <3>2, <3>3
  <2>6. h = [i \in m .. n + 1 |-> IF IsCycle(b, i) THEN h[BehindCycle(b, i)] ELSE i]
    BY Zenon, <2>5
  <2>7. \E e : IsCycleTable(b, e, m)
    BY Zenon, <1>1, <2>6 DEF IsCycleTable
  <2> QED
    BY <2>1, <2>7
<1>4. \E g : IsCycleTable(b, g, 1)
  <2> HIDE DEF G
  <2>1. n \in G
    BY <1>2, <1>3, NumberInduction
  <2>2. (n + 1) - n = 1 /\ n <= n
    OBVIOUS
  <2> QED
    BY <2>1, <2>2 DEF G
<1> DEFINE f == CHOOSE g : IsCycleTable(b, g, 1)
<1>5. \A i : AfterCycles(b, i) = f[i]
  BY Zenon DEF AfterCycles, IsCycleTable, IsCycle, BehindCycle
<1>6. IsCycleTable(b, f, 1)
  BY Zenon, <1>4
<1> HIDE DEF f
<1>7. \A i \in 1 .. Len(b) + 1 : f[i] = IF IsCycle(b, i) THEN f[BehindCycle(b, i)] ELSE i
  BY Zenon, <1>6 DEF IsCycleTable
<1> TAKE i \in 1 .. Len(b) + 1
<1>8. AfterCycles(b, i) = f[i] /\ AfterCycles(b, BehindCycle(b, i)) = f[BehindCycle(b, i)]
  BY <1>5
<1>9. f[i] = IF IsCycle(b, i) THEN f[BehindCycle(b, i)] ELSE i
  BY <1>7
<1> QED
  BY Zenon, <1>8, <1>9

(* All that the search has found when it stands at r, having begun at s.   *)
Searched(b, s, r) ==
    /\ r \in s .. Len(b) + 1
    /\ r <= Len(b) => Begins(b, r)
    /\ Ringing(b, r - 1)
    /\ r # s => PauseEndsAt(b, r - 1) /\ HasCycle(b, r - 1)

(* One more cycle.                                                         *)
LEMMA CycleRings ==
    ASSUME NEW b \in Seq(Frames), NEW i \in 1 .. Len(b) + 1, IsCycle(b, i),
           i <= Len(b) => Begins(b, i), Ringing(b, i - 1)
    PROVE  LET r == BehindCycle(b, i) IN
             /\ Searched(b, i, r) /\ r # i
<1>1. PICK n \in Nat : n = Len(b)
  BY LenProperties
<1>2. PICK e : e = EndOf(b, i)
  OBVIOUS
<1>3. PICK r : r = BehindCycle(b, i)
  OBVIOUS
<1>4. /\ i \in 1 .. n /\ e \in i .. n - 1 /\ e + 1 \in 1 .. n
      /\ r \in e + 2 .. n + 1 /\ r - 1 = EndOf(b, e + 1) /\ r \in i + 2 .. n + 1
  <2>1. i \in 1 .. n /\ e + 1 \in i + 1 .. n
    BY <1>1, <1>2, OneCycle
  <2>2. e \in i .. n /\ e \in Int
    BY <1>1, <1>2, <2>1, RunEnd
  <2>3. PICK q : q = EndOf(b, e + 1)
    OBVIOUS
  <2>4. q \in e + 1 .. n
    BY <1>1, <2>1, <2>2, <2>3, RunEnd
  <2>5. r = q + 1
    BY <1>2, <1>3, <2>3 DEF BehindCycle
  <2> QED
    BY <2>1, <2>2, <2>3, <2>4, <2>5
<1>5. Begins(b, i) /\ Begins(b, e + 1) /\ b[i].active /\ ~b[e + 1].active
  BY <1>1, <1>2, <1>4, BehindRun DEF IsCycle, IsBurst, IsPause
<1>6. Fits(b, i) /\ Fits(b, e + 1)
  BY <1>2, <1>5 DEF Fits, IsCycle, IsBurst, IsPause
<1>7. Ringing(b, r - 1)
  <2> SUFFICES ASSUME NEW p \in 1 .. r - 1, Begins(b, p) PROVE Fits(b, p)
    BY DEF Ringing
  <2>1. CASE p <= i - 1
    BY <1>4, <2>1 DEF Ringing
  <2>2. CASE p \in i .. e
    BY <1>1, <1>2, <1>4, <1>6, <2>2, BehindRun
  <2>3. CASE p \in e + 1 .. r - 1
    BY <1>1, <1>4, <1>6, <2>3, BehindRun
  <2> QED
    BY <1>4, <2>1, <2>2, <2>3
<1>8. r <= n => Begins(b, r)
  <2> SUFFICES ASSUME r <= n PROVE Begins(b, r)
    OBVIOUS
  <2>1. PICK q : q = EndOf(b, e + 1)
    OBVIOUS
  <2>2. q < n /\ q + 1 = r
    BY <1>4, <2>1
  <2> QED
    BY <1>1, <1>4, <2>1, <2>2, BehindRun
<1>9. PauseEndsAt(b, r - 1)
  <2>1. e + 1 \in 1 .. r - 1
    BY <1>4
  <2> QED
    BY <1>4, <1>5, <2>1 DEF PauseEndsAt
<1>10. HasCycle(b, r - 1)
  <2>1. i \in 1 .. r - 1 /\ e + 1 \in 1 .. r - 1
    BY <1>4
  <2> QED
    BY <1>2, <1>5, <2>1 DEF HasCycle
<1>11. r \in i .. n + 1 /\ r # i
  BY <1>4
<1> QED
  BY <1>1, <1>3, <1>7, <1>8, <1>9, <1>10, <1>11 DEF Searched

(* The search goes over ringing only, and stops where no cycle begins.     *)
LEMMA CyclesRing ==
    ASSUME NEW b \in Seq(Frames), NEW s \in 1 .. Len(b) + 1,
           s <= Len(b) => Begins(b, s), Ringing(b, s - 1)
    PROVE  Searched(b, s, AfterCycles(b, s)) /\ ~IsCycle(b, AfterCycles(b, s))
<1>1. PICK n \in Nat : n = Len(b)
  BY LenProperties
<1> DEFINE Starts(i) == (i <= n => Begins(b, i)) /\ Ringing(b, i - 1)
           Ends(i)   == Searched(b, i, AfterCycles(b, i)) /\ ~IsCycle(b, AfterCycles(b, i))
           G == {k \in Nat : \A i \in (n + 1) - k .. n + 1 :
                    i >= 1 /\ Starts(i) => Ends(i)}
<1>2. ASSUME NEW i \in 1 .. n + 1, Starts(i), ~IsCycle(b, i) PROVE Ends(i)
  <2>1. AfterCycles(b, i) = i
    BY <1>1, <1>2, CycleByCycle
  <2>2. i \in i .. n + 1
    OBVIOUS
  <2> QED
    BY <1>1, <1>2, <2>1, <2>2 DEF Searched
<1>3. ASSUME NEW i \in 1 .. n + 1, Starts(i), IsCycle(b, i), NEW r, r = BehindCycle(b, i),
             Ends(r)
      PROVE  Ends(i)
  <2>1. PICK a : a = AfterCycles(b, r)
    OBVIOUS
  <2>2. AfterCycles(b, i) = a
    BY <1>1, <1>3, <2>1, CycleByCycle
  <2>3. Searched(b, i, r) /\ r # i /\ r \in i .. n + 1
    BY <1>1, <1>3, CycleRings DEF Searched
  <2>4. Searched(b, r, a) /\ ~IsCycle(b, a)
    BY <1>3, <2>1
  <2>5. a \in i .. n + 1
    BY <1>1, <2>3, <2>4 DEF Searched
  <2>6. PauseEndsAt(b, a - 1) /\ HasCycle(b, a - 1)
    <3>1. CASE a = r
      BY <2>3, <3>1 DEF Searched
    <3>2. CASE a # r
      BY <2>4, <3>2 DEF Searched
    <3> QED
      BY <3>1, <3>2
  <2>7. Searched(b, i, a)
    BY <1>1, <2>4, <2>5, <2>6 DEF Searched
  <2> QED
    BY <2>2, <2>4, <2>7
<1>4. ASSUME NEW i \in 1 .. n + 1, Starts(i), IsCycle(b, i)
      PROVE  BehindCycle(b, i) \in i + 2 .. n + 1 /\ Starts(BehindCycle(b, i))
  <2>1. Searched(b, i, BehindCycle(b, i)) /\ BehindCycle(b, i) \in i + 2 .. n + 1
    BY <1>1, <1>4, CycleRings, OneCycle
  <2> QED
    BY <1>1, <2>1 DEF Searched
<1> HIDE DEF Starts, Ends
<1>5. 0 \in G
  <2>1. ASSUME NEW i \in (n + 1) - 0 .. n + 1, i >= 1, Starts(i) PROVE Ends(i)
    <3>1. i = n + 1 /\ i \in 1 .. n + 1
      OBVIOUS
    <3>2. ~IsCycle(b, i)
      BY <1>1, <3>1 DEF IsCycle, IsBurst
    <3> QED
      BY <1>2, <2>1, <3>1, <3>2
  <2> QED
    BY <2>1
<1>6. ASSUME NEW k \in Nat, k \in G PROVE k + 1 \in G
  <2>1. ASSUME NEW i \in (n + 1) - (k + 1) .. n + 1, i >= 1, Starts(i) PROVE Ends(i)
    <3>1. i \in 1 .. n + 1
      BY <2>1
    <3>2. CASE ~IsCycle(b, i)
      BY <1>2, <2>1, <3>1, <3>2
    <3>3. CASE IsCycle(b, i)
      <4>1. PICK r : r = BehindCycle(b, i)
        OBVIOUS
      <4>2. r \in i + 2 .. n + 1 /\ Starts(r)
        BY <1>4, <2>1, <3>1, <3>3, <4>1
      <4>3. r \in (n + 1) - k .. n + 1 /\ r >= 1
        BY <3>1, <4>2
      <4>4. Ends(r)
        BY <1>6, <4>2, <4>3
      <4> QED
        BY <1>3, <2>1, <3>1, <3>3, <4>1, <4>4
    <3> QED
      BY <3>2, <3>3
  <2> QED
    BY <2>1
<1>7. n + 1 \in G
  <2> HIDE DEF G
  <2>1. \A k \in Nat : k \in G
    BY <1>5, <1>6, NumberInduction
  <2> QED
    BY <2>1
<1>8. s \in (n + 1) - (n + 1) .. n + 1 /\ s >= 1
  BY <1>1
<1>9. Starts(s)
  BY <1>1 DEF Starts
<1> QED
  BY <1>7, <1>8, <1>9 DEF Ends

(* Where the search begins: behind a leading pause, if there is one.       *)
StartOf(b) == IF ~b[1].active /\ AtLeast(b, 1, MinOffSec) THEN EndOf(b, 1) + 1 ELSE 1

(* The search begins at a run, behind ringing.                             *)
LEMMA StartRings ==
    ASSUME NEW b \in Seq(Frames), 1 <= Len(b)
    PROVE  /\ StartOf(b) \in 1 .. Len(b) + 1
           /\ StartOf(b) <= Len(b) => Begins(b, StartOf(b))
           /\ Ringing(b, StartOf(b) - 1)
<1>1. Len(b) \in Nat /\ 1 \in 1 .. Len(b)
  BY LenProperties
<1>2. CASE ~b[1].active /\ AtLeast(b, 1, MinOffSec)
  <2>1. PICK e : e = EndOf(b, 1)
    OBVIOUS
  <2>2. e \in 1 .. Len(b) /\ StartOf(b) = e + 1 /\ (e + 1) - 1 = e
    BY <1>1, <1>2, <2>1, RunEnd DEF StartOf
  <2>3. e < Len(b) => Begins(b, e + 1)
    BY <1>1, <2>1, BehindRun
  <2>4. \A p \in 1 .. e : Begins(b, p) => p = 1
    BY <1>1, <2>1, BehindRun
  <2>5. Fits(b, 1)
    BY <1>2 DEF Fits
  <2>6. Ringing(b, e)
    BY <2>4, <2>5 DEF Ringing
  <2> QED
    BY <1>1, <2>2, <2>3, <2>6
<1>3. CASE ~(~b[1].active /\ AtLeast(b, 1, MinOffSec))
  <2>1. StartOf(b) = 1
    BY <1>3 DEF StartOf
  <2> QED
    BY <1>1, <2>1 DEF Begins, Ringing
<1> QED
  BY <1>2, <1>3

(* Whatever is a ringtone has a cycle where the search begins.             *)
LEMMA RingtoneStarts ==
    ASSUME NEW b \in Seq(Frames), NEW t \in 1 .. Len(b), IsRingtone(b, t)
    PROVE  IsCycle(b, StartOf(b))
<1>1. PICK n \in Nat : n = Len(b) /\ t \in 1 .. n
  BY LenProperties
<1>2. RunEndsAt(b, t) /\ Ringing(b, t) /\ HasCycle(b, t)
  BY RingtoneRuns
<1>3. PICK p \in 1 .. t : Begins(b, p) /\ b[p].active /\ EndOf(b, p) + 1 \in 1 .. t
  BY <1>2 DEF HasCycle
<1>4. PICK s : s = StartOf(b)
  OBVIOUS
<1>5. s \in 1 .. n + 1 /\ (s <= n => Begins(b, s)) /\ 1 \in 1 .. n /\ 1 \in 1 .. t
  BY <1>1, <1>4, StartRings
<1>6. s \in 1 .. p /\ b[s].active
  <2>1. CASE b[1].active
    BY <1>4, <2>1 DEF StartOf
  <2>2. CASE ~b[1].active
    <3>1. Begins(b, 1) /\ Fits(b, 1)
      BY <1>1, <1>2, <1>5 DEF Begins, Ringing
    <3>2. PICK e : e = EndOf(b, 1)
      OBVIOUS
    <3>3. s = e + 1
      BY <1>4, <2>2, <3>1, <3>2 DEF Fits, StartOf
    <3>4. ~(p \in 1 .. e)
      <4>1. p \in 1 .. e => p = 1
        BY <1>1, <1>3, <1>5, <3>2, BehindRun
      <4> QED
        BY <1>3, <2>2, <4>1
    <3>5. e \in 1 .. n
      BY <1>1, <1>5, <3>2, RunEnd
    <3>6. e < n /\ s \in 1 .. p
      BY <1>1, <3>3, <3>4, <3>5
    <3>7. b[s].active # b[1].active
      BY <1>1, <1>5, <3>2, <3>3, <3>6, BehindRun
    <3>8. b[s] \in Frames /\ b[1] \in Frames
      BY <1>1, <1>5, <3>3, <3>5, <3>6, ElementOfSeq
    <3> QED
      BY <2>2, <3>6, <3>7, <3>8 DEF Frames
  <2> QED
    BY <2>1, <2>2
<1>7. PICK e : e = EndOf(b, s)
  OBVIOUS
<1>8. s \in 1 .. t /\ s \in 1 .. n /\ e \in s .. n
  <2>1. s \in 1 .. t /\ s \in 1 .. Len(b)
    BY <1>1, <1>6
  <2> QED
    BY <1>1, <1>7, <2>1, RunEnd
<1>9. e + 1 \in 1 .. t
  <2>1. CASE p = s
    BY <1>3, <1>7, <2>1
  <2>2. CASE p # s
    <3>1. ~(p \in s .. e)
      BY <1>1, <1>3, <1>7, <1>8, <2>2, BehindRun
    <3> QED
      BY <1>1, <1>6, <1>8, <3>1
  <2> QED
    BY <2>1, <2>2
<1>10. Begins(b, e + 1) /\ ~b[e + 1].active
  <2>1. e < n
    BY <1>1, <1>8, <1>9
  <2>2. Begins(b, e + 1) /\ b[e + 1].active # b[s].active
    BY <1>1, <1>7, <1>8, <2>1, BehindRun
  <2>3. b[e + 1] \in Frames /\ b[s] \in Frames
    BY <1>1, <1>8, <1>9, <2>1, ElementOfSeq
  <2> QED
    BY <1>6, <2>2, <2>3 DEF Frames
<1>11. Fits(b, s) /\ Fits(b, e + 1)
  BY <1>1, <1>2, <1>5, <1>8, <1>9, <1>10 DEF Ringing
<1>12. s <= Len(b) /\ e + 1 <= Len(b) /\ e + 1 > 1
  BY <1>1, <1>8, <1>9
<1> QED
  BY <1>4, <1>6, <1>7, <1>10, <1>11, <1>12 DEF IsCycle, IsBurst, IsPause, Fits

(* Where findRingEnd cuts, if that is inside the buffer.                   *)
CutOf(b) ==
    LET rest == AfterCycles(b, StartOf(b))
    IN  IF rest = StartOf(b) THEN 0
        ELSE IF IsBurst(b, rest) THEN EndOf(b, rest) ELSE rest - 1

(* Everything up to there is a ringtone, and nothing longer is.            *)
LEMMA CutIsLongest ==
    ASSUME NEW b \in Seq(Frames), 1 <= Len(b)
    PROVE  /\ CutOf(b) \in 0 .. Len(b)
           /\ CutOf(b) # 0 => IsRingtone(b, CutOf(b))
           /\ \A t \in CutOf(b) + 1 .. Len(b) : ~IsRingtone(b, t)
<1>1. PICK n \in Nat : n = Len(b)
  BY LenProperties
<1>2. PICK s, r, c : s = StartOf(b) /\ r = AfterCycles(b, s) /\ c = CutOf(b)
  OBVIOUS
<1>3. s \in 1 .. n + 1 /\ Searched(b, s, r) /\ ~IsCycle(b, r)
  BY <1>1, <1>2, StartRings, CyclesRing
<1>4. r \in s .. n + 1 /\ (r <= n => Begins(b, r)) /\ Ringing(b, r - 1)
  BY <1>1, <1>3 DEF Searched
<1>5. CASE r = s
  <2>1. c = 0
    BY <1>2, <1>5 DEF CutOf
  <2>2. \A t \in 1 .. n : ~IsRingtone(b, t)
    BY <1>1, <1>2, <1>3, <1>5, RingtoneStarts
  <2>3. 0 \in 0 .. n /\ 0 + 1 = 1
    OBVIOUS
  <2> QED
    BY <1>1, <1>2, <2>1, <2>2, <2>3
<1>6. CASE r # s
  <2>1. PauseEndsAt(b, r - 1) /\ HasCycle(b, r - 1) /\ r - 1 \in 1 .. n
    BY <1>3, <1>4, <1>6 DEF Searched
  <2>2. CASE IsBurst(b, r)
    <3>1. c = EndOf(b, r)
      BY <1>2, <1>6, <2>2 DEF CutOf
    <3>2. r \in 1 .. n /\ b[r].active /\ Begins(b, r) /\ Fits(b, r)
      BY <1>1, <1>3, <1>4, <2>2 DEF IsBurst, Fits
    <3>3. c \in r .. n /\ c \in 1 .. n
      BY <1>1, <3>1, <3>2, RunEnd
    <3>4. RunEndsAt(b, c)
      BY <3>1, <3>2, <3>3 DEF RunEndsAt
    <3>5. Ringing(b, c)
      <4> SUFFICES ASSUME NEW p \in 1 .. c, Begins(b, p) PROVE Fits(b, p)
        BY DEF Ringing
      <4>1. CASE p \in 1 .. r - 1
        BY <1>4, <4>1 DEF Ringing
      <4>2. CASE p \in r .. c
        BY <1>1, <3>1, <3>2, <4>2, BehindRun
      <4> QED
        BY <3>2, <3>3, <4>1, <4>2
    <3>6. HasCycle(b, c)
      <4>1. PICK p \in 1 .. r - 1 :
              Begins(b, p) /\ b[p].active /\ EndOf(b, p) + 1 \in 1 .. r - 1
        BY <2>1 DEF HasCycle
      <4>2. p \in 1 .. c /\ EndOf(b, p) + 1 \in 1 .. c
        BY <2>1, <3>2, <3>3, <4>1
      <4> QED
        BY <4>1, <4>2 DEF HasCycle
    <3>7. IsRingtone(b, c)
      BY <1>1, <3>3, <3>4, <3>5, <3>6, RingtoneRuns
    <3>8. ASSUME NEW t \in c + 1 .. n, IsRingtone(b, t) PROVE FALSE
      <4>1. t \in 1 .. n /\ c + 1 \in 1 .. t /\ c < n /\ c + 1 > 1 /\ c + 1 <= n
        BY <3>3
      <4>2. Begins(b, c + 1) /\ b[c + 1].active # b[r].active
        BY <1>1, <3>1, <3>2, <4>1, BehindRun
      <4>3. b[c + 1] \in Frames /\ b[r] \in Frames
        BY <1>1, <3>2, <4>1, ElementOfSeq
      <4>4. ~b[c + 1].active
        BY <3>2, <4>2, <4>3 DEF Frames
      <4>5. Fits(b, c + 1)
        BY <1>1, <3>8, <4>1, <4>2, RingtoneRuns DEF Ringing
      <4>6. IsPause(b, c + 1)
        BY <1>1, <4>1, <4>4, <4>5 DEF IsPause, Fits
      <4> QED
        BY <1>3, <2>2, <3>1, <4>6 DEF IsCycle
    <3> QED
      BY <1>1, <1>2, <3>3, <3>7, <3>8
  <2>3. CASE ~IsBurst(b, r)
    <3>1. c = r - 1 /\ c \in 1 .. n /\ c + 1 = r
      BY <1>2, <1>4, <1>6, <2>1, <2>3 DEF CutOf
    <3>2. IsRingtone(b, c)
      <4>1. RunEndsAt(b, c)
        BY <2>1, <3>1 DEF PauseEndsAt, RunEndsAt
      <4> QED
        BY <1>1, <1>4, <2>1, <3>1, <4>1, RingtoneRuns
    <3>3. ASSUME NEW t \in r .. n, IsRingtone(b, t) PROVE FALSE
      <4>1. t \in 1 .. n /\ r \in 1 .. t /\ r <= n /\ r \in 1 .. n /\ r - 1 < n
        BY <1>3, <1>4, <2>1, <3>3
      <4>2. PICK q \in 1 .. r - 1 : Begins(b, q) /\ ~b[q].active /\ EndOf(b, q) = r - 1
        BY <2>1 DEF PauseEndsAt
      <4>3. q \in 1 .. n
        BY <2>1
      <4>4. b[r].active # b[q].active
        BY <1>1, <3>1, <4>1, <4>2, <4>3, BehindRun
      <4>5. b[r] \in Frames /\ b[q] \in Frames
        BY <1>1, <4>1, <4>3, ElementOfSeq
      <4>6. b[r].active
        BY <4>2, <4>4, <4>5 DEF Frames
      <4>7. Fits(b, r)
        BY <1>1, <1>4, <3>3, <4>1, RingtoneRuns DEF Ringing
      <4> QED
        BY <1>1, <2>3, <4>1, <4>6, <4>7 DEF IsBurst, Fits
    <3> QED
      BY <1>1, <1>2, <3>1, <3>2, <3>3
  <2> QED
    BY <2>2, <2>3
<1> QED
  BY <1>5, <1>6

(* The loop of findRingEnd finds the longest ringtone of any buffer, and   *)
(* gives it up if it is all of the buffer.                                 *)
LEMMA RingEndIsLongest ==
    ASSUME NEW b \in Seq(Frames)
    PROVE  \E c \in 0 .. Len(b) :
             /\ c # 0 /\ Len(b) >= 5 => IsRingtone(b, c)
             /\ Len(b) >= 5 => \A t \in c + 1 .. Len(b) : ~IsRingtone(b, t)
             /\ findRingEnd(b) = IF Len(b) < 5 \/ c = Len(b) THEN 0 ELSE c
<1>1. PICK n \in Nat : n = Len(b)
  BY LenProperties
<1>2. PICK c : c = CutOf(b)
  OBVIOUS
<1>3. findRingEnd(b) = IF n >= 5 /\ c \in 1 .. n - 1 THEN c ELSE 0
  BY Zenon, <1>1, <1>2 DEF findRingEnd, CutOf, StartOf
<1>4. CASE n < 5
  BY <1>1, <1>3, <1>4
<1>5. CASE n >= 5
  <2>1. /\ c \in 0 .. n
        /\ c # 0 => IsRingtone(b, c)
        /\ \A t \in c + 1 .. n : ~IsRingtone(b, t)
    BY <1>1, <1>2, <1>5, CutIsLongest
  <2>2. findRingEnd(b) = IF n < 5 \/ c = n THEN 0 ELSE c
    BY <1>3, <1>5, <2>1
  <2> QED
    BY <1>1, <1>5, <2>1, <2>2
<1> QED
  BY <1>1, <1>4, <1>5

(* Where nothing longer rings, the longest ringtone is that of the cycles. *)
LEMMA CyclesAreTrimmed ==
    ASSUME NEW b \in Seq(Frames)
    PROVE  /\ findRingEnd(b) = 0 \/ IsRingtone(b, findRingEnd(b))
           /\ Len(b) >= 5 /\ RingCycles(b) < Len(b) /\ ~BurstBehindCycles(b)
                => findRingEnd(b) = RingCycles(b)
<1>1. PICK n \in Nat : n = Len(b)
  BY LenProperties
<1>2. PICK c \in 0 .. n :
        /\ c # 0 /\ n >= 5 => IsRingtone(b, c)
        /\ n >= 5 => \A t \in c + 1 .. n : ~IsRingtone(b, t)
        /\ findRingEnd(b) = IF n < 5 \/ c = n THEN 0 ELSE c
  BY <1>1, RingEndIsLongest
<1>3. ASSUME n >= 5, RingCycles(b) < n, ~BurstBehindCycles(b)
      PROVE  findRingEnd(b) = RingCycles(b)
  <2> DEFINE S == {0} \cup {t \in 1 .. n : IsRingtone(b, t) /\ ~b[t].active}
  <2>1. PICK r : r = RingCycles(b)
    OBVIOUS
  <2>2. r \in S
    <3>1. S \in SUBSET (0 .. n) /\ S \in SUBSET Nat /\ S # {}
      OBVIOUS
    <3>2. r = Max(S)
      BY Zenon, <1>1, <2>1 DEF RingCycles
    <3> HIDE DEF S
    <3>3. PICK g \in S : \A k \in S : g >= k
      BY <3>1, GreatestElement
    <3> QED
      BY <3>1, <3>2, <3>3, MaxIsGreatest
  <2>3. r \in 0 .. n /\ (r # 0 => IsRingtone(b, r))
    BY <2>2
  <2>4. \A t \in r + 1 .. n : ~IsRingtone(b, t)
    BY <1>1, <1>3, <2>1 DEF BurstBehindCycles
  <2>5. c = r
    <3>1. ~(c > r)
      BY <1>2, <1>3, <2>3, <2>4
    <3>2. ~(c < r)
      BY <1>2, <1>3, <2>3
    <3> QED
      BY <2>3, <3>1, <3>2
  <2> QED
    BY <1>2, <1>3, <2>1, <2>5
<1> QED
  BY <1>1, <1>2, <1>3

(* Whenever the detector decides, it trims ringing and nothing else, and   *)
(* exactly the ring cycles where other audio follows them, for every       *)
(* cadence, cap, frame spacing and stream.                                 *)
THEOREM RingCyclesAreTrimmed == Spec => []CyclesTrimmed
<1>1. RingInv => CyclesTrimmed
  BY CyclesAreTrimmed DEF RingInv, TypeOK, CyclesTrimmed
<1> QED
  BY <1>1, RingInvariant, PTL

=============================================================================
