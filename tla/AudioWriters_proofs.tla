------------------------ MODULE AudioWriters_proofs ------------------------
(***************************************************************************)
(* Proofs about AudioWriters, for every width of the timestamp, every cap, *)
(* every G.729 frame and every stream.                                     *)
(***************************************************************************)
EXTENDS AudioWriters, Arithmetic, TLAPS

(* What the writers remember of the audio they took is true.               *)
Remembered ==
    /\ writer \in {"unopened", "none"} => /\ sent = << >> /\ frames = << >>
                                         /\ size = 0 /\ ~haveLast
    /\ writer = "PCM" =>
          /\ haveLast <=> sent # << >>
          /\ sent # << >> => /\ lastRTPTS = sent[Len(sent)].at % T
                             /\ lastSamples = sent[Len(sent)].ticks
    /\ IsFfmpeg(writer) =>
          /\ rate = 1 /\ Len(frames) = Len(sent)
          /\ \A i \in 1 .. Len(sent) :
                /\ frames[i].rtpTS = sent[i].at % T
                /\ PayloadTime(frames[i].len) = sent[i].ticks
    /\ done > 0 => IsFfmpeg(writer)

(* A size is patched into the header last, and only after a flush.         *)
HeaderLast ==
    /\ ~closed => header \in {"absent", "zero"}
    /\ header \in {"data", "sized"} =>
          ~broken /\ (IsFfmpeg(writer) => done = Len(frames) /\ segment = 0)
    /\ done > 0 => header # "absent"

(* The length of the segment still to be decoded, and what goes wrong.     *)
Collected == PayloadTime(segment)
Mishaps   == {"refused", "cut", "misaligned"}

(* The file, and of a FfmpegWriter the segment still to be decoded, reach  *)
(* as far as the audio that was taken, if nothing has gone wrong.          *)
WavTimeline ==
    writer = "PCM" /\ ~broken /\ Believable =>
        \A i \in 1 .. Len(sent) : size >= End(i) - sent[1].at

FfmpegTimeline ==
    done > 0 /\ ~broken /\ Believable /\ mishaps = {} =>
        \A i \in 1 .. done :
            size + Ratio * Collected >= Ratio * (End(i) - sent[1].at)

AudioInv == TypeOK /\ Remembered /\ HeaderLast /\ WavTimeline /\ FfmpegTimeline

-----------------------------------------------------------------------------
(* The operators.                                                          *)

(* The elements of a sequence.                                             *)
LEMMA ElementOfSeq ==
  ASSUME NEW S, NEW q \in Seq(S), NEW i \in 1 .. Len(q)
  PROVE  q[i] \in S
OBVIOUS

(* The difference of two timestamps is the time between the packets, if    *)
(* that is no more than half a turn.                                       *)
LEMMA SignedIsTrue ==
  ASSUME NEW a \in Int, NEW b \in Int, b - a \in -Half .. Half - 1
  PROVE  Signed((b % T) - (a % T)) = b - a
<1>1. T \in Nat \ {0} /\ Half \in Nat /\ T = 2 * Half
  BY AudioAssumption
<1> HIDE DEF T, Half
<1>2. ((b % T) - (a % T)) % T = (b - a) % T
  BY <1>1, ModDifference
<1>3. b - a \in Int /\ b - a < T /\ b - a >= -T
  BY <1>1
<1>4. (b - a) % T = IF b - a >= 0 THEN b - a ELSE (b - a) + T
  BY <1>1, <1>3, ModOneTurn
<1>5. QED
  BY <1>1, <1>2, <1>4 DEF Signed

(* Signed is an integer, and timestamps are timestamps.                    *)
LEMMA SignedInt ==
  ASSUME NEW a \in Int
  PROVE  a % T \in 0 .. T - 1 /\ Signed(a) \in Int
<1>1. T \in Nat \ {0} /\ Half \in Nat
  BY AudioAssumption
<1> HIDE DEF T, Half
<1>2. a % T \in 0 .. T - 1
  BY <1>1, DivMod
<1>3. QED
  BY <1>1, <1>2 DEF Signed

(* Silence fills a gap up to the cap.                                      *)
LEMMA SilenceFills ==
  ASSUME NEW gap \in Int, NEW cap \in Nat
  PROVE  /\ Silence(gap, cap) \in Nat
         /\ gap <= cap => Silence(gap, cap) >= gap
BY DEF Silence

(* A payload has a length.                                                 *)
LEMMA PayloadNat ==
  ASSUME NEW n \in Nat
  PROVE  PayloadTime(n) \in Nat
<1>1. FrameBytes \in Nat \ {0} /\ FrameTicks \in Nat
  BY AudioAssumption
<1>2. (n + FrameBytes - 1) \div FrameBytes \in Nat
  BY <1>1
<1>3. \A q \in Nat : q * FrameTicks \in Nat
  BY <1>1
<1>4. QED
  BY <1>2, <1>3 DEF PayloadTime

(* payloadTicks, which counts whole frames and then one for the rest,      *)
(* gives the true length of the payloads of ffmpeg.                        *)
LEMMA TicksAreTrue ==
  ASSUME NEW n \in Nat, IsFfmpeg(writer)
  PROVE  payloadTicks(n) = PayloadTime(n)
<1>1. CASE writer = "G722"
  BY <1>1 DEF payloadTicks, PayloadTime
<1>2. CASE writer = "G729"
  <2> DEFINE F == FrameBytes
             q == n \div F
             r == n % F
  <2>1. F \in Nat \ {0} /\ FrameTicks \in Nat
    BY AudioAssumption
  <2>2. q \in Int /\ r \in 0 .. F - 1 /\ n = F * q + r
    <3> HIDE DEF F
    <3>1. QED
      BY <2>1, DivMod
  <2>3. CASE r = 0
    <3>1. (n + F - 1) \div F = q
      <4> HIDE DEF F, q, r
      <4>1. n + F - 1 = F * q + (F - 1)
        BY <2>1, <2>2, <2>3
      <4>2. (F * q + (F - 1)) \div F = q
        BY <2>1, <2>2
      <4>3. QED
        BY <4>1, <4>2
    <3>2. QED
      BY <1>2, <2>3, <3>1 DEF payloadTicks, PayloadTime
  <2>4. CASE r # 0
    <3>1. (n + F - 1) \div F = q + 1
      <4> HIDE DEF F, q, r
      <4>1. n + F - 1 = F * (q + 1) + (r - 1)
        <5>1. F * (q + 1) = F * q + F
          BY <2>1, <2>2
        <5>2. F * q \in Int
          BY <2>1, <2>2
        <5>3. QED
          BY <2>1, <2>2, <5>1, <5>2
      <4>2. r - 1 \in 0 .. F - 1 /\ q + 1 \in Int
        BY <2>1, <2>2, <2>4
      <4>3. (F * (q + 1) + (r - 1)) \div F = q + 1
        BY <2>1, <4>2
      <4>4. QED
        BY <4>1, <4>3
    <3>2. (q + 1) * FrameTicks = q * FrameTicks + FrameTicks
      <4> HIDE DEF q
      <4>1. QED
        BY <2>1, <2>2
    <3>3. QED
      BY <1>2, <2>4, <3>1, <3>2 DEF payloadTicks, PayloadTime
  <2>5. QED
    BY <2>3, <2>4
<1>3. QED
  BY <1>1, <1>2 DEF IsFfmpeg

(* The whole frames of a payload, or of several, are no longer than it.    *)
LEMMA WholeFrames ==
  ASSUME NEW n \in Nat, writer = "G729"
  PROVE  /\ (n \div FrameBytes) * FrameTicks \in Nat
         /\ (n \div FrameBytes) * FrameTicks <= PayloadTime(n)
<1> DEFINE w == (n \div FrameBytes) * FrameTicks
<1>1. FrameBytes \in Nat \ {0} /\ FrameTicks \in Nat
  BY AudioAssumption
<1>2. n \div FrameBytes \in Nat
  BY <1>1
<1>3. w \in Nat
  <2>1. \A q \in Nat : q * FrameTicks \in Nat
    BY <1>1
  <2> QED
    BY <1>2, <2>1
<1>4. PayloadTime(n) = w \/ PayloadTime(n) = w + FrameTicks
  BY TicksAreTrue DEF payloadTicks, IsFfmpeg
<1> HIDE DEF w
<1>5. w <= PayloadTime(n)
  BY <1>1, <1>3, <1>4
<1> QED
  BY <1>3, <1>5 DEF w

(* How many frames: n bytes are x frames but for r bytes of the last one.  *)
LEMMA FramesOf ==
  ASSUME NEW F \in Nat \ {0}, NEW n \in Int
  PROVE  \E x \in Int, r \in 0 .. F - 1 :
            /\ n + F - 1 = F * x + r /\ (n + F - 1) \div F = x
            /\ n % F = 0 => r = F - 1
<1> DEFINE m == n + F - 1
<1>1. PICK x \in Int, r \in 0 .. F - 1 : m = F * x + r /\ m \div F = x
  <2>1. m \in Int
    OBVIOUS
  <2> HIDE DEF m
  <2> QED
    BY <2>1, DivMod
<1>2. ASSUME n % F = 0 PROVE r = F - 1
  <2>1. PICK q \in Int : n = F * q + 0
    BY <1>2, DivMod
  <2>2. m = F * q + (F - 1)
    BY <2>1
  <2>3. F - 1 \in 0 .. F - 1
    OBVIOUS
  <2> HIDE DEF m
  <2>4. m % F = F - 1
    BY <2>2, <2>3, ModUnique
  <2>5. m % F = r
    BY <1>1, ModUnique
  <2> QED
    BY <2>4, <2>5
<1> QED
  BY <1>1, <1>2

(* Payloads that are decoded as one are no longer than apart, and as long  *)
(* if the first does not end with a short frame.                           *)
LEMMA PayloadsJoined ==
  ASSUME NEW a \in Nat, NEW b \in Nat
  PROVE  /\ PayloadTime(a + b) <= PayloadTime(a) + PayloadTime(b)
         /\ ~IsShort(a) => PayloadTime(a + b) = PayloadTime(a) + PayloadTime(b)
<1>1. CASE writer # "G729"
  <2>1. /\ PayloadTime(a) = a /\ PayloadTime(b) = b
        /\ PayloadTime(a + b) = a + b
    BY <1>1 DEF PayloadTime
  <2> QED
    BY <2>1
<1>2. CASE writer = "G729"
  <2>1. PICK F, D : F = FrameBytes /\ D = FrameTicks
    OBVIOUS
  <2>2. F \in Nat \ {0} /\ D \in Nat /\ a \in Int /\ b \in Int /\ a + b \in Int
    BY <2>1, AudioAssumption
  <2>3. PICK x \in Int, r \in 0 .. F - 1 :
           /\ a + F - 1 = F * x + r /\ (a + F - 1) \div F = x
           /\ a % F = 0 => r = F - 1
    BY Zenon, <2>2, FramesOf
  <2>4. PICK y \in Int, t \in 0 .. F - 1 :
           b + F - 1 = F * y + t /\ (b + F - 1) \div F = y
    BY Zenon, <2>2, FramesOf
  <2>5. PICK z \in Int, u \in 0 .. F - 1 :
           (a + b) + F - 1 = F * z + u /\ ((a + b) + F - 1) \div F = z
    BY Zenon, <2>2, FramesOf
  <2>6. F * (x + y) = F * x + F * y /\ F * ((x + y) - z) = F * x + F * y - F * z
    BY <2>2
  <2>7. F * x \in Int /\ F * y \in Int /\ F * z \in Int
    BY <2>2
  <2>8. F * ((x + y) - z) = (u - r) + ((F - 1) - t)
    BY <2>2, <2>3, <2>4, <2>5, <2>6, <2>7
  <2>9. F * ((x + y) - z) > -F /\ (r = F - 1 => F * ((x + y) - z) < F)
    BY <2>2, <2>8
  <2>10. PICK k \in Int : k = (x + y) - z
    OBVIOUS
  <2>11. k >= 0
    <3>1. CASE k <= -1
      <4>1. F * k <= -F
        BY <2>2, <3>1
      <4>2. F * k \in Int /\ F * k > -F
        BY <2>2, <2>9, <2>10
      <4> QED
        BY <2>2, <4>1, <4>2
    <3> QED
      BY <3>1
  <2>12. r = F - 1 => k = 0
    <3> SUFFICES ASSUME r = F - 1, k >= 1 PROVE FALSE
      BY <2>11
    <3>1. F * k >= F
      BY <2>2
    <3>2. F * k \in Int /\ F * k < F
      BY <2>2, <2>9, <2>10
    <3> QED
      BY <2>2, <3>1, <3>2
  <2>13. z <= x + y /\ (a % F = 0 => z = x + y)
    BY <2>3, <2>10, <2>11, <2>12
  <2>14. /\ PayloadTime(a) = x * D /\ PayloadTime(b) = y * D
         /\ PayloadTime(a + b) = z * D
    BY Zenon, <1>2, <2>1, <2>3, <2>4, <2>5 DEF PayloadTime
  <2>15. x * D + y * D = (x + y) * D /\ z * D <= (x + y) * D
    BY <2>2, <2>13
  <2>16. ~IsShort(a) => a % F = 0
    BY Zenon, <1>2, <2>1 DEF IsShort
  <2>17. x + y \in Int
    OBVIOUS
  <2> QED
    BY Zenon, <2>13, <2>14, <2>15, <2>16
<1> QED
  BY <1>1, <1>2

(* An empty segment.                                                       *)
LEMMA PayloadOfNothing == PayloadTime(0) = 0
<1>1. FrameBytes \in Nat \ {0} /\ FrameTicks \in Nat
  BY AudioAssumption
<1>2. (0 + FrameBytes - 1) \div FrameBytes = 0
  BY <1>1
<1> QED
  BY <1>1, <1>2 DEF PayloadTime

(* Only a payload that is collected or a decoding changes the segment.     *)
LEMMA SegmentKept ==
  ASSUME UNCHANGED <<writer, segment>>
  PROVE  Collected' = Collected
BY DEF Collected, PayloadTime

(* What Taken does to the history.                                         *)
LEMMA TakenSent ==
  ASSUME TypeOK, NEW t \in Int, NEW n \in Nat, Taken(t, n), rate' = rate
  PROVE  LET k == Len(sent)
         IN  /\ sent' \in Seq([at : Int, ticks : Nat])
             /\ k \in Nat /\ Len(sent') = k + 1
             /\ sent'[k + 1] = [at |-> t, ticks |-> PayloadTime(n)]
             /\ \A i \in 1 .. k : sent'[i] = sent[i]
             /\ Believable' => Believable
             /\ Believable' /\ k > 0 =>
                   /\ t - sent[k].at \in -Half .. Half - 1
                   /\ t - sent[k].at - sent[k].ticks <= MaxGap * rate
<1> DEFINE k == Len(sent)
           e == [at |-> t, ticks |-> PayloadTime(n)]
<1>1. e \in [at : Int, ticks : Nat]
  BY PayloadNat
<1>2. sent \in Seq([at : Int, ticks : Nat]) /\ sent' = Append(sent, e)
  BY DEF TypeOK, Taken
<1>3. k \in Nat
  BY <1>2
<1>4. /\ sent' \in Seq([at : Int, ticks : Nat])
      /\ Len(sent') = k + 1 /\ sent'[k + 1] = e
      /\ \A i \in 1 .. k : sent'[i] = sent[i]
  <2> HIDE DEF e
  <2>1. QED
    BY <1>1, <1>2
<1>5. ASSUME Believable' PROVE Believable
  <2> SUFFICES ASSUME NEW i \in 2 .. k
               PROVE  /\ Behind(i) \in -Half .. Half - 1
                      /\ Behind(i) - sent[i - 1].ticks <= MaxGap * rate
    BY DEF Believable
  <2>1. i \in 2 .. Len(sent') /\ i \in 1 .. k /\ i - 1 \in 1 .. k
    <3>1. k \in Nat /\ Len(sent') = k + 1
      BY <1>3, <1>4
    <3> HIDE DEF k, e
    <3>2. QED
      BY <3>1
  <2>2. sent'[i] = sent[i] /\ sent'[i - 1] = sent[i - 1]
    BY <1>4, <2>1
  <2>3. QED
    BY <1>5, <2>1, <2>2 DEF Believable, Behind
<1>6. ASSUME Believable', k > 0
      PROVE  /\ t - sent[k].at \in -Half .. Half - 1
             /\ t - sent[k].at - sent[k].ticks <= MaxGap * rate
  <2>1. k + 1 \in 2 .. Len(sent') /\ (k + 1) - 1 = k /\ k \in 1 .. k
    BY <1>3, <1>4, <1>6
  <2>2. /\ sent'[k + 1].at - sent'[(k + 1) - 1].at \in -Half .. Half - 1
        /\ sent'[k + 1].at - sent'[(k + 1) - 1].at - sent'[(k + 1) - 1].ticks
              <= MaxGap * rate
    BY <1>6, <2>1 DEF Believable, Behind
  <2>3. sent'[k + 1].at = t /\ sent'[(k + 1) - 1] = sent[k]
    BY <1>4, <2>1
  <2>4. QED
    BY <2>2, <2>3
<1>7. QED
  BY <1>3, <1>4, <1>5, <1>6

-----------------------------------------------------------------------------
(* Every step keeps the invariant.                                         *)

(* Nothing has been taken in the beginning.                                *)
LEMMA AudioInit == Init => AudioInv
<1> SUFFICES ASSUME Init PROVE AudioInv
  OBVIOUS
<1>1. T \in Nat \ {0}
  BY AudioAssumption
<1>2. TypeOK
  <2> HIDE DEF T
  <2>1. clock \in Int /\ count \in 0 .. MaxPackets
    BY AudioAssumption DEF Init
  <2>2. lastRTPTS \in 0 .. T - 1 /\ lastSamples \in Nat /\ haveLast \in BOOLEAN
    <3>1. 0 \in 0 .. T - 1
      BY <1>1
    <3>2. haveLast \in BOOLEAN
      BY DEF Init
    <3>3. QED
      BY <3>1, <3>2 DEF Init
  <2>3. /\ frames \in Seq([rtpTS : 0 .. T - 1, len : Nat])
        /\ sent \in Seq([at : Int, ticks : Nat])
        /\ done \in 0 .. Len(frames) /\ mishaps = {}
    <3>1. \A S : << >> \in Seq(S)
      OBVIOUS
    <3>2. frames = << >> /\ sent = << >> /\ done = 0 /\ mishaps = {}
      BY DEF Init
    <3>3. Len(<< >>) = 0
      OBVIOUS
    <3>4. QED
      BY <3>1, <3>2, <3>3
  <2>4. QED
    BY <2>1, <2>2, <2>3 DEF Init, TypeOK
<1>3. Remembered /\ HeaderLast /\ WavTimeline /\ FfmpegTimeline
  BY DEF Init, Remembered, HeaderLast, WavTimeline, FfmpegTimeline, IsFfmpeg
<1>4. QED
  BY <1>2, <1>3 DEF AudioInv

(* A writer is made for a stream that has written nothing.                 *)
LEMMA OpenStep == AudioInv /\ makeWriter => AudioInv'
<1> SUFFICES ASSUME AudioInv, makeWriter PROVE AudioInv'
  OBVIOUS
<1> USE DEF AudioInv
<1>1. /\ writer = "unopened" /\ sent = << >> /\ size = 0
      /\ UNCHANGED <<closed, pt, codec, gapVars, frames, closeVars, size,
                     broken, clock, count, sent>>
  BY DEF makeWriter, Remembered
<1>2. done = 0 /\ frames \in Seq([rtpTS : 0 .. T - 1, len : Nat])
  BY <1>1 DEF Remembered, TypeOK, IsFfmpeg
<1>3. /\ writer' \in {"none", "PCM", "G722", "G729"} /\ rate' \in Nat
      /\ IsFfmpeg(writer') => rate' = 1
      /\ header' = IF writer' = "PCM" THEN "zero" ELSE "absent"
  <2>1. codec # NoCodec => codec.name \in Formats /\ codec.rate \in Nat
    BY AudioAssumption DEF TypeOK
  <2>2. DecoderOf \in {"none", "PCM", "G722", "G729"}
    BY <2>1 DEF DecoderOf, IsMapped, IsPCM, Formats
  <2>3. CASE ~IsStaticPCM /\ writer' = "PCM"
    <3>1. codec # NoCodec
      BY <2>3 DEF makeWriter, DecoderOf, IsMapped
    <3>2. QED
      BY <2>1, <2>3, <3>1 DEF makeWriter, IsFfmpeg
  <2>4. CASE ~(~IsStaticPCM /\ writer' = "PCM")
    BY <2>2, <2>4 DEF makeWriter
  <2>5. QED
    BY <2>3, <2>4
<1>4. TypeOK'
  BY <1>1, <1>2, <1>3 DEF TypeOK, gapVars, closeVars
<1>5. ~haveLast /\ frames = << >>
  BY <1>1 DEF Remembered
<1>6. Remembered'
  <2>1. /\ sent' = << >> /\ frames' = << >> /\ size' = 0 /\ ~haveLast'
        /\ done' = 0
    BY <1>1, <1>2, <1>5 DEF gapVars, closeVars
  <2>2. Len(<< >>) = 0 /\ 1 .. 0 = {}
    OBVIOUS
  <2>3. QED
    BY <1>3, <2>1, <2>2 DEF Remembered
<1>7. HeaderLast'
  BY <1>1, <1>2, <1>3 DEF HeaderLast, closeVars
<1>8. WavTimeline' /\ FfmpegTimeline'
  BY <1>1, <1>2 DEF WavTimeline, FfmpegTimeline, closeVars
<1>9. QED
  BY <1>4, <1>6, <1>7, <1>8

(* SIP changes the map and nothing else.                                   *)
LEMMA RemapStep == AudioInv /\ Remap => AudioInv'
<1> SUFFICES ASSUME AudioInv, Remap PROVE AudioInv'
  OBVIOUS
<1>1. /\ codec' \in Codecs
      /\ UNCHANGED <<writer, closed, pt, rate, gapVars, frames, closeVars,
                     fileVars, clock, count, sent>>
  BY DEF Remap
<1>2. TypeOK'
  BY <1>1 DEF AudioInv, TypeOK, gapVars, closeVars, fileVars
<1>3. Remembered' /\ HeaderLast'
  BY <1>1 DEF AudioInv, Remembered, HeaderLast, gapVars, closeVars, fileVars,
              IsFfmpeg, PayloadTime
<1>4. WavTimeline' /\ FfmpegTimeline'
  BY <1>1 DEF AudioInv, WavTimeline, FfmpegTimeline, closeVars, fileVars,
              Believable, Behind, End, Ratio, Collected, PayloadTime
<1>5. QED
  BY <1>2, <1>3, <1>4 DEF AudioInv

(* A packet of G.711: the silence covers the time since the packet before, *)
(* so the file keeps up with the sender.                                   *)
LEMMA WavStep ==
  ASSUME AudioInv, NEW t \in Int, NEW n \in Nat, writePacket(t, n), WavPacket(t, n)
  PROVE  AudioInv'
<1> DEFINE k == Len(sent)
           s == Silence(Gap(t % T), MaxGap * rate)
<1>1. TypeOK /\ Remembered /\ HeaderLast /\ WavTimeline
  BY DEF AudioInv
<1>2. /\ writer = "PCM" /\ writer' = "PCM" /\ ~closed /\ done = 0
      /\ UNCHANGED closed /\ UNCHANGED <<pt, codec, rate, closeVars, header, frames>>
      /\ count' = count + 1 /\ count < MaxPackets /\ clock' = t
      /\ lastRTPTS' = t % T /\ lastSamples' = n /\ haveLast' = TRUE
  BY <1>1 DEF writePacket, WavPacket, TypeOK
<1>3. Taken(t, n) /\ Store(s, n)
  BY DEF WavPacket
<1>4. /\ sent' \in Seq([at : Int, ticks : Nat])
      /\ k \in Nat /\ Len(sent') = k + 1
      /\ sent'[k + 1] = [at |-> t, ticks |-> n]
      /\ \A i \in 1 .. k : sent'[i] = sent[i]
      /\ Believable' => Believable
      /\ Believable' /\ k > 0 =>
            /\ t - sent[k].at \in -Half .. Half - 1
            /\ t - sent[k].at - sent[k].ticks <= MaxGap * rate
  <2>1. PayloadTime(n) = n
    BY <1>2 DEF PayloadTime
  <2>2. rate' = rate
    BY <1>2
  <2>3. QED
    BY <1>1, <1>3, <2>1, <2>2, TakenSent
<1>5. \A i \in 1 .. k : sent[i].at \in Int /\ sent[i].ticks \in Nat
  <2>1. sent \in Seq([at : Int, ticks : Nat])
    BY <1>1 DEF TypeOK
  <2>2. \A i \in 1 .. k : sent[i] \in [at : Int, ticks : Nat]
    BY <2>1, ElementOfSeq
  <2>3. QED
    BY <2>2
<1>6. t % T \in 0 .. T - 1
  BY SignedInt
<1>7. MaxGap * rate \in Nat /\ Gap(t % T) \in Int
  <2>1. MaxGap * rate \in Nat
    BY <1>1, AudioAssumption DEF TypeOK
  <2>2. (t % T) - lastRTPTS \in Int /\ lastSamples \in Nat
    <3>1. T \in Nat
      BY AudioAssumption
    <3> HIDE DEF T
    <3>2. QED
      BY <1>1, <1>6, <3>1 DEF TypeOK
  <2>3. Signed((t % T) - lastRTPTS) \in Int
    BY <2>2, SignedInt
  <2>4. QED
    BY <2>1, <2>2, <2>3 DEF Gap
<1>8. /\ s \in Nat
      /\ Gap(t % T) <= MaxGap * rate => s >= Gap(t % T)
  BY <1>7, SilenceFills
<1>9. Believable' /\ k > 0 => s >= t - sent[k].at - sent[k].ticks
  <2> SUFFICES ASSUME Believable', k > 0
               PROVE  s >= t - sent[k].at - sent[k].ticks
    OBVIOUS
  <2>1. sent # << >> /\ k \in 1 .. k
    BY <1>4
  <2>2. haveLast /\ lastRTPTS = sent[k].at % T /\ lastSamples = sent[k].ticks
    BY <1>1, <1>2, <2>1 DEF Remembered
  <2>3. sent[k].at \in Int /\ sent[k].ticks \in Nat
    BY <1>5, <2>1
  <2>4. t - sent[k].at \in -Half .. Half - 1
    BY <1>4
  <2>5. Signed((t % T) - (sent[k].at % T)) = t - sent[k].at
    <3> HIDE DEF k
    <3>1. QED
      BY <2>3, <2>4, SignedIsTrue
  <2>6. Gap(t % T) = t - sent[k].at - sent[k].ticks
    BY <2>2, <2>5 DEF Gap
  <2>7. QED
    BY <1>4, <1>8, <2>6
<1> HIDE DEF s
<1>10. /\ size' \in Nat /\ size' >= size /\ broken' \in BOOLEAN
       /\ ~broken' => ~broken /\ size' = size + s + n
  <2>1. size \in Nat /\ broken \in BOOLEAN
    BY <1>1 DEF TypeOK
  <2>2. CASE ~broken /\ size' = size + s + n /\ UNCHANGED broken
    BY <1>8, <2>1, <2>2
  <2>3. CASE ~broken /\ size' \in {size, size + s} /\ broken' = TRUE
    BY <1>8, <2>1, <2>3
  <2>4. CASE broken /\ UNCHANGED <<size, broken>>
    BY <2>1, <2>4
  <2>5. QED
    BY <1>3, <2>2, <2>3, <2>4 DEF Store
<1>11. TypeOK'
  <2>1. count' \in 0 .. MaxPackets
    BY <1>1, <1>2, AudioAssumption DEF TypeOK
  <2>2. haveLast' \in BOOLEAN /\ broken' \in BOOLEAN /\ closed' \in BOOLEAN
    BY <1>1, <1>2, <1>10 DEF TypeOK
  <2>3. QED
    BY <1>1, <1>2, <1>4, <1>6, <1>10, <2>1, <2>2 DEF TypeOK, closeVars
<1>12. Remembered'
  <2>1. sent'[Len(sent')] = [at |-> t, ticks |-> n]
    BY <1>4
  <2>2. lastRTPTS' = sent'[Len(sent')].at % T /\ lastSamples' = sent'[Len(sent')].ticks
    BY <1>2, <2>1
  <2>3. sent' # << >>
    BY <1>4
  <2>4. done' = 0
    BY <1>2 DEF closeVars
  <2>5. QED
    BY <1>2, <2>2, <2>3, <2>4 DEF Remembered, IsFfmpeg
<1>13. HeaderLast'
  BY <1>1, <1>2 DEF HeaderLast, closeVars
<1>14. WavTimeline'
  <2> SUFFICES ASSUME ~broken', Believable', NEW i \in 1 .. Len(sent')
               PROVE  size' >= (End(i))' - sent'[1].at
    BY DEF WavTimeline
  <2>0. (End(i))' = sent'[i].at + sent'[i].ticks
    BY DEF End
  <2>1. \A j \in 1 .. k : size >= (sent[j].at + sent[j].ticks) - sent[1].at
    <3>1. ~broken /\ Believable
      BY <1>4, <1>10
    <3>2. \A j \in 1 .. Len(sent) : size >= End(j) - sent[1].at
      BY <1>1, <1>2, <3>1 DEF WavTimeline
    <3>3. QED
      BY <3>2 DEF End
  <2>2. CASE i \in 1 .. k
    <3>1. sent'[i] = sent[i] /\ sent'[1] = sent[1] /\ 1 \in 1 .. k
      <4>1. k \in Nat /\ \A j \in 1 .. k : sent'[j] = sent[j]
        BY <1>4
      <4> HIDE DEF k
      <4>2. 1 \in 1 .. k
        BY <2>2, <4>1
      <4>3. QED
        BY <2>2, <4>1, <4>2
    <3>2. /\ size \in Nat /\ size' \in Nat /\ size' >= size
          /\ sent[i].at \in Int /\ sent[i].ticks \in Nat /\ sent[1].at \in Int
      BY <1>1, <1>5, <1>10, <2>2, <3>1 DEF TypeOK
    <3>3. size >= (sent[i].at + sent[i].ticks) - sent[1].at
      BY <2>1, <2>2
    <3>4. QED
      <4> DEFINE x == (sent[i].at + sent[i].ticks) - sent[1].at
      <4>1. x \in Int
        <5> DEFINE a == sent[i].at
                   b == sent[i].ticks
                   c == sent[1].at
        <5>1. a \in Int /\ b \in Nat /\ c \in Int
          BY <3>2
        <5> HIDE DEF a, b, c
        <5>2. (a + b) - c \in Int
          BY <5>1
        <5>3. QED
          BY <5>2 DEF a, b, c
      <4>2. size >= x
        BY <3>3
      <4> HIDE DEF x
      <4>3. size' >= x
        BY <3>2, <4>1, <4>2
      <4>4. QED
        BY <2>0, <3>1, <4>3 DEF x
  <2>3. CASE i = k + 1 /\ k = 0
    <3>1. sent'[i].at = t /\ sent'[i].ticks = n /\ sent'[1].at = t
      BY <1>4, <2>3
    <3>2. size' >= n
      BY <1>1, <1>8, <1>10 DEF TypeOK
    <3>3. (t + n) - t = n
      OBVIOUS
    <3>4. QED
      BY <2>0, <3>1, <3>2, <3>3
  <2>4. CASE i = k + 1 /\ k > 0
    <3>1. k \in 1 .. k /\ 1 \in 1 .. k
      BY <1>4, <2>4
    <3>2. sent'[i].at = t /\ sent'[i].ticks = n /\ sent'[1] = sent[1]
      BY <1>4, <2>4, <3>1
    <3>3. size >= (sent[k].at + sent[k].ticks) - sent[1].at
      BY <2>1, <3>1
    <3>4. s >= t - sent[k].at - sent[k].ticks
      BY <1>9, <2>4
    <3>5. size' = size + s + n
      BY <1>10
    <3>6. /\ size \in Nat /\ s \in Nat /\ sent[k].at \in Int /\ sent[1].at \in Int
          /\ sent[k].ticks \in Nat
      BY <1>1, <1>5, <1>8, <3>1 DEF TypeOK
    <3>7. QED
      <4> DEFINE a == sent[k].at
                 d == sent[k].ticks
                 f == sent[1].at
      <4>1. size + s + n >= (t + n) - f
        <5>1. /\ size \in Nat /\ s \in Nat /\ a \in Int /\ f \in Int /\ d \in Nat
              /\ size >= (a + d) - f /\ s >= t - a - d
          BY <3>3, <3>4, <3>6
        <5> HIDE DEF a, d, f
        <5>2. QED
          BY <5>1
      <4>2. QED
        BY <2>0, <3>2, <3>5, <4>1
  <2>5. i \in 1 .. k \/ (i = k + 1 /\ k = 0) \/ (i = k + 1 /\ k > 0)
    BY <1>4
  <2>6. QED
    BY <2>2, <2>3, <2>4, <2>5
<1>15. FfmpegTimeline'
  BY <1>2 DEF FfmpegTimeline, closeVars
<1>16. QED
  BY <1>11, <1>12, <1>13, <1>14, <1>15 DEF AudioInv

(* A packet of ffmpeg's is remembered.                                     *)
LEMMA FfmpegStep ==
  ASSUME AudioInv, NEW t \in Int, NEW n \in Nat, writePacket(t, n), FfmpegPacket(t, n)
  PROVE  AudioInv'
<1> DEFINE k == Len(sent)
           frame == [rtpTS |-> t % T, len |-> n]
<1>1. TypeOK /\ Remembered /\ HeaderLast
  BY DEF AudioInv
<1>2. /\ IsFfmpeg(writer) /\ writer # "PCM" /\ writer \notin {"unopened", "none"}
      /\ ~closed /\ done = 0
      /\ UNCHANGED <<writer, closed, pt, codec, rate, closeVars, header>>
      /\ UNCHANGED <<gapVars, size, broken>>
      /\ count' = count + 1 /\ count < MaxPackets /\ clock' = t
  BY <1>1 DEF writePacket, FfmpegPacket, IsFfmpeg
<1>3. Taken(t, n) /\ frames' = Append(frames, frame)
  BY DEF FfmpegPacket
<1>4. /\ sent' \in Seq([at : Int, ticks : Nat])
      /\ k \in Nat /\ Len(sent') = k + 1
      /\ sent'[k + 1] = [at |-> t, ticks |-> PayloadTime(n)]
      /\ \A i \in 1 .. k : sent'[i] = sent[i]
  <2>1. rate' = rate
    BY <1>2
  <2>2. QED
    BY <1>1, <1>3, <2>1, TakenSent
<1>5. frame \in [rtpTS : 0 .. T - 1, len : Nat]
  <2>1. t % T \in 0 .. T - 1
    BY SignedInt
  <2> HIDE DEF T
  <2>2. QED
    BY <2>1
<1>6. /\ frames' \in Seq([rtpTS : 0 .. T - 1, len : Nat])
      /\ Len(frames') = k + 1 /\ frames'[k + 1] = frame
      /\ \A i \in 1 .. k : frames'[i] = frames[i]
  <2>1. frames \in Seq([rtpTS : 0 .. T - 1, len : Nat]) /\ Len(frames) = k
    BY <1>1, <1>2 DEF TypeOK, Remembered
  <2> HIDE DEF frame, k
  <2>2. QED
    BY <1>3, <1>5, <2>1
<1>7. TypeOK'
  <2>1. count' \in 0 .. MaxPackets
    BY <1>1, <1>2, AudioAssumption DEF TypeOK
  <2>2. done' \in 0 .. Len(frames')
    BY <1>2, <1>4, <1>6 DEF closeVars
  <2> HIDE DEF T, frame, k
  <2>3. QED
    BY <1>1, <1>2, <1>4, <1>6, <2>1, <2>2 DEF TypeOK, gapVars, closeVars
<1>8. Remembered'
  <2>1. writer' = writer /\ rate' = 1 /\ done' = 0 /\ Len(frames') = Len(sent')
    BY <1>1, <1>2, <1>4, <1>6 DEF Remembered, closeVars
  <2>2. \A m : PayloadTime(m)' = PayloadTime(m)
    BY <1>2 DEF PayloadTime
  <2>3. ASSUME NEW i \in 1 .. Len(sent')
        PROVE  /\ frames'[i].rtpTS = sent'[i].at % T
               /\ PayloadTime(frames'[i].len) = sent'[i].ticks
    <3>1. CASE i \in 1 .. k
      <4>1. \A j \in 1 .. k : /\ frames[j].rtpTS = sent[j].at % T
                              /\ PayloadTime(frames[j].len) = sent[j].ticks
        BY <1>1, <1>2 DEF Remembered
      <4>2. frames'[i] = frames[i] /\ sent'[i] = sent[i]
        BY <1>4, <1>6, <3>1
      <4> HIDE DEF T, frame, k
      <4>3. QED
        BY <3>1, <4>1, <4>2
    <3>2. CASE i = k + 1
      <4>1. frames'[i] = frame /\ sent'[i].at = t /\ sent'[i].ticks = PayloadTime(n)
        BY <1>4, <1>6, <3>2
      <4>2. frame.rtpTS = t % T /\ frame.len = n
        OBVIOUS
      <4> HIDE DEF T, frame, k
      <4>3. QED
        BY <4>1, <4>2
    <3>3. QED
      BY <1>4, <3>1, <3>2
  <2>4. QED
    <3>1. \A i \in 1 .. Len(sent') :
            /\ frames'[i].rtpTS = sent'[i].at % T
            /\ (PayloadTime(frames[i].len))' = sent'[i].ticks
      BY <2>1, <2>3 DEF PayloadTime
    <3> HIDE DEF T, frame, k
    <3>2. QED
      BY <1>2, <2>1, <3>1 DEF Remembered, IsFfmpeg
<1>9. HeaderLast'
  BY <1>1, <1>2 DEF HeaderLast, closeVars
<1>10. WavTimeline' /\ FfmpegTimeline'
  BY <1>2 DEF WavTimeline, FfmpegTimeline, closeVars
<1>11. QED
  BY <1>7, <1>8, <1>9, <1>10 DEF AudioInv

(* A packet without audio for the writer leaves everything as it is.       *)
LEMMA NoAudioStep ==
  ASSUME AudioInv, NEW t \in Int, NEW n \in Nat, writePacket(t, n), NoAudio(n)
  PROVE  AudioInv'
<1>1. /\ UNCHANGED <<writer, closed, pt, codec, rate, closeVars, header>>
      /\ UNCHANGED <<gapVars, frames, size, broken, sent>>
      /\ count' = count + 1 /\ count < MaxPackets /\ clock' = t
  BY DEF writePacket, NoAudio
<1>2. TypeOK'
  <2>1. count' \in 0 .. MaxPackets
    BY <1>1, AudioAssumption DEF AudioInv, TypeOK
  <2> HIDE DEF T
  <2>2. QED
    BY <1>1, <2>1 DEF AudioInv, TypeOK, gapVars, closeVars
<1>3. Remembered' /\ HeaderLast'
  BY <1>1 DEF AudioInv, Remembered, HeaderLast, gapVars, closeVars,
              IsFfmpeg, PayloadTime
<1>4. WavTimeline' /\ FfmpegTimeline'
  BY <1>1 DEF AudioInv, WavTimeline, FfmpegTimeline, closeVars,
              Believable, Behind, End, Ratio, Collected, PayloadTime
<1>5. QED
  BY <1>2, <1>3, <1>4 DEF AudioInv

(* The end of a WavWriter: its size was patched in after a flush.          *)
LEMMA WavCloseStep ==
  ASSUME AudioInv, close, WavClose
  PROVE  AudioInv'
<1>1. /\ writer = "PCM" /\ writer' = "PCM" /\ closed' = TRUE
      /\ UNCHANGED <<pt, codec, rate, gapVars, frames, clock, count, sent>>
      /\ UNCHANGED <<size, closeVars>>
  BY DEF close, WavClose
<1>2. /\ broken' \in BOOLEAN /\ (~broken' => ~broken)
      /\ header' \in {"zero", "data", "sized"}
      /\ header' \in {"data", "sized"} => ~broken'
  <2>1. PICK failed \in BOOLEAN : /\ broken' = (broken \/ failed)
                                  /\ header' \in Patched(broken')
    BY DEF WavClose, FlushAndPatch
  <2>2. broken' \in BOOLEAN /\ (~broken' => ~broken)
    BY <2>1
  <2>3. QED
    BY <2>1, <2>2 DEF Patched
<1>3. TypeOK'
  <2> HIDE DEF T
  <2>1. QED
    BY <1>1, <1>2 DEF AudioInv, TypeOK, gapVars, closeVars
<1>4. Remembered'
  BY <1>1 DEF AudioInv, Remembered, gapVars, closeVars, IsFfmpeg
<1>5. HeaderLast' /\ FfmpegTimeline'
  <2>1. ~(done > 0)
    BY <1>1 DEF AudioInv, Remembered, IsFfmpeg
  <2>2. QED
    BY <1>1, <1>2, <2>1 DEF HeaderLast, FfmpegTimeline, IsFfmpeg, closeVars
<1>6. WavTimeline'
  BY <1>1, <1>2 DEF AudioInv, WavTimeline, Believable, Behind, End
<1>7. QED
  BY <1>3, <1>4, <1>5, <1>6 DEF AudioInv

(* No frames or no file.                                                   *)
LEMMA CloseEmptyStep ==
  ASSUME AudioInv, close, CloseEmpty
  PROVE  AudioInv'
<1>1. /\ closed' = TRUE /\ UNCHANGED <<fileVars, closeVars>>
      /\ UNCHANGED <<writer, pt, codec, rate, gapVars, frames, clock, count, sent>>
      /\ ~closed
  BY DEF close, CloseEmpty
<1>2. TypeOK'
  <2> HIDE DEF T
  <2>1. QED
    BY <1>1 DEF AudioInv, TypeOK, gapVars, closeVars, fileVars
<1>3. Remembered' /\ HeaderLast'
  BY <1>1 DEF AudioInv, Remembered, HeaderLast, gapVars, closeVars, fileVars,
              IsFfmpeg, PayloadTime
<1>4. WavTimeline' /\ FfmpegTimeline'
  BY <1>1 DEF AudioInv, WavTimeline, FfmpegTimeline, closeVars, fileVars,
              Believable, Behind, End, Ratio, Collected, PayloadTime
<1>5. QED
  BY <1>2, <1>3, <1>4 DEF AudioInv

(* The sample rate of ffmpeg's output is once or twice the RTP clock.      *)
LEMMA RatioValues ==
  /\ Ratio \in {1, 2}
  /\ \A r \in {1, 2}, m \in Nat : r * m \in Nat
BY DEF Ratio

(* What the frames of a FfmpegWriter tell about the audio.                 *)
LEMMA FramesAreTrue ==
  ASSUME TypeOK, Remembered, IsFfmpeg(writer), NEW i \in 1 .. Len(frames)
  PROVE  /\ i \in 1 .. Len(sent) /\ Len(sent) = Len(frames) /\ Len(sent) \in Nat
         /\ sent[i].at \in Int /\ sent[i].ticks \in Nat
         /\ frames[i].rtpTS = sent[i].at % T
         /\ PayloadTime(frames[i].len) = sent[i].ticks
         /\ payloadTicks(frames[i].len) = sent[i].ticks
         /\ frames[i].len \in Nat
<1>1. Len(frames) = Len(sent) /\ i \in 1 .. Len(sent)
  BY DEF Remembered
<1>2. sent \in Seq([at : Int, ticks : Nat]) /\ frames \in Seq([rtpTS : 0 .. T - 1, len : Nat])
  BY DEF TypeOK
<1>3. sent[i].at \in Int /\ sent[i].ticks \in Nat /\ Len(sent) \in Nat
  <2>1. Len(sent) \in Nat
    BY <1>2
  <2>2. sent[i] \in [at : Int, ticks : Nat]
    BY <1>1, <1>2, ElementOfSeq
  <2>3. QED
    BY <2>1, <2>2
<1>4. frames[i].len \in Nat
  <2>1. frames[i] \in [rtpTS : 0 .. T - 1, len : Nat]
    BY <1>2, ElementOfSeq
  <2> HIDE DEF T
  <2>2. QED
    BY <2>1
<1>5. payloadTicks(frames[i].len) = PayloadTime(frames[i].len)
  BY <1>4, TicksAreTrue
<1>6. /\ frames[i].rtpTS = sent[i].at % T
      /\ PayloadTime(frames[i].len) = sent[i].ticks
  BY <1>1 DEF Remembered
<1>7. QED
  BY <1>1, <1>3, <1>4, <1>5, <1>6

(* The first payload.                                                      *)
LEMMA FirstCollected ==
  ASSUME TypeOK, Remembered, IsFfmpeg(writer), 1 \in 1 .. Len(frames),
         segment' = frames[1].len, writer' = writer
  PROVE  /\ Collected' = sent[1].ticks /\ sent[1].ticks \in Nat
         /\ sent[1].at \in Int /\ segment' \in Nat
<1>1. /\ PayloadTime(frames[1].len) = sent[1].ticks /\ sent[1].ticks \in Nat
      /\ sent[1].at \in Int /\ frames[1].len \in Nat
  BY FramesAreTrue
<1>2. Collected' = PayloadTime(frames[1].len)
  BY DEF Collected, PayloadTime
<1> QED
  BY <1>1, <1>2

(* The file of a FfmpegWriter is created and the first payload collected.  *)
LEMMA CloseStartStep ==
  ASSUME AudioInv, close, CloseStart
  PROVE  AudioInv'
<1>1. /\ UNCHANGED <<writer, pt, codec, rate, gapVars, frames, clock, count, sent>>
      /\ UNCHANGED <<closed, size, broken, mishaps>>
      /\ IsFfmpeg(writer) /\ done = 0 /\ frames # << >> /\ ~closed
      /\ header' = "zero" /\ done' = 1 /\ segment' = frames[1].len
  BY DEF close, CloseStart
<1>2. TypeOK /\ Remembered
  BY DEF AudioInv
<1>3. 1 \in 1 .. Len(frames)
  <2>1. frames \in Seq([rtpTS : 0 .. T - 1, len : Nat])
    BY <1>2 DEF TypeOK
  <2> HIDE DEF T
  <2>2. QED
    BY <1>1, <2>1
<1>4. /\ Collected' = sent[1].ticks /\ sent[1].ticks \in Nat /\ sent[1].at \in Int
      /\ segment' \in Nat
  BY <1>1, <1>2, <1>3, FirstCollected
<1>5. TypeOK'
  <2>1. done' \in 0 .. Len(frames)
    BY <1>1, <1>2, <1>3 DEF TypeOK
  <2>2. writer \notin {"unopened", "none"}
    BY <1>1 DEF IsFfmpeg
  <2> HIDE DEF T
  <2>3. QED
    BY <1>1, <1>2, <1>4, <2>1, <2>2 DEF TypeOK, gapVars
<1>6. Remembered' /\ HeaderLast'
  <2>1. Remembered'
    BY <1>1, <1>2 DEF Remembered, gapVars, IsFfmpeg, PayloadTime
  <2>2. HeaderLast'
    BY <1>1 DEF HeaderLast
  <2>3. QED
    BY <2>1, <2>2
<1>7. WavTimeline'
  BY <1>1 DEF WavTimeline, IsFfmpeg
<1>8. FfmpegTimeline'
  <2> SUFFICES size' + Ratio' * Collected' >= Ratio' * ((End(1))' - sent'[1].at)
    BY <1>1 DEF FfmpegTimeline
  <2>1. /\ (End(1))' = sent[1].at + sent[1].ticks /\ sent'[1].at = sent[1].at
        /\ Ratio' = Ratio /\ size' = size /\ size \in Nat
    BY <1>1, <1>2 DEF End, Ratio, TypeOK
  <2>2. (sent[1].at + sent[1].ticks) - sent[1].at = sent[1].ticks
    BY <1>4
  <2>3. Ratio * sent[1].ticks \in Nat
    BY <1>4, RatioValues
  <2>4. QED
    BY <1>4, <2>1, <2>2, <2>3
<1>9. QED
  BY <1>5, <1>6, <1>7, <1>8 DEF AudioInv

(* A length in samples of the file.                                        *)
LEMMA RatioNat ==
  ASSUME NEW n \in Nat
  PROVE  Ratio * n \in Nat
<1>1. CASE Ratio = 1
  BY <1>1
<1>2. CASE Ratio = 2
  BY <1>2
<1>3. QED
  BY <1>1, <1>2, RatioValues

(* What ffmpeg gives for a segment is no longer than the segment, and as   *)
(* long unless something goes wrong.                                       *)
LEMMA SegmentDecoded ==
  ASSUME TypeOK, NEW samples, Flushed(samples)
  PROVE  /\ samples \in Nat /\ samples <= Ratio * Collected
         /\ mishaps' \subseteq Mishaps
         /\ mishaps' = {} => mishaps = {} /\ samples = Ratio * Collected
<1>1. segment \in Nat /\ mishaps \subseteq Mishaps
  BY DEF TypeOK, Mishaps
<1>2. Collected \in Nat /\ Ratio * Collected \in Nat
  BY <1>1, PayloadNat, RatioNat DEF Collected
<1>3. CASE samples = Ratio * PayloadTime(segment) /\ UNCHANGED mishaps
  <2>1. samples = Ratio * Collected
    BY Zenon, <1>3 DEF Collected
  <2> QED
    BY <1>1, <1>2, <1>3, <2>1
<1>4. CASE /\ IsShort(segment)
           /\ samples = Ratio * ((segment \div FrameBytes) * FrameTicks)
           /\ mishaps' = mishaps \cup {"cut"}
  <2>1. PICK w : w = (segment \div FrameBytes) * FrameTicks
    OBVIOUS
  <2>2. w \in Nat /\ w <= Collected
    BY <1>1, <1>4, <2>1, WholeFrames DEF IsShort, Collected
  <2>3. PICK c : c = Collected
    OBVIOUS
  <2>4. Ratio * w \in Nat /\ Ratio * w <= Ratio * c
    <3>1. w \in Nat /\ c \in Nat /\ w <= c /\ Ratio \in {1, 2}
      BY <1>2, <2>2, <2>3, RatioValues
    <3> QED
      BY <3>1
  <2>5. samples = Ratio * w
    BY Zenon, <1>4, <2>1
  <2>6. mishaps' \subseteq Mishaps /\ mishaps' # {}
    BY <1>1, <1>4 DEF Mishaps
  <2> QED
    BY <2>3, <2>4, <2>5, <2>6
<1>5. CASE samples = 0 /\ mishaps' = mishaps \cup {"refused"}
  <2>1. mishaps' \subseteq Mishaps /\ mishaps' # {}
    BY <1>1, <1>5 DEF Mishaps
  <2> QED
    BY <1>2, <1>5, <2>1
<1> QED
  BY <1>3, <1>4, <1>5 DEF Flushed

(* What a payload adds to the segment, is no more than its length, and     *)
(* exactly its length if the bytes before it are whole frames.             *)
LEMMA PayloadCollected ==
  ASSUME TypeOK, NEW n \in Nat, Collect(n), writer' = writer
  PROVE  /\ segment' \in Nat /\ Collected' \in Nat
         /\ Collected' <= Collected + PayloadTime(n)
         /\ mishaps' \subseteq Mishaps
         /\ mishaps' = {} => /\ mishaps = {}
                             /\ Collected' = Collected + PayloadTime(n)
<1>1. segment \in Nat /\ mishaps \subseteq Mishaps /\ segment + n \in Nat
  BY DEF TypeOK, Mishaps
<1>2. segment' = segment + n
  BY DEF Collect
<1>3. Collected' = PayloadTime(segment + n)
  BY <1>2 DEF Collected, PayloadTime
<1>4. /\ Collected' <= Collected + PayloadTime(n)
      /\ ~IsShort(segment) => Collected' = Collected + PayloadTime(n)
  BY <1>1, <1>3, PayloadsJoined DEF Collected
<1>5. CASE IsShort(segment)
  <2>1. mishaps' \subseteq Mishaps /\ mishaps' # {}
    BY <1>1, <1>5 DEF Collect, Mishaps
  <2> QED
    BY <1>1, <1>2, <1>3, <1>4, <2>1, PayloadNat
<1>6. CASE ~IsShort(segment)
  <2>1. mishaps' = mishaps
    BY <1>6 DEF Collect
  <2> QED
    BY <1>1, <1>2, <1>3, <1>4, <1>6, <2>1, PayloadNat
<1> QED
  BY <1>5, <1>6

(* A segment that is written before a gap: no more than its length and the *)
(* silence, and exactly that if nothing goes wrong.                        *)
LEMMA SegmentStored ==
  ASSUME TypeOK, NEW samples, Flushed(samples), NEW fill \in Nat, Store(samples, fill)
  PROVE  /\ size' \in Nat /\ broken' \in BOOLEAN /\ mishaps' \subseteq Mishaps
         /\ size' <= size + Ratio * Collected + fill
         /\ ~broken' => ~broken
         /\ ~broken' /\ mishaps' = {} =>
               mishaps = {} /\ size' = size + Ratio * Collected + fill
<1>1. PICK g : g = Ratio * Collected
  OBVIOUS
<1>2. /\ samples \in Nat /\ samples <= g /\ mishaps' \subseteq Mishaps
      /\ mishaps' = {} => mishaps = {} /\ samples = g
  BY <1>1, SegmentDecoded
<1>3. g \in Nat /\ size \in Nat /\ broken \in BOOLEAN
  BY <1>1, PayloadNat, RatioNat DEF TypeOK, Collected
<1>4. \/ ~broken /\ size' = size + samples + fill /\ broken' = broken
      \/ ~broken /\ size' \in {size, size + samples} /\ broken' = TRUE
      \/ broken /\ size' = size /\ broken' = broken
  BY DEF Store
<1>5. /\ size' \in Nat /\ broken' \in BOOLEAN /\ size' <= size + g + fill
      /\ ~broken' => ~broken /\ size' = size + samples + fill
  <2>1. CASE ~broken /\ size' = size + samples + fill /\ broken' = broken
    BY <1>2, <1>3, <2>1
  <2>2. CASE ~broken /\ size' \in {size, size + samples} /\ broken' = TRUE
    BY <1>2, <1>3, <2>2
  <2>3. CASE broken /\ size' = size /\ broken' = broken
    BY <1>2, <1>3, <2>3
  <2> QED
    BY <1>4, <2>1, <2>2, <2>3
<1> QED
  BY <1>1, <1>2, <1>5

(* The longer, the more samples.                                           *)
LEMMA RatioGrows ==
  ASSUME NEW a \in Nat, NEW b \in Nat, a <= b
  PROVE  Ratio * a <= Ratio * b
<1>1. CASE Ratio = 1
  BY <1>1
<1>2. CASE Ratio = 2
  BY <1>2
<1>3. QED
  BY <1>1, <1>2, RatioValues

(* A frame behind a gap: the silence covers the gap.                       *)
LEMMA BehindGap ==
  ASSUME NEW r \in {1, 2}, NEW z \in Nat, NEW g \in Nat, NEW p \in Nat,
         NEW silence \in Nat, NEW x \in Int, NEW gap \in Int,
         z + r * g >= r * x, silence >= gap * r
  PROVE  (z + r * g + silence) + r * p >= r * (x + gap + p)
<1>1. CASE r = 1
  BY <1>1
<1>2. CASE r = 2
  BY <1>2
<1>3. QED
  BY <1>1, <1>2

(* A frame that follows, or overlaps, the one before.                      *)
LEMMA WithoutGap ==
  ASSUME NEW r \in {1, 2}, NEW z \in Nat, NEW g \in Nat, NEW p \in Nat,
         NEW x \in Int, NEW gap \in Int, z + r * g >= r * x, gap <= 0
  PROVE  z + r * (g + p) >= r * (x + gap + p)
<1>1. CASE r = 1
  BY <1>1
<1>2. CASE r = 2
  BY <1>2
<1>3. QED
  BY <1>1, <1>2

(* The close of a FfmpegWriter goes through a frame.                       *)
LEMMA CloseFrameStep ==
  ASSUME AudioInv, close, CloseFrame
  PROVE  AudioInv'
<1> DEFINE d    == done
           prev == frames[d]
           cur  == frames[d + 1]
           gap  == Signed(cur.rtpTS - prev.rtpTS) - payloadTicks(prev.len)
           fill == Silence(gap * Ratio, MaxGap * Ratio)
           p    == sent[d + 1].ticks
<1>1. /\ UNCHANGED <<writer, pt, codec, rate, gapVars, frames, clock, count, sent>>
      /\ ~closed /\ closed' = closed /\ header' = header
      /\ d \in 1 .. Len(frames) - 1 /\ done' = d + 1
  BY DEF close, CloseFrame
<1>2. TypeOK /\ Remembered /\ HeaderLast
  BY DEF AudioInv
<1>3. /\ IsFfmpeg(writer) /\ writer # "PCM" /\ writer \notin {"unopened", "none"}
      /\ rate = 1
  BY <1>1, <1>2 DEF Remembered, IsFfmpeg
<1>4. /\ d \in 1 .. Len(frames) /\ d + 1 \in 1 .. Len(frames) /\ d \in Nat
      /\ Len(frames) \in Nat
  <2>1. Len(frames) \in Nat
    <3>1. frames \in Seq([rtpTS : 0 .. T - 1, len : Nat])
      BY <1>2 DEF TypeOK
    <3>2. QED
      BY <3>1
  <2>2. QED
    BY <1>1, <2>1
<1>5. /\ sent[d].at \in Int /\ sent[d].ticks \in Nat
      /\ prev.rtpTS = sent[d].at % T /\ payloadTicks(prev.len) = sent[d].ticks
      /\ Len(sent) = Len(frames)
  BY <1>2, <1>3, <1>4, FramesAreTrue
<1>6. /\ sent[d + 1].at \in Int /\ p \in Nat
      /\ cur.rtpTS = sent[d + 1].at % T /\ PayloadTime(cur.len) = p
  <2>1. d + 1 \in 1 .. Len(frames)
    BY <1>4
  <2>2. QED
    BY <1>2, <1>3, <2>1, FramesAreTrue
<1>7. gap \in Int
  <2>1. T \in Nat \ {0}
    BY AudioAssumption
  <2>2. (sent[d + 1].at % T) - (sent[d].at % T) \in Int
    <3> HIDE DEF T
    <3> DEFINE a == sent[d + 1].at
               b == sent[d].at
    <3>1. a \in Int /\ b \in Int
      BY <1>5, <1>6
    <3> HIDE DEF a, b
    <3>2. a % T \in Int /\ b % T \in Int
      BY <2>1, <3>1
    <3>3. (a % T) - (b % T) \in Int
      BY <3>2
    <3>4. QED
      BY <3>3 DEF a, b
  <2>3. Signed((sent[d + 1].at % T) - (sent[d].at % T)) \in Int
    BY <2>2, SignedInt
  <2>4. QED
    BY <1>5, <1>6, <2>3
<1>8. Believable => /\ gap = (sent[d + 1].at - sent[d].at) - sent[d].ticks
                    /\ gap <= MaxGap
  <2> SUFFICES ASSUME Believable
               PROVE  /\ gap = (sent[d + 1].at - sent[d].at) - sent[d].ticks
                      /\ gap <= MaxGap
    OBVIOUS
  <2>1. d + 1 \in 2 .. Len(sent) /\ (d + 1) - 1 = d
    BY <1>1, <1>4, <1>5
  <2>2. /\ sent[d + 1].at - sent[d].at \in -Half .. Half - 1
        /\ (sent[d + 1].at - sent[d].at) - sent[d].ticks <= MaxGap * 1
    BY <1>3, <2>1 DEF Believable, Behind
  <2>3. Signed((sent[d + 1].at % T) - (sent[d].at % T)) = sent[d + 1].at - sent[d].at
    BY <1>5, <1>6, <2>2, SignedIsTrue
  <2>4. gap = (sent[d + 1].at - sent[d].at) - sent[d].ticks
    BY <1>5, <1>6, <2>3
  <2>5. MaxGap * 1 = MaxGap
    BY AudioAssumption
  <2>6. QED
    BY <2>2, <2>4, <2>5
<1>9. /\ fill \in Nat
      /\ gap <= MaxGap => fill >= gap * Ratio
  <2> HIDE DEF gap
  <2>1. Ratio \in {1, 2} /\ MaxGap \in Nat
    BY RatioValues, AudioAssumption
  <2>2. gap * Ratio \in Int /\ MaxGap * Ratio \in Nat
    BY <1>7, <2>1
  <2>3. gap <= MaxGap => gap * Ratio <= MaxGap * Ratio
    BY <1>7, <2>1
  <2>4. QED
    BY <2>2, <2>3, SilenceFills
<1>10. /\ size \in Nat /\ Collected \in Nat /\ broken \in BOOLEAN
       /\ Ratio * Collected \in Nat /\ Ratio \in {1, 2} /\ Ratio' = Ratio
       /\ cur.len \in Nat /\ writer' = writer
  <2>1. size \in Nat /\ broken \in BOOLEAN /\ Ratio \in {1, 2} /\ Ratio' = Ratio
    BY <1>1, <1>2, RatioValues DEF TypeOK, Ratio
  <2>2. Collected \in Nat
    BY <1>2, PayloadNat DEF TypeOK, Collected
  <2>3. cur.len \in Nat
    <3>1. d + 1 \in 1 .. Len(frames)
      BY <1>4
    <3> QED
      BY <1>2, <1>3, <3>1, FramesAreTrue
  <2>4. QED
    BY <1>1, <2>1, <2>2, <2>3, RatioNat
(* What the step does to the file.                                         *)
<1>11. /\ size' \in Nat /\ broken' \in BOOLEAN /\ (~broken' => ~broken)
       /\ segment' \in Nat /\ mishaps' \subseteq Mishaps
       /\ ~broken' /\ mishaps' = {} =>
             /\ mishaps = {}
             /\ \/ /\ gap > 0 /\ Collected' = p
                   /\ size' = size + Ratio * Collected + fill
                \/ gap <= 0 /\ Collected' = Collected + p /\ size' = size
  <2>1. CASE gap > 0
    <3>1. PICK samples \in Decodings : Flushed(samples) /\ Store(samples, fill)
      BY <2>1 DEF CloseFrame
    <3>2. segment' = cur.len
      BY <2>1 DEF CloseFrame
    <3>3. Collected' = PayloadTime(cur.len)
      BY <1>10, <3>2 DEF Collected, PayloadTime
    <3> HIDE DEF gap, fill, cur, prev
    <3>4. /\ size' \in Nat /\ broken' \in BOOLEAN /\ mishaps' \subseteq Mishaps
          /\ ~broken' => ~broken
          /\ ~broken' /\ mishaps' = {} =>
                mishaps = {} /\ size' = size + Ratio * Collected + fill
      BY <1>2, <1>9, <3>1, SegmentStored
    <3>5. QED
      BY <1>6, <1>10, <2>1, <3>2, <3>3, <3>4
  <2>2. CASE ~(gap > 0)
    <3>1. Collect(cur.len) /\ UNCHANGED <<size, broken>>
      BY <2>2 DEF CloseFrame
    <3>2. gap <= 0
      <4> HIDE DEF gap
      <4>1. QED
        BY <1>7, <2>2
    <3> HIDE DEF gap, fill, cur, prev
    <3>3. /\ segment' \in Nat /\ mishaps' \subseteq Mishaps
          /\ mishaps' = {} => /\ mishaps = {}
                              /\ Collected' = Collected + PayloadTime(cur.len)
      BY <1>2, <1>10, <3>1, PayloadCollected
    <3>4. QED
      BY <1>6, <1>10, <3>1, <3>2, <3>3
  <2>3. QED
    BY <2>1, <2>2
<1>12. Collected' \in Nat
  <2>1. \A n \in Nat : PayloadTime(n) \in Nat
    BY PayloadNat
  <2>2. Collected' = PayloadTime(segment')
    BY <1>10 DEF Collected, PayloadTime
  <2>3. QED
    BY <1>11, <2>1, <2>2
<1>13. TypeOK'
  <2>1. /\ done' \in 0 .. Len(frames)
        /\ mishaps' \subseteq {"refused", "cut", "misaligned"}
    BY <1>1, <1>4, <1>11 DEF Mishaps
  <2> HIDE DEF T
  <2>2. QED
    BY <1>1, <1>2, <1>11, <2>1 DEF TypeOK, gapVars
<1>14. Remembered'
  BY <1>1, <1>2, <1>3 DEF Remembered, gapVars, IsFfmpeg, PayloadTime
<1>15. HeaderLast'
  BY <1>1, <1>2, <1>4 DEF HeaderLast
<1>16. WavTimeline'
  BY <1>1, <1>3 DEF WavTimeline
<1>17. FfmpegTimeline'
  <2> DEFINE x == (sent[d].at + sent[d].ticks) - sent[1].at
  <2> SUFFICES ASSUME ~broken', Believable', mishaps' = {}, NEW i \in 1 .. d + 1
               PROVE  size' + Ratio * Collected' >= Ratio * ((End(i))' - sent'[1].at)
    BY <1>1, <1>10 DEF FfmpegTimeline
  <2>1. Believable /\ ~broken /\ mishaps = {}
    BY <1>1, <1>11 DEF Believable, Behind
  <2>2. \A j \in 1 .. d : size + Ratio * Collected >= Ratio * (End(j) - sent[1].at)
    BY <1>1, <2>1 DEF AudioInv, FfmpegTimeline
  <2>3. (End(i))' = End(i) /\ sent'[1].at = sent[1].at
    BY <1>1 DEF End
  <2>4. sent[1].at \in Int
    <3>1. 1 \in 1 .. Len(frames)
      BY <1>1, <1>4
    <3>2. QED
      BY <1>2, <1>3, <3>1, FramesAreTrue
  <2>5. /\ x \in Int /\ size + Ratio * Collected >= Ratio * x
        /\ End(d + 1) - sent[1].at = x + gap + p
    <3>1. x \in Int
      <4> DEFINE a == sent[d].at
                 b == sent[d].ticks
                 c == sent[1].at
      <4>1. a \in Int /\ b \in Nat /\ c \in Int
        BY <1>5, <2>4
      <4> HIDE DEF a, b, c
      <4>2. (a + b) - c \in Int
        BY <4>1
      <4>3. QED
        BY <4>2 DEF a, b, c
    <3>2. size + Ratio * Collected >= Ratio * x
      BY <1>4, <2>2 DEF End
    <3>3. gap = (sent[d + 1].at - sent[d].at) - sent[d].ticks
      BY <1>8, <2>1
    <3>4. End(d + 1) - sent[1].at = x + gap + p
      <4> DEFINE a1 == sent[d].at
                 a2 == sent[d + 1].at
                 q  == sent[d].ticks
                 f  == sent[1].at
      <4>1. /\ a1 \in Int /\ a2 \in Int /\ q \in Nat /\ f \in Int /\ p \in Nat
            /\ gap = (a2 - a1) - q /\ End(d + 1) = a2 + p /\ x = (a1 + q) - f
        BY <1>5, <1>6, <2>4, <3>3 DEF End
      <4> HIDE DEF gap, a1, a2, q, p, x
      <4>2. (a2 + p) - f = x + gap + p
        BY <4>1
      <4>3. QED
        BY <4>1, <4>2
    <3>5. QED
      BY <3>1, <3>2, <3>4
  <2>6. /\ gap <= MaxGap /\ fill >= gap * Ratio
    BY <1>8, <1>9, <2>1
  <2>7. Ratio * p \in Nat
    BY <1>6, RatioValues
  <2> HIDE DEF gap, fill, p, x
  <2>8. /\ size' + Ratio * Collected' >= size + Ratio * Collected
        /\ size' + Ratio * Collected' >= Ratio * (x + gap + p)
    <3>1. CASE gap > 0 /\ Collected' = p /\ size' = size + Ratio * Collected + fill
      <4>1. (size + Ratio * Collected + fill) + Ratio * p >= Ratio * (x + gap + p)
        BY <1>6, <1>7, <1>9, <1>10, <2>5, <2>6, BehindGap
      <4>2. (size + Ratio * Collected + fill) + Ratio * p >= size + Ratio * Collected
        BY <1>9, <1>10, <2>7
      <4>3. QED
        BY <3>1, <4>1, <4>2
    <3>2. CASE gap <= 0 /\ Collected' = Collected + p /\ size' = size
      <4>1. size + Ratio * (Collected + p) >= Ratio * (x + gap + p)
        BY <1>6, <1>7, <1>10, <2>5, <3>2, WithoutGap
      <4>2. Ratio * (Collected + p) = Ratio * Collected + Ratio * p
        BY <1>6, <1>10
      <4>3. size' + Ratio * Collected' = size + Ratio * (Collected + p)
        BY <1>10, <3>2
      <4>4. size + Ratio * (Collected + p) >= size + Ratio * Collected
        <5>1. Ratio * Collected + Ratio * p >= Ratio * Collected
          BY <1>10, <2>7
        <5>2. Ratio * Collected + Ratio * p \in Nat
          BY <1>10, <2>7
        <5>3. QED
          BY <1>10, <4>2, <5>1, <5>2
      <4>5. QED
        BY <4>1, <4>3, <4>4
    <3>3. QED
      BY <1>11, <3>1, <3>2
  <2>9. CASE i \in 1 .. d
    <3>1. size + Ratio * Collected >= Ratio * (End(i) - sent[1].at)
      BY <2>2, <2>9
    <3>2. i \in 1 .. Len(frames)
      BY <1>4, <2>9
    <3>3. End(i) - sent[1].at \in Int
      BY <1>2, <1>3, <2>4, <3>2, FramesAreTrue DEF End
    <3> DEFINE y == End(i) - sent[1].at
    <3>4. Ratio * y \in Int /\ size + Ratio * Collected \in Int /\ size' + Ratio * Collected' \in Int
      BY <1>10, <1>11, <1>12, <3>3
    <3>5. QED
      BY <1>10, <2>3, <2>8, <3>1, <3>4
  <2>10. CASE i = d + 1
    BY <1>10, <2>3, <2>5, <2>8, <2>10
  <2>11. QED
    BY <1>4, <2>9, <2>10
<1>18. QED
  BY <1>13, <1>14, <1>15, <1>16, <1>17 DEF AudioInv

(* The last segment is decoded and the sizes are patched in.               *)
LEMMA CloseEndStep ==
  ASSUME AudioInv, close, CloseEnd
  PROVE  AudioInv'
<1>1. /\ UNCHANGED <<writer, pt, codec, rate, gapVars, frames, clock, count, sent>>
      /\ done > 0 /\ done = Len(frames) /\ done' = done
      /\ segment' = 0 /\ closed' = TRUE /\ writer' = writer
  BY DEF close, CloseEnd
<1>2. TypeOK /\ Remembered
  BY DEF AudioInv
<1>3. /\ IsFfmpeg(writer) /\ writer # "PCM" /\ writer \notin {"unopened", "none"}
  BY <1>1, <1>2 DEF Remembered, IsFfmpeg
<1>4. /\ size \in Nat /\ Collected \in Nat /\ broken \in BOOLEAN
      /\ Ratio * Collected \in Nat /\ Ratio \in {1, 2} /\ Ratio' = Ratio
      /\ done \in 1 .. done /\ Collected' = 0
  <2>1. Collected \in Nat /\ Collected' = 0
    BY <1>1, <1>2, PayloadNat, PayloadOfNothing DEF TypeOK, Collected, PayloadTime
  <2>2. size \in Nat /\ broken \in BOOLEAN /\ Ratio' = Ratio /\ done \in 1 .. done
    BY <1>1, <1>2 DEF TypeOK, Ratio
  <2> QED
    BY <2>1, <2>2, RatioNat, RatioValues
<1>5. PICK samples \in Decodings, bad \in BOOLEAN :
         /\ Flushed(samples)
         /\ size' = size + (IF broken \/ bad THEN 0 ELSE samples)
         /\ FlushAndPatch(broken \/ bad)
  BY DEF CloseEnd
<1>6. /\ samples \in Nat /\ mishaps' \subseteq Mishaps
      /\ mishaps' = {} => mishaps = {} /\ samples = Ratio * Collected
  BY <1>2, <1>5, SegmentDecoded
<1>7. /\ broken' \in BOOLEAN /\ (~broken' => ~broken /\ ~bad)
      /\ header' \in {"zero", "data", "sized"}
      /\ header' \in {"data", "sized"} => ~broken'
  <2>1. PICK failed \in BOOLEAN : /\ broken' = ((broken \/ bad) \/ failed)
                                  /\ header' \in Patched(broken')
    BY <1>5 DEF FlushAndPatch
  <2>2. broken' \in BOOLEAN /\ (~broken' => ~broken /\ ~bad)
    BY <2>1
  <2>3. QED
    BY <2>1, <2>2 DEF Patched
<1>8. size' \in Nat
  BY <1>4, <1>5, <1>6
<1>9. TypeOK'
  <2>1. /\ done' \in 0 .. Len(frames)
        /\ mishaps' \subseteq {"refused", "cut", "misaligned"}
    BY <1>1, <1>2, <1>6 DEF TypeOK, Mishaps
  <2> HIDE DEF T
  <2>2. QED
    BY <1>1, <1>2, <1>3, <1>7, <1>8, <2>1 DEF TypeOK, gapVars
<1>10. Remembered'
  BY <1>1, <1>2, <1>3 DEF Remembered, gapVars, IsFfmpeg, PayloadTime
<1>11. HeaderLast'
  BY <1>1, <1>7 DEF HeaderLast
<1>12. WavTimeline'
  BY <1>1, <1>3 DEF WavTimeline
<1>13. FfmpegTimeline'
  <2> SUFFICES ASSUME ~broken', Believable', mishaps' = {}, NEW i \in 1 .. done
               PROVE  size' + Ratio * Collected' >= Ratio * ((End(i))' - sent'[1].at)
    BY <1>1, <1>4 DEF FfmpegTimeline
  <2>1. Believable /\ ~broken /\ mishaps = {}
    BY <1>1, <1>6, <1>7 DEF Believable, Behind
  <2>2. size + Ratio * Collected >= Ratio * (End(i) - sent[1].at)
    BY <1>1, <2>1 DEF AudioInv, FfmpegTimeline
  <2>3. (End(i))' = End(i) /\ sent'[1].at = sent[1].at
    BY <1>1 DEF End
  <2>4. size' = size + Ratio * Collected
    BY <1>5, <1>6, <1>7
  <2>5. size' + Ratio * Collected' = size'
    <3>1. Ratio * 0 = 0
      BY <1>4
    <3>2. size' + 0 = size'
      BY <1>4, <1>5, <1>6
    <3> QED
      BY Zenon, <1>4, <3>1, <3>2
  <2>6. QED
    BY <2>2, <2>3, <2>4, <2>5
<1>14. QED
  BY <1>9, <1>10, <1>11, <1>12, <1>13 DEF AudioInv

(* Every step.                                                             *)
LEMMA AudioStep == AudioInv /\ [Next]_vars => AudioInv'
<1> SUFFICES ASSUME AudioInv, [Next]_vars PROVE AudioInv'
  OBVIOUS
<1>1. CASE makeWriter
  BY <1>1, OpenStep
<1>2. CASE Remap
  BY <1>2, RemapStep
<1>3. CASE close
  BY <1>3, WavCloseStep, CloseEmptyStep, CloseStartStep, CloseFrameStep,
     CloseEndStep DEF close
<1>4. ASSUME NEW d \in Jumps, NEW n \in Lens, writePacket(clock + d, n)
      PROVE  AudioInv'
  <2>1. clock + d \in Int /\ n \in Nat
    BY AudioAssumption DEF AudioInv, TypeOK
  <2>2. \/ WavPacket(clock + d, n) \/ FfmpegPacket(clock + d, n) \/ NoAudio(n)
    BY <1>4 DEF writePacket
  <2>3. QED
    BY <1>4, <2>1, <2>2, WavStep, FfmpegStep, NoAudioStep
<1>5. CASE UNCHANGED vars
  <2>1. /\ UNCHANGED <<writer, closed, pt, codec, rate, gapVars, frames, closeVars,
                       fileVars, clock, count, sent>>
    BY <1>5 DEF vars
  <2>2. TypeOK'
    <3> HIDE DEF T
    <3>1. QED
      BY <2>1 DEF AudioInv, TypeOK, gapVars, closeVars, fileVars
  <2>3. Remembered' /\ HeaderLast'
    BY <2>1 DEF AudioInv, Remembered, HeaderLast, gapVars, closeVars, fileVars,
                IsFfmpeg, PayloadTime
  <2>4. WavTimeline' /\ FfmpegTimeline'
    BY <2>1 DEF AudioInv, WavTimeline, FfmpegTimeline, closeVars, fileVars,
                Believable, Behind, End, Ratio, Collected, PayloadTime
  <2>5. QED
    BY <2>2, <2>3, <2>4 DEF AudioInv
<1>6. QED
  BY <1>1, <1>2, <1>3, <1>4, <1>5 DEF Next

(* The invariant holds throughout.                                         *)
THEOREM AudioInvariant == Spec => []AudioInv
<1>1. QED
  BY AudioInit, AudioStep, PTL DEF Spec

(* Writers, files and the memory of both writers are well typed, for every *)
(* map of payload types and every stream.                                  *)
THEOREM AudioTypeCorrect == Spec => []TypeOK
<1>1. AudioInv => TypeOK
  BY DEF AudioInv
<1>2. QED
  BY <1>1, AudioInvariant, PTL

(* With the invariant, a complete file decoded without mishap is at least  *)
(* as long as its time.                                                    *)
LEMMA NotAcceleratedHere == AudioInv => NotAccelerated
<1> SUFFICES ASSUME AudioInv, Complete, Believable, mishaps = {},
                    NEW i \in 1 .. Len(sent)
             PROVE  size >= Ratio * (End(i) - sent[1].at)
  BY DEF NotAccelerated
<1>1. TypeOK /\ Remembered /\ HeaderLast /\ WavTimeline /\ FfmpegTimeline
  BY DEF AudioInv
<1>2. ~broken
  BY <1>1 DEF Complete, HeaderLast
<1>3. CASE writer = "PCM"
  <2>1. size >= End(i) - sent[1].at /\ Ratio = 1
    BY <1>1, <1>2, <1>3 DEF WavTimeline, Ratio
  <2>2. End(i) - sent[1].at \in Int
    <3>1. sent \in Seq([at : Int, ticks : Nat])
      BY <1>1 DEF TypeOK
    <3>2. 1 \in 1 .. Len(sent)
      BY <3>1
    <3>3. sent[i] \in [at : Int, ticks : Nat] /\ sent[1] \in [at : Int, ticks : Nat]
      BY <3>1, <3>2, ElementOfSeq
    <3>4. QED
      BY <3>3 DEF End
  <2>3. QED
    BY <2>1, <2>2
<1>4. CASE IsFfmpeg(writer)
  <2>1. closed /\ header \in {"data", "sized"}
    BY <1>4 DEF Complete, IsFfmpeg
  <2>2. done = Len(frames) /\ Collected = 0 /\ Len(frames) = Len(sent)
    BY <1>1, <1>2, <1>4, <2>1, PayloadOfNothing DEF HeaderLast, Remembered, Collected
  <2>3. done > 0 /\ i \in 1 .. done
    <3>1. Len(sent) \in Nat
      BY <1>1 DEF TypeOK
    <3>2. QED
      BY <2>2, <3>1
  <2>4. size + Ratio * Collected >= Ratio * (End(i) - sent[1].at)
    BY <1>1, <1>2, <2>3 DEF FfmpegTimeline
  <2>5. size + Ratio * Collected = size
    BY <1>1, <2>2, RatioValues DEF TypeOK
  <2>6. QED
    BY <2>4, <2>5
<1>5. CASE writer \in {"unopened", "none"}
  <2>1. header = "absent"
    BY <1>1, <1>5 DEF TypeOK
  <2>2. QED
    BY <1>5, <2>1 DEF Complete
<1>6. QED
  BY <1>1, <1>3, <1>4, <1>5 DEF TypeOK, IsFfmpeg

(* Playback is never accelerated: the files of both writers last at least  *)
(* as long as the time they cover, for every width of the timestamp, every *)
(* cap, and any loss, delay or duplication within half a turn; as long as  *)
(* every segment is decoded, and only the last payload of one is short.    *)
THEOREM AudioIsNotAccelerated == Spec => []NotAccelerated
BY NotAcceleratedHere, AudioInvariant, PTL

-----------------------------------------------------------------------------
(* Packets in order.                                                       *)

(* The file, and the segment still to be decoded, reach no further than    *)
(* the audio that was taken: with AudioInv, exactly as far.                *)
WavPunctual ==
    writer = "PCM" /\ Believable /\ InOrder /\ sent # << >> =>
        size <= End(Len(sent)) - sent[1].at

FfmpegPunctual ==
    done > 0 /\ Believable /\ InOrder =>
        size + Ratio * Collected <= Ratio * (End(done) - sent[1].at)

Punctual ==
    /\ IsFfmpeg(writer) /\ done = 0 => size = 0
    /\ writer = "PCM" /\ sent = << >> => size = 0
    /\ WavPunctual /\ FfmpegPunctual

(* A stream in order was in order before its last packet, which was sent   *)
(* after the one before it ended.                                          *)
LEMMA TakenInOrder ==
  ASSUME TypeOK, NEW t \in Int, NEW n \in Nat, Taken(t, n), rate' = rate, InOrder'
  PROVE  InOrder /\ (Len(sent) > 0 => sent[Len(sent)].at + sent[Len(sent)].ticks <= t)
<1> DEFINE k == Len(sent)
<1>1. /\ k \in Nat /\ Len(sent') = k + 1
      /\ sent'[k + 1].at = t
      /\ \A i \in 1 .. k : sent'[i] = sent[i]
  <2>1. /\ k \in Nat /\ Len(sent') = k + 1
        /\ sent'[k + 1] = [at |-> t, ticks |-> PayloadTime(n)]
        /\ \A i \in 1 .. k : sent'[i] = sent[i]
    BY TakenSent
  <2>2. QED
    BY <2>1
<1>2. \A i \in 2 .. k + 1 : sent'[i - 1].at + sent'[i - 1].ticks <= sent'[i].at
  BY <1>1 DEF InOrder, End
<1>3. InOrder
  <2> SUFFICES ASSUME NEW i \in 2 .. k PROVE End(i - 1) <= sent[i].at
    BY DEF InOrder
  <2>1. i \in 2 .. k + 1 /\ i \in 1 .. k /\ i - 1 \in 1 .. k
    BY <1>1
  <2>2. QED
    BY <1>1, <1>2, <2>1 DEF End
<1>4. ASSUME k > 0 PROVE sent[k].at + sent[k].ticks <= t
  <2>1. k + 1 \in 2 .. k + 1 /\ (k + 1) - 1 = k /\ k \in 1 .. k
    BY <1>1, <1>4
  <2>2. sent'[k].at + sent'[k].ticks <= sent'[k + 1].at
    BY <1>2, <2>1
  <2>3. QED
    BY <1>1, <2>1, <2>2
<1>5. QED
  BY <1>3, <1>4

(* A gap is filled with no more than its length.                           *)
LEMMA SilenceFits ==
  ASSUME NEW gap \in Nat, NEW cap \in Nat
  PROVE  Silence(gap, cap) <= gap
BY DEF Silence

(* A packet of G.711 in order is written where it belongs, if at all.      *)
LEMMA WavPunctualStep ==
  ASSUME AudioInv, Punctual, NEW t \in Int, NEW n \in Nat,
         writePacket(t, n), WavPacket(t, n)
  PROVE  Punctual'
<1> DEFINE k == Len(sent)
           s == Silence(Gap(t % T), MaxGap * rate)
<1>1. TypeOK /\ Remembered
  BY DEF AudioInv
<1>2. /\ writer = "PCM" /\ writer' = "PCM" /\ done = 0
      /\ UNCHANGED <<rate, closeVars>>
  BY <1>1 DEF writePacket, WavPacket, TypeOK
<1>3. Taken(t, n) /\ Store(s, n)
  BY DEF WavPacket
<1>4. /\ k \in Nat /\ Len(sent') = k + 1
      /\ sent'[k + 1] = [at |-> t, ticks |-> n]
      /\ \A i \in 1 .. k : sent'[i] = sent[i]
      /\ Believable' => Believable
      /\ Believable' /\ k > 0 => t - sent[k].at \in -Half .. Half - 1
  <2>1. PayloadTime(n) = n
    BY <1>2 DEF PayloadTime
  <2>2. rate' = rate
    BY <1>2
  <2>3. QED
    BY <1>1, <1>3, <2>1, <2>2, TakenSent
<1>5. \A i \in 1 .. k : sent[i].at \in Int /\ sent[i].ticks \in Nat
  <2>1. sent \in Seq([at : Int, ticks : Nat])
    BY <1>1 DEF TypeOK
  <2>2. \A i \in 1 .. k : sent[i] \in [at : Int, ticks : Nat]
    BY <2>1, ElementOfSeq
  <2>3. QED
    BY <2>2
<1>6. MaxGap * rate \in Nat /\ size \in Nat
  BY <1>1, AudioAssumption DEF TypeOK
<1>7. size' = size + s + n \/ size' \in {size, size + s}
  BY <1>3 DEF Store
<1>8. WavPunctual'
  <2> SUFFICES ASSUME Believable', InOrder'
               PROVE  size' <= (sent'[k + 1].at + sent'[k + 1].ticks) - sent'[1].at
    BY <1>4 DEF WavPunctual, End
  <2>1. InOrder /\ (k > 0 => sent[k].at + sent[k].ticks <= t)
    BY <1>1, <1>2, <1>3, TakenInOrder
  <2>2. CASE k = 0
    <3>1. sent = << >>
      BY <1>1, <2>2 DEF TypeOK
    <3>2. size = 0 /\ ~haveLast
      BY <1>1, <1>2, <3>1 DEF Punctual, Remembered
    <3>3. s = 0
      BY <1>6, <3>2 DEF Gap, Silence
    <3> HIDE DEF s
    <3>4. size' <= n
      BY <1>7, <3>2, <3>3
    <3>5. sent'[k + 1].at = t /\ sent'[k + 1].ticks = n /\ sent'[1].at = t
      BY <1>4, <2>2
    <3>6. (t + n) - t = n
      OBVIOUS
    <3>7. QED
      BY <3>4, <3>5, <3>6
  <2>3. CASE k > 0
    <3> DEFINE a == sent[k].at
               d == sent[k].ticks
               f == sent[1].at
    <3>1. k \in 1 .. k /\ 1 \in 1 .. k /\ sent # << >>
      BY <1>4, <2>3
    <3>2. a \in Int /\ d \in Nat /\ f \in Int /\ a + d <= t
      BY <1>5, <2>1, <2>3, <3>1
    <3>3. size <= (a + d) - f
      BY <1>2, <1>4, <2>1, <3>1 DEF Punctual, WavPunctual, End
    <3>4. Gap(t % T) = t - a - d
      <4>1. haveLast /\ lastRTPTS = a % T /\ lastSamples = d
        BY <1>1, <1>2, <3>1 DEF Remembered
      <4>2. t - a \in -Half .. Half - 1
        BY <1>4, <2>3
      <4>3. Signed((t % T) - (a % T)) = t - a
        <5> HIDE DEF a
        <5>1. QED
          BY <3>2, <4>2, SignedIsTrue
      <4>4. QED
        BY <4>1, <4>3 DEF Gap
    <3>5. s \in Nat /\ s <= t - a - d
      <4> HIDE DEF a, d
      <4>1. t - a - d \in Nat
        BY <3>2
      <4>2. QED
        BY <1>6, <3>4, <4>1, SilenceFills, SilenceFits
    <3>6. /\ sent'[k + 1].at = t /\ sent'[k + 1].ticks = n
          /\ sent'[1].at = f
      BY <1>4, <3>1
    <3> HIDE DEF s, a, d, f
    <3>7. size' <= (t + n) - f
      <4>1. size \in Nat /\ size <= (a + d) - f
        BY <1>6, <3>3
      <4>2. size + s + n <= (t + n) - f
        BY <3>2, <3>5, <4>1
      <4>3. size <= (t + n) - f /\ size + s <= (t + n) - f
        BY <3>2, <3>5, <4>1
      <4>4. CASE size' = size + s + n
        BY <4>2, <4>4
      <4>5. CASE size' \in {size, size + s}
        BY <4>3, <4>5
      <4>6. QED
        BY <1>7, <4>4, <4>5
    <3>8. QED
      BY <3>6, <3>7
  <2>4. QED
    BY <1>4, <2>2, <2>3
<1>9. sent' # << >>
  BY <1>4
<1>10. QED
  BY <1>2, <1>8, <1>9 DEF Punctual, FfmpegPunctual, closeVars, IsFfmpeg

(* Steps that leave file, segment and history as they are.                 *)
LEMMA PunctualKept ==
  ASSUME Punctual,
         UNCHANGED <<writer, rate, sent, size, segment, done>>
  PROVE  Punctual'
BY SegmentKept DEF Punctual, WavPunctual, FfmpegPunctual, IsFfmpeg, Believable, Behind,
       InOrder, End, Ratio

(* A writer is made, or not, for a stream that has nothing yet.            *)
LEMMA OpenPunctualStep == AudioInv /\ Punctual /\ makeWriter => Punctual'
<1> SUFFICES ASSUME AudioInv, Punctual, makeWriter PROVE Punctual'
  OBVIOUS
<1>1. sent = << >> /\ size = 0 /\ done = 0 /\ UNCHANGED <<sent, size, closeVars>>
  BY DEF makeWriter, AudioInv, Remembered, TypeOK, IsFfmpeg
<1>2. done' = 0 /\ sent' = << >> /\ size' = 0
  BY <1>1 DEF Punctual, closeVars
<1>3. QED
  BY <1>2 DEF Punctual, WavPunctual, FfmpegPunctual

(* A packet of ffmpeg's waits for the close.                               *)
LEMMA FfmpegPunctualStep ==
  ASSUME AudioInv, Punctual, NEW t \in Int, NEW n \in Nat,
         writePacket(t, n), FfmpegPacket(t, n)
  PROVE  Punctual'
<1>1. /\ IsFfmpeg(writer) /\ writer' = writer /\ done = 0
      /\ UNCHANGED <<size, closeVars>>
  BY DEF writePacket, FfmpegPacket, AudioInv, TypeOK
<1>2. /\ done' = 0 /\ size' = 0 /\ writer' # "PCM"
  BY <1>1 DEF Punctual, closeVars, IsFfmpeg
<1>3. QED
  BY <1>2 DEF Punctual, WavPunctual, FfmpegPunctual

(* The first payload is collected.                                         *)
LEMMA CloseStartPunctualStep ==
  ASSUME AudioInv, Punctual, close, CloseStart
  PROVE  Punctual'
<1>1. /\ UNCHANGED <<writer, rate, frames, sent, size>>
      /\ IsFfmpeg(writer) /\ done = 0 /\ frames # << >>
      /\ done' = 1 /\ segment' = frames[1].len
  BY DEF close, CloseStart
<1>2. TypeOK /\ Remembered
  BY DEF AudioInv
<1>3. 1 \in 1 .. Len(frames)
  <2>1. frames \in Seq([rtpTS : 0 .. T - 1, len : Nat])
    BY <1>2 DEF TypeOK
  <2> HIDE DEF T
  <2>2. QED
    BY <1>1, <2>1
<1>4. /\ Collected' = sent[1].ticks /\ sent[1].ticks \in Nat /\ sent[1].at \in Int
      /\ segment' \in Nat
  BY <1>1, <1>2, <1>3, FirstCollected
<1>5. size = 0 /\ size' = 0
  BY <1>1 DEF Punctual
<1>6. FfmpegPunctual'
  <2> SUFFICES size' + Ratio' * Collected'
                  <= Ratio' * ((sent'[1].at + sent'[1].ticks) - sent'[1].at)
    BY <1>1 DEF FfmpegPunctual, End
  <2>1. Ratio' = Ratio /\ sent' = sent
    BY <1>1 DEF Ratio
  <2>2. (sent[1].at + sent[1].ticks) - sent[1].at = sent[1].ticks
    BY <1>4
  <2>3. Ratio * sent[1].ticks \in Nat /\ Ratio * 0 = 0
    BY <1>4, RatioValues
  <2>4. QED
    BY <1>4, <1>5, <2>1, <2>2, <2>3
<1>7. QED
  BY <1>1, <1>5, <1>6 DEF Punctual, WavPunctual, IsFfmpeg

(* A frame that follows without overlap, behind its gap or at once.        *)
LEMMA InItsPlace ==
  ASSUME NEW r \in {1, 2}, NEW z \in Nat, NEW g \in Nat, NEW p \in Nat,
         NEW silence \in Nat, NEW x \in Int, NEW gap \in Int, gap >= 0,
         z + r * g <= r * x, silence <= gap * r
  PROVE  /\ (z + r * g + silence) + r * p <= r * (x + gap + p)
         /\ z + r * (g + p) <= r * (x + gap + p)
<1>1. CASE r = 1
  BY <1>1
<1>2. CASE r = 2
  BY <1>2
<1>3. QED
  BY <1>1, <1>2

(* The close of a FfmpegWriter goes through a frame.                       *)
LEMMA CloseFramePunctualStep ==
  ASSUME AudioInv, Punctual, close, CloseFrame
  PROVE  Punctual'
<1> DEFINE d    == done
           prev == frames[d]
           cur  == frames[d + 1]
           gap  == Signed(cur.rtpTS - prev.rtpTS) - payloadTicks(prev.len)
           fill == Silence(gap * Ratio, MaxGap * Ratio)
           p    == sent[d + 1].ticks
<1>1. /\ UNCHANGED <<writer, rate, frames, sent>>
      /\ d \in 1 .. Len(frames) - 1 /\ done' = d + 1
  BY DEF close, CloseFrame
<1>2. TypeOK /\ Remembered
  BY DEF AudioInv
<1>3. /\ IsFfmpeg(writer) /\ writer' # "PCM"
  BY <1>1, <1>2 DEF Remembered, IsFfmpeg
<1>4. /\ d \in 1 .. Len(frames) /\ d + 1 \in 1 .. Len(frames) /\ d \in Nat
      /\ 1 \in 1 .. Len(frames) /\ d + 1 \in Nat /\ d + 1 > 0
  <2>1. frames \in Seq([rtpTS : 0 .. T - 1, len : Nat])
    BY <1>2 DEF TypeOK
  <2>2. Len(frames) \in Nat
    BY <2>1
  <2>3. QED
    BY <1>1, <2>2
<1>5. /\ sent[d].at \in Int /\ sent[d].ticks \in Nat
      /\ prev.rtpTS = sent[d].at % T /\ payloadTicks(prev.len) = sent[d].ticks
      /\ Len(sent) = Len(frames)
  BY <1>2, <1>3, <1>4, FramesAreTrue
<1>6. /\ sent[d + 1].at \in Int /\ p \in Nat
      /\ cur.rtpTS = sent[d + 1].at % T /\ PayloadTime(cur.len) = p
  <2>1. d + 1 \in 1 .. Len(frames)
    BY <1>4
  <2>2. QED
    BY <1>2, <1>3, <2>1, FramesAreTrue
<1>7. sent[1].at \in Int
  BY <1>2, <1>3, <1>4, FramesAreTrue
<1>8. /\ size \in Nat /\ Collected \in Nat /\ Ratio * Collected \in Nat
      /\ Ratio \in {1, 2} /\ Ratio' = Ratio /\ writer' = writer /\ cur.len \in Nat
  <2>1. size \in Nat /\ Collected \in Nat
    BY <1>2, PayloadNat DEF TypeOK, Collected
  <2>2. cur.len \in Nat
    BY <1>2, <1>3, <1>4, FramesAreTrue
  <2>3. QED
    BY <1>1, <2>1, <2>2, RatioValues, RatioNat DEF Ratio
<1>9. FfmpegPunctual'
  <2> DEFINE x == (sent[d].at + sent[d].ticks) - sent[1].at
             a1 == sent[d].at
             a2 == sent[d + 1].at
             q  == sent[d].ticks
             f  == sent[1].at
  <2> SUFFICES ASSUME Believable', InOrder'
               PROVE  size' + Ratio * Collected' <= Ratio * ((a2 + p) - f)
    BY <1>1, <1>8 DEF FfmpegPunctual, End
  <2>1. Believable /\ InOrder
    BY <1>1 DEF Believable, Behind, InOrder, End
  <2>2. /\ a2 - a1 \in -Half .. Half - 1 /\ a1 + q <= a2
    <3>1. d + 1 \in 2 .. Len(sent) /\ (d + 1) - 1 = d
      BY <1>1, <1>4, <1>5
    <3>2. sent[d + 1].at - sent[(d + 1) - 1].at \in -Half .. Half - 1
      BY <2>1, <3>1 DEF Believable, Behind
    <3>3. sent[(d + 1) - 1].at + sent[(d + 1) - 1].ticks <= sent[d + 1].at
      BY <2>1, <3>1 DEF InOrder, End
    <3>4. QED
      BY <3>1, <3>2, <3>3
  <2>3. gap = (a2 - a1) - q
    <3>1. Signed((a2 % T) - (a1 % T)) = a2 - a1
      <4> HIDE DEF a1, a2
      <4>1. a1 \in Int /\ a2 \in Int
        BY <1>5, <1>6 DEF a1, a2
      <4>2. QED
        BY <2>2, <4>1, SignedIsTrue
    <3>2. QED
      BY <1>5, <1>6, <3>1
  <2>4. size + Ratio * Collected <= Ratio * x
    BY <1>4, <2>1 DEF Punctual, FfmpegPunctual, End
  <2>5. /\ x \in Int /\ gap \in Nat /\ (a2 + p) - f = x + gap + p
    <3>1. /\ a1 \in Int /\ a2 \in Int /\ q \in Nat /\ f \in Int /\ p \in Nat
          /\ x = (a1 + q) - f
      BY <1>5, <1>6, <1>7
    <3> HIDE DEF gap, a1, a2, q, f, p, x
    <3>2. QED
      BY <2>2, <2>3, <3>1
  <2>6. fill \in Nat /\ fill <= gap * Ratio
    <3> HIDE DEF gap
    <3>1. gap * Ratio \in Nat /\ MaxGap * Ratio \in Nat
      BY <1>8, <2>5, AudioAssumption
    <3>2. QED
      BY <3>1, SilenceFills, SilenceFits
  <2>7. /\ (size + Ratio * Collected + fill) + Ratio * p <= Ratio * (x + gap + p)
        /\ size + Ratio * (Collected + p) <= Ratio * (x + gap + p)
    <3> HIDE DEF gap, fill, p, x
    <3>1. gap \in Int /\ gap >= 0
      BY <2>5
    <3>2. QED
      BY <1>6, <1>8, <2>4, <2>5, <2>6, <3>1, InItsPlace
  <2>8. Ratio * p \in Nat
    BY <1>6, RatioNat
  <2> DEFINE y == Ratio * ((a2 + p) - f)
             w == Ratio * p
             g == Ratio * Collected
  <2>9. y \in Int /\ w \in Nat /\ g \in Nat /\ y = Ratio * (x + gap + p)
    <3> HIDE DEF gap, x, p, a2, f
    <3>1. x + gap + p \in Int
      BY <1>6, <2>5
    <3>2. QED
      BY <1>8, <2>5, <2>8, <3>1
  <2>10. CASE gap > 0
    <3>1. PICK samples \in Decodings : Flushed(samples) /\ Store(samples, fill)
      BY <2>10 DEF CloseFrame
    <3>2. segment' = cur.len
      BY <2>10 DEF CloseFrame
    <3>3. Collected' = p
      BY <1>6, <1>8, <3>2 DEF Collected, PayloadTime
    <3>4. size' \in Nat /\ size' <= size + Ratio * Collected + fill
      <4> HIDE DEF gap, fill, cur, prev
      <4> QED
        BY <1>2, <2>6, <3>1, SegmentStored
    <3>5. (size + g + fill) + w <= y /\ size' <= size + g + fill
      BY <2>7, <2>9, <3>4
    <3>6. size \in Nat /\ fill \in Nat
      BY <1>8, <2>6
    <3> HIDE DEF y, w, g, fill, gap, x, p, a2, f
    <3>7. size' + w <= y
      BY <2>9, <3>4, <3>5, <3>6
    <3> QED
      BY <3>3, <3>7 DEF y, w
  <2>11. CASE ~(gap > 0)
    <3>1. Collect(cur.len) /\ size' = size
      BY <2>11 DEF CloseFrame
    <3>2. Collected' \in Nat /\ Collected' <= Collected + p
      <4> HIDE DEF gap, fill, cur, prev
      <4>1. Collected' \in Nat /\ Collected' <= Collected + PayloadTime(cur.len)
        BY <1>2, <1>8, <3>1, PayloadCollected
      <4> QED
        BY <1>6, <4>1
    <3>3. PICK h : h = Collected'
      OBVIOUS
    <3>4. size + Ratio * (Collected + p) <= y
      BY <2>7, <2>9
    <3> HIDE DEF y, w, g, fill, gap, x, p, a2, f
    <3>5. Collected + p \in Nat /\ h \in Nat /\ h <= Collected + p
      BY <1>6, <1>8, <3>2, <3>3
    <3>6. Ratio * h <= Ratio * (Collected + p)
      BY <3>5, RatioGrows
    <3>7. Ratio * h \in Nat /\ Ratio * (Collected + p) \in Nat
      BY <3>5, RatioNat
    <3>8. size + Ratio * h <= y
      BY <1>8, <2>9, <3>4, <3>6, <3>7
    <3> QED
      BY <3>1, <3>3, <3>8 DEF y
  <2>12. QED
    BY <2>10, <2>11
<1>10. done' # 0 /\ done' > 0
  BY <1>1, <1>4
<1>11. QED
  BY <1>3, <1>9, <1>10 DEF Punctual, WavPunctual

(* The last segment is decoded, or refused, or cannot be written.          *)
LEMMA CloseEndPunctualStep ==
  ASSUME AudioInv, Punctual, close, CloseEnd
  PROVE  Punctual'
<1>1. /\ UNCHANGED <<writer, rate, frames, sent>> /\ writer' = writer
      /\ done > 0 /\ done' = done /\ segment' = 0
  BY DEF close, CloseEnd
<1>2. TypeOK /\ Remembered
  BY DEF AudioInv
<1>3. /\ size \in Nat /\ Collected \in Nat /\ done \in Nat
      /\ Ratio * Collected \in Nat /\ Ratio' = Ratio /\ Collected' = 0
  <2>1. frames \in Seq([rtpTS : 0 .. T - 1, len : Nat]) /\ done \in 0 .. Len(frames)
    BY <1>2 DEF TypeOK
  <2>2. Len(frames) \in Nat
    BY <2>1
  <2>3. size \in Nat /\ Collected \in Nat /\ done \in Nat
    <3>1. size \in Nat /\ segment \in Nat
      BY <1>2 DEF TypeOK
    <3> QED
      BY <2>1, <2>2, <3>1, PayloadNat DEF Collected
  <2>4. Collected' = 0
    BY <1>1, PayloadOfNothing DEF Collected, PayloadTime
  <2>5. QED
    BY <1>1, <2>3, <2>4, RatioNat DEF Ratio
<1>4. PICK samples \in Decodings, bad \in BOOLEAN :
         /\ Flushed(samples)
         /\ size' = size + (IF broken \/ bad THEN 0 ELSE samples)
  BY DEF CloseEnd
<1>5. samples \in Nat /\ samples <= Ratio * Collected
  BY <1>2, <1>4, SegmentDecoded
<1>6. size' \in Nat /\ Ratio * Collected' = 0
  BY <1>3, <1>4, <1>5, RatioValues
<1>7. size' + Ratio * Collected' <= size + Ratio * Collected
  BY <1>3, <1>4, <1>5, <1>6
<1>8. FfmpegPunctual'
  <2> SUFFICES ASSUME Believable', InOrder'
               PROVE  size' + Ratio * Collected'
                         <= Ratio * (End(done) - sent[1].at)
    BY <1>1, <1>3 DEF FfmpegPunctual, End
  <2>1. Believable /\ InOrder
    BY <1>1 DEF Believable, Behind, InOrder, End
  <2>2. size + Ratio * Collected <= Ratio * (End(done) - sent[1].at)
    BY <1>1, <2>1 DEF Punctual, FfmpegPunctual
  <2>3. End(done) \in Int /\ sent[1].at \in Int
    <3>1. done \in 1 .. Len(frames) /\ 1 \in 1 .. Len(frames) /\ IsFfmpeg(writer)
      BY <1>1, <1>2, <1>3 DEF TypeOK, Remembered
    <3>2. QED
      BY <1>2, <3>1, FramesAreTrue DEF End
  <2> DEFINE y == Ratio * (End(done) - sent[1].at)
             a == size' + Ratio * Collected'
             b == size + Ratio * Collected
  <2>4. a \in Nat /\ b \in Nat /\ y \in Int /\ a <= b /\ b <= y
    <3>1. a \in Nat
      BY <1>3, <1>4, <1>6
    <3>2. End(done) - sent[1].at \in Int
      BY <2>3
    <3>3. y \in Int
      <4> DEFINE e == End(done) - sent[1].at
      <4>1. e \in Int
        BY <3>2
      <4> HIDE DEF e
      <4>2. Ratio * e \in Int
        BY <4>1, RatioValues
      <4>3. QED
        BY <4>2 DEF e
    <3>4. QED
      BY <1>3, <1>7, <2>2, <3>1, <3>3
  <2> HIDE DEF y, a, b
  <2>5. a <= y
    BY <2>4
  <2>6. QED
    BY <2>5 DEF y, a
<1>9. done' # 0 /\ writer' # "PCM"
  BY <1>1, <1>2, <1>3 DEF Remembered, IsFfmpeg
<1>10. QED
  BY <1>8, <1>9 DEF Punctual, WavPunctual

(* Every step.                                                             *)
LEMMA PunctualStep == AudioInv /\ Punctual /\ [Next]_vars => Punctual'
<1> SUFFICES ASSUME AudioInv, Punctual, [Next]_vars PROVE Punctual'
  OBVIOUS
<1>1. CASE makeWriter
  BY <1>1, OpenPunctualStep
<1>2. CASE Remap
  BY <1>2, PunctualKept DEF Remap, closeVars, fileVars
<1>3. CASE close
  <2>1. CASE WavClose \/ CloseEmpty
    <3>1. UNCHANGED <<writer, rate, sent, size, segment, done>>
      BY <1>3, <2>1 DEF close, WavClose, CloseEmpty, closeVars, fileVars
    <3>2. QED
      BY <3>1, PunctualKept
  <2>2. QED
    BY <1>3, <2>1, CloseStartPunctualStep, CloseFramePunctualStep,
       CloseEndPunctualStep DEF close
<1>4. ASSUME NEW e \in Jumps, NEW n \in Lens, writePacket(clock + e, n)
      PROVE  Punctual'
  <2>1. clock + e \in Int /\ n \in Nat
    BY AudioAssumption DEF AudioInv, TypeOK
  <2>2. CASE NoAudio(n)
    <3>1. UNCHANGED <<writer, rate, sent, size, segment, done>>
      BY <1>4, <2>2 DEF writePacket, NoAudio, closeVars
    <3>2. QED
      BY <3>1, PunctualKept
  <2>3. WavPacket(clock + e, n) \/ FfmpegPacket(clock + e, n) \/ NoAudio(n)
    BY <1>4 DEF writePacket
  <2>4. QED
    BY <1>4, <2>1, <2>2, <2>3, WavPunctualStep, FfmpegPunctualStep
<1>5. CASE UNCHANGED vars
  BY <1>5, PunctualKept DEF vars, closeVars, fileVars
<1>6. QED
  BY <1>1, <1>2, <1>3, <1>4, <1>5 DEF Next

(* A stream whose packets come in order, and are decoded without mishap,   *)
(* plays in real time, to the sample: AudioInv bounds the length of the    *)
(* file from below, Punctual, whatever goes wrong, from above.             *)
THEOREM AudioInRealTime == Spec => []InRealTime
<1>1. Init => Punctual
  BY DEF Init, Punctual, WavPunctual, FfmpegPunctual
<1>2. Spec => []Punctual
  <2>1. Init => AudioInv
    BY AudioInit
  <2>2. AudioInv /\ Punctual /\ [Next]_vars => (AudioInv /\ Punctual)'
    BY AudioStep, PunctualStep
  <2>3. QED
    BY <1>1, <2>1, <2>2, PTL DEF Spec
<1>3. AudioInv /\ Punctual => InRealTime
  <2> SUFFICES ASSUME AudioInv, Punctual, Complete, Believable, InOrder, sent # << >>, mishaps = {}
               PROVE  size = Ratio * (End(Len(sent)) - sent[1].at)
    BY DEF InRealTime, Orderly, LastsAsLong
  <2>1. TypeOK /\ Remembered /\ HeaderLast
    BY DEF AudioInv
  <2>2. Len(sent) \in 1 .. Len(sent) /\ 1 \in 1 .. Len(sent)
    <3>1. sent \in Seq([at : Int, ticks : Nat])
      BY <2>1 DEF TypeOK
    <3>2. QED
      BY <3>1
  <2> DEFINE e == End(Len(sent)) - sent[1].at
  <2>3. e \in Int
    <3>1. sent \in Seq([at : Int, ticks : Nat])
      BY <2>1 DEF TypeOK
    <3>2. /\ sent[Len(sent)] \in [at : Int, ticks : Nat]
          /\ sent[1] \in [at : Int, ticks : Nat]
      BY <2>2, <3>1, ElementOfSeq
    <3>3. QED
      BY <3>2 DEF End
  <2>4. size >= Ratio * e
    BY <2>2, NotAcceleratedHere DEF NotAccelerated
  <2>5. size <= Ratio * e
    <3>1. CASE writer = "PCM"
      <4>1. size <= e /\ Ratio = 1
        BY <3>1 DEF Punctual, WavPunctual, Ratio
      <4> HIDE DEF e
      <4>3. QED
        BY <2>1, <2>3, <4>1 DEF TypeOK
    <3>2. CASE IsFfmpeg(writer)
      <4>1. closed /\ header \in {"data", "sized"}
        BY <3>2 DEF Complete, IsFfmpeg
      <4>2. done = Len(sent) /\ Collected = 0 /\ done > 0
        BY <2>1, <2>2, <3>2, <4>1, PayloadOfNothing DEF HeaderLast, Remembered, Collected
      <4>3. size + Ratio * Collected <= Ratio * e
        BY <4>2 DEF Punctual, FfmpegPunctual
      <4>4. size + Ratio * Collected = size
        BY <2>1, <4>2, RatioValues DEF TypeOK
      <4>5. QED
        BY <4>3, <4>4
    <3>3. CASE writer \in {"unopened", "none"}
      BY <2>1, <3>3 DEF Remembered
    <3>4. QED
      BY <2>1, <3>1, <3>2, <3>3 DEF TypeOK, IsFfmpeg
  <2>6. size \in Nat /\ Ratio * e \in Int
    <3> HIDE DEF e
    <3>1. QED
      BY <2>1, <2>3, RatioValues, RatioNat DEF TypeOK
  <2> HIDE DEF e
  <2>7. size = Ratio * e
    BY <2>4, <2>5, <2>6
  <2>8. QED
    BY <2>7 DEF e
<1>4. QED
  BY <1>2, <1>3, AudioInvariant, PTL

-----------------------------------------------------------------------------
(* The length of the file is bounded by the audio and one longest silence  *)
(* for each packet but the first.                                          *)

Packets          == Seq([at : Int, ticks : Nat])
Part(q, cap, i)  == q[i].ticks + (IF i = 1 THEN 0 ELSE cap)
Alone(q, cap)    == [i \in DOMAIN q |-> Part(q, cap, i)]
Reach(q, cap, k) == SumFunctionOnSet(Alone(q, cap), 1 .. k)

Bounded ==
    /\ writer = "PCM" => size <= Reach(sent, MaxGap * rate, Len(sent))
    /\ done > 0 => size + Ratio * Collected <= Ratio * Reach(sent, MaxGap * rate, done)
    /\ writer # "PCM" /\ done = 0 => size = 0

(* A packet adds its audio, and a silence before it.                       *)
LEMMA PartNat ==
  ASSUME NEW q \in Packets, NEW cap \in Nat, NEW i \in 1 .. Len(q)
  PROVE  /\ q[i].ticks \in Nat /\ Part(q, cap, i) \in Nat
         /\ i \in DOMAIN q /\ Len(q) \in Nat
<1>1. q[i] \in [at : Int, ticks : Nat]
  BY ElementOfSeq DEF Packets
<1>2. q[i].ticks \in Nat
  BY <1>1
<1>3. i \in DOMAIN q /\ Len(q) \in Nat
  BY DEF Packets
<1> QED
  BY <1>2, <1>3 DEF Part

(* The reach is a length, from nothing.                                    *)
LEMMA ReachNat ==
  ASSUME NEW q \in Packets, NEW cap \in Nat, NEW k \in Nat, k <= Len(q)
  PROVE  Reach(q, cap, k) \in Nat /\ Reach(q, cap, 0) = 0
<1> DEFINE f == Alone(q, cap)
           S == 1 .. k
<1>1. IsFiniteSet(S)
  BY FS_Interval
<1>2. \A i \in S : f[i] \in Nat
  <2>1. Len(q) \in Nat
    BY DEF Packets
  <2>2. \A i \in S : i \in 1 .. Len(q)
    BY <2>1
  <2> QED
    BY Zenon, <2>2, PartNat DEF Alone
<1>3. SumFunctionOnSet(f, S) \in Nat
  <2> HIDE DEF f, S
  <2> QED
    BY <1>1, <1>2, SumType
<1>4. Reach(q, cap, 0) = 0
  <2>1. 1 .. 0 = {}
    OBVIOUS
  <2> HIDE DEF f
  <2> QED
    BY <2>1, SumEmpty DEF Reach
<1> QED
  BY <1>3, <1>4 DEF Reach

(* The reach of one packet more.                                           *)
LEMMA ReachStep ==
  ASSUME NEW q \in Packets, NEW cap \in Nat, NEW k \in Nat, k < Len(q)
  PROVE  Reach(q, cap, k + 1) = Reach(q, cap, k) + Part(q, cap, k + 1)
<1> DEFINE f == Alone(q, cap)
           S == 1 .. k
<1>1. /\ \A i \in S \cup {k + 1} : i \in 1 .. Len(q)
      /\ k + 1 \notin S /\ 1 .. k + 1 = S \cup {k + 1}
  <2>1. Len(q) \in Nat
    BY DEF Packets
  <2> QED
    BY <2>1
<1>2. IsFiniteSet(S)
  BY FS_Interval
<1>3. \A i \in S \cup {k + 1} : f[i] = Part(q, cap, i) /\ f[i] \in Nat
  <2> HIDE DEF S
  <2> QED
    BY Zenon, <1>1, PartNat DEF Alone
<1>4. SumFunctionOnSet(f, S \cup {k + 1}) = SumFunctionOnSet(f, S) + f[k + 1]
  <2>1. \A i \in S \cup {k + 1} : f[i] \in Int
    BY <1>3
  <2> HIDE DEF S, f
  <2> QED
    BY <1>1, <1>2, <2>1, SumAdd
<1> HIDE DEF f
<1> QED
  BY Zenon, <1>1, <1>3, <1>4 DEF Reach, f

(* A packet that is taken later changes nothing of it.                     *)
LEMMA ReachSame ==
  ASSUME NEW q \in Packets, NEW cap \in Nat, NEW k \in Nat, k <= Len(q),
         NEW r \in Packets, Len(r) = Len(q) + 1,
         \A i \in 1 .. Len(q) : r[i] = q[i]
  PROVE  Reach(r, cap, k) = Reach(q, cap, k)
<1>1. IsFiniteSet(1 .. k)
  BY FS_Interval
<1>2. \A i \in 1 .. k : i \in 1 .. Len(q) /\ i \in DOMAIN q /\ i \in DOMAIN r
  <2>1. PICK n, m : n = Len(q) /\ m = Len(r)
    OBVIOUS
  <2>2. n \in Nat /\ m = n + 1 /\ DOMAIN q = 1 .. n /\ DOMAIN r = 1 .. m
    BY <2>1 DEF Packets
  <2>3. \A i \in 1 .. k : i \in 1 .. n /\ i \in 1 .. m
    BY <2>1, <2>2
  <2> QED
    BY Zenon, <2>1, <2>2, <2>3
<1>3. \A i \in 1 .. k : Alone(r, cap)[i] = Alone(q, cap)[i]
  BY Zenon, <1>2 DEF Alone, Part
<1> DEFINE f == Alone(q, cap)
           e == Alone(r, cap)
           S == 1 .. k
<1>4. IsFiniteSet(S) /\ \A i \in S : e[i] = f[i]
  BY <1>1, <1>3
<1> HIDE DEF f, e, S
<1>5. SumFunctionOnSet(e, S) = SumFunctionOnSet(f, S)
  BY <1>4, SumSame
<1> QED
  BY <1>5 DEF Reach, f, e, S

(* The more packets, the further.                                          *)
LEMMA ReachGrows ==
  ASSUME NEW q \in Packets, NEW cap \in Nat, NEW k \in Nat, k <= Len(q)
  PROVE  Reach(q, cap, k) <= Reach(q, cap, Len(q))
<1> DEFINE G == {n \in Nat : k + n <= Len(q) => Reach(q, cap, k) <= Reach(q, cap, k + n)}
<1>1. 0 \in G
  <2>1. k + 0 = k /\ Reach(q, cap, k) \in Nat
    BY ReachNat
  <2> QED
    BY <2>1
<1>2. ASSUME NEW n \in Nat, n \in G
      PROVE  n + 1 \in G
  <2> SUFFICES ASSUME k + (n + 1) <= Len(q)
               PROVE  Reach(q, cap, k) <= Reach(q, cap, k + (n + 1))
    OBVIOUS
  <2> DEFINE m == k + n
  <2>1. Len(q) \in Nat
    BY DEF Packets
  <2>2. m \in Nat /\ m <= Len(q) /\ m < Len(q) /\ k + (n + 1) = m + 1 /\ m + 1 \in 1 .. Len(q)
    BY <2>1
  <2>3. Reach(q, cap, k) <= Reach(q, cap, m)
    BY <1>2, <2>2
  <2> HIDE DEF m
  <2>4. Reach(q, cap, k) \in Nat /\ Reach(q, cap, m) \in Nat
    BY <2>2, ReachNat
  <2>5. Reach(q, cap, m + 1) = Reach(q, cap, m) + Part(q, cap, m + 1)
    BY <2>2, ReachStep
  <2>6. Part(q, cap, m + 1) \in Nat
    BY <2>2, PartNat
  <2>7. Reach(q, cap, k) <= Reach(q, cap, m + 1)
    BY <2>3, <2>4, <2>5, <2>6
  <2> QED
    BY <2>2, <2>7
<1>3. Len(q) - k \in Nat /\ k + (Len(q) - k) = Len(q)
  <2>1. Len(q) \in Nat
    BY DEF Packets
  <2> QED
    BY <2>1
<1>4. Len(q) - k \in G
  <2> HIDE DEF G
  <2> QED
    BY <1>1, <1>2, <1>3, NumberInduction
<1> QED
  BY <1>3, <1>4

(* Natural numbers are closed under multiplication.                        *)
LEMMA ProductNat ==
  ASSUME NEW a \in Nat, NEW b \in Nat
  PROVE  a * b \in Nat
OBVIOUS

(* Silence is never longer than the cap.                                   *)
LEMMA SilenceCapped ==
  ASSUME NEW gap \in Int, NEW cap \in Nat
  PROVE  Silence(gap, cap) <= cap
BY DEF Silence

(* What the bound is stated about.                                         *)
LEMMA Bounds ==
  ASSUME AudioInv
  PROVE  /\ sent \in Packets /\ Len(sent) \in Nat
         /\ MaxGap * rate \in Nat /\ size \in Nat /\ Collected \in Nat
         /\ segment \in Nat /\ mishaps \subseteq Mishaps
         /\ Ratio \in {1, 2} /\ (writer = "PCM" => Ratio = 1)
<1>1. /\ sent \in Packets /\ size \in Nat /\ segment \in Nat /\ rate \in Nat
      /\ mishaps \subseteq Mishaps
  BY DEF AudioInv, TypeOK, Packets, Mishaps
<1>2. MaxGap * rate \in Nat
  BY <1>1, AudioAssumption
<1>3. Collected \in Nat
  BY <1>1, PayloadNat DEF Collected
<1> QED
  BY <1>1, <1>2, <1>3, RatioValues DEF Ratio, Packets

(* Steps that leave file, segment and history as they are.                 *)
LEMMA BoundedKept ==
  ASSUME Bounded, UNCHANGED <<writer, rate, sent, size, segment, done>>
  PROVE  Bounded'
BY SegmentKept DEF Bounded, Ratio

(* A packet of G.711 adds itself and no more than the longest silence.     *)
LEMMA WavBoundedStep ==
  ASSUME AudioInv, Bounded, NEW t \in Int, NEW n \in Nat,
         writePacket(t, n), WavPacket(t, n)
  PROVE  Bounded'
<1> DEFINE k == Len(sent)
           s == Silence(Gap(t % T), MaxGap * rate)
           c == MaxGap * rate
<1>1. TypeOK /\ Remembered
  BY DEF AudioInv
<1>2. /\ writer = "PCM" /\ writer' = "PCM" /\ done = 0 /\ done' = 0 /\ rate' = rate
  BY <1>1 DEF writePacket, WavPacket, TypeOK, closeVars
<1>3. Taken(t, n) /\ Store(s, n)
  BY DEF WavPacket
<1>4. /\ k \in Nat /\ Len(sent') = k + 1
      /\ sent' \in Packets
      /\ sent'[k + 1] = [at |-> t, ticks |-> n]
      /\ \A i \in 1 .. k : sent'[i] = sent[i]
  <2>1. PayloadTime(n) = n
    BY <1>2 DEF PayloadTime
  <2> QED
    BY <1>1, <1>2, <1>3, <2>1, TakenSent DEF Packets
<1>5. c \in Nat /\ size \in Nat /\ sent \in Packets
  BY Bounds
<1>6. s \in Nat /\ s <= c /\ (k = 0 => s = 0)
  <2>1. Gap(t % T) \in Int
    <3>1. haveLast => Signed((t % T) - lastRTPTS) \in Int /\ lastSamples \in Nat
      <4>1. t % T \in Int /\ lastRTPTS \in Int /\ lastSamples \in Nat
        <5>1. T \in Nat
          BY AudioAssumption
        <5> HIDE DEF T
        <5>2. lastRTPTS \in 0 .. T - 1 /\ lastSamples \in Nat
          BY <1>1 DEF TypeOK
        <5> QED
          BY <5>1, <5>2, SignedInt
      <4>2. (t % T) - lastRTPTS \in Int
        BY <4>1
      <4> QED
        BY <4>1, <4>2, SignedInt
    <3> QED
      BY <3>1 DEF Gap
  <2>2. k = 0 => ~haveLast
    BY <1>1, <1>2 DEF Remembered
  <2>3. k = 0 => Gap(t % T) = 0
    BY <2>2 DEF Gap
  <2>4. s \in Nat /\ s <= c
    BY <1>5, <2>1, SilenceFills, SilenceCapped
  <2>5. Silence(0, c) = 0
    BY DEF Silence
  <2> QED
    BY <2>3, <2>4, <2>5
<1>7. size' \in {size, size + s, size + s + n}
  BY <1>3 DEF Store
<1>8. size <= Reach(sent, c, k)
  BY <1>2 DEF Bounded
<1> HIDE DEF s, c
<1>9. /\ Reach(sent, c, k) \in Nat
      /\ k = 0 => Reach(sent, c, k) = 0
      /\ Reach(sent', c, k + 1) = Reach(sent, c, k) + (n + (IF k = 0 THEN 0 ELSE c))
  <2>1. PICK q, r : q = sent /\ r = sent'
    OBVIOUS
  <2>2. /\ q \in Packets /\ r \in Packets
        /\ k = Len(q) /\ Len(r) = Len(q) + 1 /\ \A i \in 1 .. Len(q) : r[i] = q[i]
        /\ r[k + 1].ticks = n /\ k < Len(r) /\ k <= Len(q) /\ (k + 1 = 1 <=> k = 0)
    BY <1>4, <1>5, <2>1
  <2> HIDE DEF k
  <2>3. Reach(q, c, k) \in Nat /\ Reach(q, c, 0) = 0
    BY <1>4, <1>5, <2>2, ReachNat
  <2>4. Reach(r, c, k) = Reach(q, c, k)
    BY <1>4, <1>5, <2>2, ReachSame
  <2>5. Reach(r, c, k + 1) = Reach(r, c, k) + Part(r, c, k + 1)
    BY <1>4, <1>5, <2>2, ReachStep
  <2>6. Part(r, c, k + 1) = n + (IF k = 0 THEN 0 ELSE c)
    BY <2>2 DEF Part
  <2> QED
    BY Zenon, <2>1, <2>3, <2>4, <2>5, <2>6
<1>10. size' <= Reach(sent', c, Len(sent'))
  <2>1. PICK m : m = Reach(sent, c, k)
    OBVIOUS
  <2> HIDE DEF k
  <2>2. /\ m \in Nat /\ size <= m /\ (k = 0 => m = 0)
        /\ Reach(sent', c, k + 1) = m + (n + (IF k = 0 THEN 0 ELSE c))
    BY <1>8, <1>9, <2>1
  <2>3. size' <= m + (n + (IF k = 0 THEN 0 ELSE c))
    BY <1>5, <1>6, <1>7, <2>2
  <2> QED
    BY Zenon, <1>4, <2>2, <2>3
<1> QED
  BY <1>2, <1>10 DEF Bounded, c

(* The first payload is collected.                                         *)
LEMMA CloseStartBoundedStep ==
  ASSUME AudioInv, Bounded, close, CloseStart
  PROVE  Bounded'
<1> DEFINE c == MaxGap * rate
<1>1. /\ UNCHANGED <<writer, rate, frames, sent, size>>
      /\ IsFfmpeg(writer) /\ done = 0 /\ frames # << >>
      /\ done' = 1 /\ segment' = frames[1].len
  BY DEF close, CloseStart
<1>2. TypeOK /\ Remembered
  BY DEF AudioInv
<1>3. 1 \in 1 .. Len(frames)
  <2>1. frames \in Seq([rtpTS : 0 .. T - 1, len : Nat])
    BY <1>2 DEF TypeOK
  <2> HIDE DEF T
  <2>2. QED
    BY <1>1, <2>1
<1>4. Collected' = sent[1].ticks /\ sent[1].ticks \in Nat /\ 0 < Len(sent)
  <2>1. Collected' = sent[1].ticks /\ sent[1].ticks \in Nat
    BY <1>1, <1>2, <1>3, FirstCollected
  <2>2. 0 < Len(sent)
    BY <1>1, <1>2, <1>3, FramesAreTrue
  <2> QED
    BY <2>1, <2>2
<1>5. size = 0 /\ size' = 0 /\ writer' # "PCM" /\ Ratio' = Ratio
  BY <1>1 DEF Bounded, IsFfmpeg, Ratio
<1>6. c \in Nat /\ sent \in Packets /\ Ratio \in {1, 2}
  BY Bounds
<1> HIDE DEF c
<1>7. Reach(sent, c, 1) = sent[1].ticks
  <2>1. 0 \in Nat /\ 0 <= Len(sent) /\ 0 + 1 = 1
    BY <1>4
  <2>2. Reach(sent, c, 0) = 0
    BY <1>6, <2>1, ReachNat
  <2>3. Reach(sent, c, 0 + 1) = Reach(sent, c, 0) + Part(sent, c, 0 + 1)
    BY <1>4, <1>6, ReachStep
  <2>4. Part(sent, c, 0 + 1) = sent[1].ticks
    BY <1>4 DEF Part
  <2> QED
    BY <1>4, <2>1, <2>2, <2>3, <2>4
<1>8. Ratio * sent[1].ticks \in Nat
  BY <1>4, RatioNat
<1>9. size' + Ratio' * Collected' <= Ratio' * Reach(sent', c, done')
  BY <1>1, <1>4, <1>5, <1>7, <1>8
<1> QED
  BY <1>1, <1>5, <1>9 DEF Bounded, c

(* A frame behind a gap, and one that follows the frame before.            *)
LEMMA WithinReach ==
  ASSUME NEW r \in {1, 2}, NEW z \in Nat, NEW g \in Nat, NEW p \in Nat, NEW c \in Nat,
         NEW x \in Nat, NEW y \in Nat, z + r * g <= r * x, y = x + (p + c),
         NEW z1 \in Nat, NEW g1 \in Nat,
         \/ z1 <= z + r * g + r * c /\ g1 = p
         \/ z1 = z /\ g1 <= g + p
  PROVE  z1 + r * g1 <= r * y
<1>1. CASE r = 1
  BY <1>1
<1>2. CASE r = 2
  BY <1>2
<1>3. QED
  BY <1>1, <1>2

(* The close of a FfmpegWriter goes through a frame.                       *)
LEMMA CloseFrameBoundedStep ==
  ASSUME AudioInv, Bounded, close, CloseFrame
  PROVE  Bounded'
<1> DEFINE d    == done
           prev == frames[d]
           cur  == frames[d + 1]
           gap  == Signed(cur.rtpTS - prev.rtpTS) - payloadTicks(prev.len)
           fill == Silence(gap * Ratio, MaxGap * Ratio)
           c    == MaxGap * rate
           p    == sent[d + 1].ticks
<1>1. /\ UNCHANGED <<writer, rate, frames, sent>>
      /\ d \in 1 .. Len(frames) - 1 /\ done' = d + 1
  BY DEF close, CloseFrame
<1>2. TypeOK /\ Remembered
  BY DEF AudioInv
<1>3. IsFfmpeg(writer) /\ rate = 1 /\ writer' # "PCM" /\ Ratio' = Ratio
  BY <1>1, <1>2 DEF Remembered, IsFfmpeg, Ratio
<1>4. d \in 1 .. Len(frames) /\ d + 1 \in 1 .. Len(frames) /\ d \in Nat /\ d > 0
  <2>1. frames \in Seq([rtpTS : 0 .. T - 1, len : Nat])
    BY <1>2 DEF TypeOK
  <2>2. Len(frames) \in Nat
    BY <2>1
  <2>3. QED
    BY <1>1, <2>2
<1>5. /\ sent[d].at \in Int /\ sent[d].ticks \in Nat /\ Len(sent) = Len(frames)
      /\ prev.rtpTS = sent[d].at % T /\ payloadTicks(prev.len) = sent[d].ticks
  BY <1>2, <1>3, <1>4, FramesAreTrue
<1>6. /\ sent[d + 1].at \in Int /\ p \in Nat
      /\ cur.rtpTS = sent[d + 1].at % T /\ PayloadTime(cur.len) = p
  <2>1. d + 1 \in 1 .. Len(frames)
    BY <1>4
  <2>2. QED
    BY <1>2, <1>3, <2>1, FramesAreTrue
<1>7. /\ size \in Nat /\ Collected \in Nat /\ Ratio \in {1, 2} /\ c \in Nat /\ c = MaxGap
      /\ MaxGap * Ratio = Ratio * c /\ Ratio * Collected \in Nat /\ Ratio * c \in Nat
      /\ sent \in Packets
  <2>1. /\ size \in Nat /\ Collected \in Nat /\ Ratio \in {1, 2} /\ c \in Nat /\ sent \in Packets
    BY Bounds
  <2>2. MaxGap \in Nat
    BY AudioAssumption
  <2>3. c = MaxGap
    BY <1>3, <2>2
  <2> HIDE DEF c
  <2>4. MaxGap * Ratio = Ratio * MaxGap
    BY <2>1, <2>2
  <2>5. Ratio * Collected \in Nat /\ Ratio * c \in Nat
    BY <2>1, RatioNat
  <2> QED
    BY Zenon, <2>1, <2>3, <2>4, <2>5
<1>8. gap \in Int /\ gap * Ratio \in Int
  <2>1. gap \in Int
    <3>1. (sent[d + 1].at % T) - (sent[d].at % T) \in Int
      <4>1. sent[d + 1].at % T \in 0 .. T - 1 /\ sent[d].at % T \in 0 .. T - 1
        BY <1>5, <1>6, SignedInt
      <4>2. T \in Nat
        BY AudioAssumption
      <4> HIDE DEF T
      <4> QED
        BY <4>1, <4>2
    <3>2. Signed(cur.rtpTS - prev.rtpTS) \in Int
      BY <1>5, <1>6, <3>1, SignedInt
    <3> QED
      BY <1>5, <3>2
  <2> HIDE DEF gap
  <2> QED
    BY <1>7, <2>1
<1>9. fill \in Nat /\ fill <= Ratio * c
  <2>1. MaxGap * Ratio \in Nat
    BY <1>7
  <2>2. \A g \in Int, cap \in Nat : Silence(g, cap) \in Nat /\ Silence(g, cap) <= cap
    BY SilenceFills, SilenceCapped
  <2> HIDE DEF gap, c
  <2>3. fill \in Nat /\ fill <= MaxGap * Ratio
    BY Zenon, <1>8, <2>1, <2>2
  <2> QED
    BY Zenon, <1>7, <2>3
<1>10. /\ size' \in Nat /\ Collected' \in Nat
       /\ \/ size' <= size + Ratio * Collected + Ratio * c /\ Collected' = p
          \/ size' = size /\ Collected' <= Collected + p
  <2>1. cur.len \in Nat /\ writer' = writer
    <3>1. d + 1 \in 1 .. Len(frames)
      BY <1>4
    <3> QED
      BY <1>1, <1>2, <1>3, <3>1, FramesAreTrue
  <2>2. CASE gap > 0
    <3>1. PICK samples \in Decodings : Flushed(samples) /\ Store(samples, fill)
      BY <2>2 DEF CloseFrame
    <3>2. segment' = cur.len
      BY <2>2 DEF CloseFrame
    <3>3. Collected' = p
      BY <1>6, <2>1, <3>2 DEF Collected, PayloadTime
    <3> HIDE DEF gap, fill, cur, prev, p, c
    <3>4. size' \in Nat /\ size' <= size + Ratio * Collected + fill
      BY <1>2, <1>9, <3>1, SegmentStored
    <3> DEFINE g == Ratio * Collected
               h == Ratio * c
    <3>5. g \in Nat /\ h \in Nat /\ fill <= h /\ size' <= size + g + fill
      BY <1>7, <1>9, <3>4
    <3> HIDE DEF g, h
    <3>6. size' <= size + g + h
      BY <1>7, <1>9, <3>4, <3>5
    <3> QED
      BY <1>6, <3>3, <3>4, <3>6 DEF g, h
  <2>3. CASE ~(gap > 0)
    <3>1. Collect(cur.len) /\ size' = size
      BY <2>3 DEF CloseFrame
    <3> HIDE DEF gap, fill, cur, prev, p, c
    <3>2. Collected' \in Nat /\ Collected' <= Collected + PayloadTime(cur.len)
      BY <1>2, <2>1, <3>1, PayloadCollected
    <3> QED
      BY <1>6, <1>7, <3>1, <3>2
  <2> QED
    BY <2>2, <2>3
<1>11. /\ Reach(sent, c, d) \in Nat /\ Reach(sent, c, d + 1) \in Nat
       /\ Reach(sent, c, d + 1) = Reach(sent, c, d) + (p + c)
  <2>1. d <= Len(sent) /\ d < Len(sent) /\ d + 1 <= Len(sent) /\ d + 1 \in Nat /\ d + 1 # 1
    BY <1>4, <1>5
  <2> HIDE DEF c, d
  <2>2. Reach(sent, c, d) \in Nat /\ Reach(sent, c, d + 1) \in Nat
    BY <1>4, <1>7, <2>1, ReachNat
  <2>3. Reach(sent, c, d + 1) = Reach(sent, c, d) + Part(sent, c, d + 1)
    BY <1>4, <1>7, <2>1, ReachStep
  <2>4. Part(sent, c, d + 1) = p + c
    BY <2>1 DEF Part
  <2> QED
    BY Zenon, <2>2, <2>3, <2>4
<1>12. size + Ratio * Collected <= Ratio * Reach(sent, c, d)
  BY <1>4 DEF Bounded
<1>13. size' + Ratio * Collected' <= Ratio * Reach(sent, c, d + 1)
  <2>1. PICK x, y, z1, g1 : /\ x = Reach(sent, c, d) /\ y = Reach(sent, c, d + 1)
                            /\ z1 = size' /\ g1 = Collected'
    OBVIOUS
  <2> HIDE DEF c, d, p
  <2>2. z1 \in Nat /\ g1 \in Nat
    BY <1>6, <1>7, <1>10, <2>1
  <2>3. \/ z1 <= size + Ratio * Collected + Ratio * c /\ g1 = p
        \/ z1 = size /\ g1 <= Collected + p
    BY <1>10, <2>1
  <2>4. x \in Nat /\ y \in Nat /\ y = x + (p + c) /\ size + Ratio * Collected <= Ratio * x
    BY <1>11, <1>12, <2>1
  <2>5. z1 + Ratio * g1 <= Ratio * y
    BY <1>6, <1>7, <2>2, <2>3, <2>4, WithinReach
  <2> QED
    BY <2>1, <2>5
<1> QED
  BY <1>1, <1>3, <1>4, <1>13 DEF Bounded

(* The close of a FfmpegWriter decodes its last segment.                   *)
LEMMA CloseEndBoundedStep ==
  ASSUME AudioInv, Bounded, close, CloseEnd
  PROVE  Bounded'
<1>1. /\ UNCHANGED <<writer, rate, frames, sent>> /\ writer' = writer
      /\ done > 0 /\ done' = done /\ segment' = 0
  BY DEF close, CloseEnd
<1>2. /\ size \in Nat /\ Ratio * Collected \in Nat /\ Ratio * Collected' = 0
      /\ Ratio' = Ratio /\ Collected' = 0
  <2>1. Collected' = 0
    BY <1>1, PayloadOfNothing DEF Collected, PayloadTime
  <2> QED
    BY <1>1, <2>1, Bounds, RatioNat, RatioValues DEF Ratio
<1>3. size' \in Nat /\ size' <= size + Ratio * Collected
  <2>1. PICK samples \in Decodings, bad \in BOOLEAN :
           /\ Flushed(samples)
           /\ size' = size + (IF broken \/ bad THEN 0 ELSE samples)
    BY DEF CloseEnd
  <2>2. samples \in Nat /\ samples <= Ratio * Collected
    BY <2>1, SegmentDecoded DEF AudioInv
  <2> QED
    BY <1>2, <2>1, <2>2
<1>4. size' + Ratio * Collected' <= size + Ratio * Collected
  BY <1>2, <1>3
<1>5. size' \in Nat /\ Collected' = 0
  BY <1>2, <1>3
<1>6. writer' # "PCM"
  BY <1>1 DEF AudioInv, Remembered, IsFfmpeg
<1>7. size' + Ratio * Collected' <= Ratio * Reach(sent, MaxGap * rate, done)
  <2>1. PICK y, g, h : /\ y = Ratio * Reach(sent, MaxGap * rate, done)
                       /\ g = Ratio * Collected /\ h = Ratio * Collected'
    OBVIOUS
  <2>2. size + g <= y
    BY <1>1, <2>1 DEF Bounded
  <2>3. y \in Nat
    <3>1. done \in 0 .. Len(frames) /\ Len(frames) = Len(sent)
      BY <1>1 DEF AudioInv, TypeOK, Remembered
    <3>2. done \in Nat /\ done <= Len(sent)
      BY <3>1, Bounds
    <3>3. Reach(sent, MaxGap * rate, done) \in Nat
      BY <3>2, Bounds, ReachNat
    <3> QED
      BY <2>1, <3>3, RatioNat
  <2>4. size' + h <= size + g /\ size + g \in Nat /\ size' + h \in Nat
    BY <1>2, <1>4, <1>5, <2>1
  <2>5. \A i, j, k \in Nat : i <= j /\ j <= k => i <= k
    OBVIOUS
  <2>6. size' + h <= y
    BY Zenon, <2>2, <2>3, <2>4, <2>5
  <2> QED
    BY <2>1, <2>6
<1> QED
  BY <1>1, <1>2, <1>6, <1>7 DEF Bounded

(* Every step.                                                             *)
LEMMA BoundedStep == AudioInv /\ Bounded /\ [Next]_vars => Bounded'
<1> SUFFICES ASSUME AudioInv, Bounded, [Next]_vars PROVE Bounded'
  OBVIOUS
<1>1. CASE makeWriter
  <2>1. sent = << >> /\ size = 0 /\ done = 0 /\ UNCHANGED <<sent, size, closeVars>>
    BY <1>1 DEF makeWriter, AudioInv, Remembered, TypeOK, IsFfmpeg
  <2>2. sent' = << >> /\ size' = 0 /\ done' = 0 /\ Len(sent') = 0
    BY <2>1 DEF closeVars
  <2>3. << >> \in Packets
    BY DEF Packets
  <2>4. Reach(<< >>, MaxGap * rate', 0) = 0
    <3>1. rate' \in Nat
      BY <1>1, AudioStep DEF AudioInv, TypeOK, Next
    <3>2. PICK r : r = MaxGap * rate'
      OBVIOUS
    <3>3. r \in Nat
      <4>1. MaxGap \in Nat
        BY AudioAssumption
      <4> QED
        BY Zenon, <3>1, <3>2, <4>1, ProductNat
    <3>4. 0 <= Len(<< >>)
      OBVIOUS
    <3>5. Reach(<< >>, r, 0) = 0
      BY <2>3, <3>3, <3>4, ReachNat
    <3> QED
      BY <3>2, <3>5
  <2> QED
    BY <2>2, <2>4 DEF Bounded
<1>2. CASE Remap
  BY <1>2, BoundedKept DEF Remap, closeVars, fileVars
<1>3. CASE close
  <2>1. CASE WavClose \/ CloseEmpty
    <3>1. UNCHANGED <<writer, rate, sent, size, segment, done>>
      BY <1>3, <2>1 DEF close, WavClose, CloseEmpty, closeVars, fileVars
    <3>2. QED
      BY <3>1, BoundedKept
  <2>2. QED
    BY <1>3, <2>1, CloseStartBoundedStep, CloseFrameBoundedStep,
       CloseEndBoundedStep DEF close
<1>4. ASSUME NEW e \in Jumps, NEW n \in Lens, writePacket(clock + e, n)
      PROVE  Bounded'
  <2>1. clock + e \in Int /\ n \in Nat
    BY AudioAssumption DEF AudioInv, TypeOK
  <2>2. CASE NoAudio(n)
    <3>1. UNCHANGED <<writer, rate, sent, size, segment, done>>
      BY <1>4, <2>2 DEF writePacket, NoAudio, closeVars
    <3>2. QED
      BY <3>1, BoundedKept
  <2>3. CASE FfmpegPacket(clock + e, n)
    <3>1. done = 0 /\ done' = 0 /\ size' = size /\ writer' = writer /\ writer # "PCM"
      BY <1>4, <2>3 DEF writePacket, FfmpegPacket, closeVars, IsFfmpeg
    <3> QED
      BY <3>1 DEF Bounded
  <2>4. WavPacket(clock + e, n) \/ FfmpegPacket(clock + e, n) \/ NoAudio(n)
    BY <1>4 DEF writePacket
  <2>5. QED
    BY <1>4, <2>1, <2>2, <2>3, <2>4, WavBoundedStep
<1>5. CASE UNCHANGED vars
  BY <1>5, BoundedKept DEF vars, closeVars, fileVars
<1>6. QED
  BY <1>1, <1>2, <1>3, <1>4, <1>5 DEF Next

(* However wild the timestamps, a gap adds no more than the longest        *)
(* silence: neither WavWriter nor the close of FfmpegWriter can be made to *)
(* fill the disk.                                                          *)
THEOREM SilenceStaysBounded == Spec => []SilenceBounded
<1>1. Init => Bounded
  <2> SUFFICES ASSUME Init PROVE Bounded
    OBVIOUS
  <2>1. writer = "unopened" /\ done = 0 /\ size = 0
    BY DEF Init
  <2> QED
    BY <2>1 DEF Bounded
<1>2. Spec => []Bounded
  <2>1. Init => AudioInv
    BY AudioInit
  <2>2. AudioInv /\ Bounded /\ [Next]_vars => (AudioInv /\ Bounded)'
    BY AudioStep, BoundedStep
  <2>3. QED
    BY <1>1, <2>1, <2>2, PTL DEF Spec
<1>3. AudioInv /\ Bounded => SilenceBounded
  <2> SUFFICES ASSUME AudioInv, Bounded PROVE SilenceBounded
    OBVIOUS
  <2> DEFINE c == MaxGap * rate
             l == Len(sent)
  <2>1. /\ sent \in Packets /\ l \in Nat /\ c \in Nat /\ size \in Nat /\ Collected \in Nat
        /\ Ratio \in {1, 2} /\ (writer = "PCM" => Ratio = 1)
    BY Bounds
  <2>2. DOMAIN sent = 1 .. l
    BY <2>1 DEF Packets
  <2>3. SumFunction([i \in DOMAIN sent |->
                       sent[i].ticks + (IF i = 1 THEN 0 ELSE MaxGap * rate)]) = Reach(sent, c, l)
    BY Zenon, <2>2 DEF SumFunction, Reach, Alone, Part
  <2> HIDE DEF c, l
  <2>4. Reach(sent, c, l) \in Nat
    <3>1. l <= Len(sent)
      BY <2>1 DEF l
    <3> QED
      BY <2>1, <3>1, ReachNat
  <2>5. size <= Ratio * Reach(sent, c, l)
    <3> DEFINE y == Reach(sent, c, l)
    <3> SUFFICES size <= Ratio * y
      OBVIOUS
    <3>1. Ratio * y \in Nat
      BY <2>4, RatioNat
    <3>2. CASE writer = "PCM"
      <4>1. size <= y
        BY <3>2 DEF Bounded, c, l
      <4>2. Ratio = 1 /\ y \in Nat /\ \A n \in Nat : 1 * n = n
        BY <2>1, <2>4, <3>2
      <4> HIDE DEF y
      <4> QED
        BY Zenon, <4>1, <4>2
    <3>3. CASE done > 0
      <4>1. done \in 0 .. Len(frames) /\ Len(frames) = l
        BY <3>3 DEF AudioInv, TypeOK, Remembered, l
      <4>2. done \in Nat /\ done <= l
        BY <2>1, <4>1
      <4> DEFINE x == Reach(sent, c, done)
      <4>3. x \in Nat /\ x <= y
        BY <2>1, <4>2, ReachNat, ReachGrows DEF l
      <4>4. size + Ratio * Collected <= Ratio * x
        BY <3>3 DEF Bounded, c
      <4> HIDE DEF x, y
      <4>5. y \in Nat
        BY <2>4 DEF y
      <4>6. CASE Ratio = 1
        BY <2>1, <4>3, <4>4, <4>5, <4>6
      <4>7. CASE Ratio = 2
        BY <2>1, <4>3, <4>4, <4>5, <4>7
      <4>8. QED
        BY <2>1, <4>6, <4>7
    <3>4. CASE writer # "PCM" /\ ~(done > 0)
      <4>1. done = 0
        <5>1. frames \in Seq([rtpTS : 0 .. T - 1, len : Nat]) /\ done \in 0 .. Len(frames)
          BY DEF AudioInv, TypeOK
        <5>2. Len(frames) \in Nat
          BY <5>1
        <5> QED
          BY <3>4, <5>1, <5>2
      <4>2. size = 0
        BY <3>4, <4>1 DEF Bounded
      <4> HIDE DEF y
      <4> QED
        BY <3>1, <4>2
    <3> QED
      BY <3>2, <3>3, <3>4
  <2> QED
    BY Zenon, <2>3, <2>5 DEF SilenceBounded
<1>4. QED
  BY <1>2, <1>3, AudioInvariant, PTL

=============================================================================
