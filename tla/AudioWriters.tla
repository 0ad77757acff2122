---------------------------- MODULE AudioWriters ----------------------------
(***************************************************************************)
(* The decoded audio file of one stream (audio.go: makeWriter, WavWriter,  *)
(* FfmpegWriter).  A WavWriter fills the gaps between RTP timestamps with  *)
(* silence packet by packet; a FfmpegWriter keeps the payloads, and its    *)
(* close cuts them at the gaps, has every segment decoded, and puts the    *)
(* silence between them.  The payload map belongs to the Call: SIP may     *)
(* redefine the payload type of the stream at any time.                    *)
(*                                                                         *)
(* Times are in ticks of the RTP clock, lengths of payloads in bytes.      *)
(***************************************************************************)
EXTENDS Integers, Sequences, FiniteSetsExt

CONSTANTS
    W,          \* bits of an RTP timestamp; 32 in the code
    PTs,        \* payload types of the packet that opens the stream
    Codecs,     \* [name, rate]: what a payload type may be mapped to
    NoCodec,    \* payload type is not in the map
    MaxGap,     \* longest silence in one gap: maxGapSeconds in ticks
    FrameBytes, FrameTicks,  \* a G.729 frame; 10 bytes, 80 ticks
    Starts,     \* timestamps of the first packet
    Jumps,      \* time from a packet to the one read next; negative if late
    Lens,       \* payload lengths; 0: malformed or without audio
    MaxPackets  \* bound: packets of the stream

T    == 2 ^ W
Half == 2 ^ (W - 1)

Formats == {"PCMU", "PCMA", "G722", "G729", "other"}

ASSUME AudioAssumption ==
    /\ W \in Nat \ {0} /\ T \in Nat \ {0} /\ Half \in Nat /\ T = 2 * Half
    /\ Codecs \subseteq [name : Formats, rate : Nat]
    /\ NoCodec \notin Codecs
    /\ MaxGap \in Nat /\ MaxPackets \in Nat
    /\ FrameBytes \in Nat \ {0} /\ FrameTicks \in Nat
    /\ Starts \subseteq Int /\ Jumps \subseteq Int /\ Lens \subseteq Nat

VARIABLES
    writer,      \* "unopened", "none", "PCM", "G722" or "G729"
    closed,
    pt, codec,   \* pt of wavWriterAdapter; its entry in the payload map
    rate,        \* sampleRate, in units of 8 kHz
    lastRTPTS, lastSamples, haveLast,  \* the gap filler of WavWriter
    frames,      \* of FfmpegWriter
    done, segment,  \* close of FfmpegWriter: frames it has been through;
                    \* bytes collected for the next decoding
    header,      \* of the file: "absent", "zero", "data" or "sized"
    size,        \* dataBytes, in samples
    broken,      \* bufio.Writer has failed, and keeps failing
    clock, count,\* true time of the packet read last; packets read
    sent,        \* history: [at, ticks] of the audio the writer took
    mishaps      \* history: how decoding has gone wrong so far

gapVars   == <<lastRTPTS, lastSamples, haveLast>>
closeVars == <<done, segment, mishaps>>
fileVars  == <<header, size, broken>>
vars == <<writer, closed, pt, codec, rate, gapVars, frames, closeVars,
          fileVars, clock, count, sent>>

Init ==
    /\ writer = "unopened" /\ closed = FALSE
    /\ pt \in PTs /\ codec \in Codecs \cup {NoCodec} /\ rate = 1
    /\ lastRTPTS = 0 /\ lastSamples = 0 /\ haveLast = FALSE
    /\ frames = << >> /\ done = 0 /\ segment = 0 /\ mishaps = {}
    /\ header = "absent" /\ size = 0 /\ broken = FALSE
    /\ clock \in Starts /\ count = 0
    /\ sent = << >>

-----------------------------------------------------------------------------
(* makeWriter: the decoder for a payload type, and its sample rate.        *)
IsPCM(name)    == name \in {"PCMU", "PCMA"}
IsFfmpeg(name) == name \in {"G722", "G729"}

IsStaticPCM == pt \in {0, 8}
IsMapped    == codec # NoCodec /\ codec.name # "other"

DecoderOf ==
    IF IsStaticPCM THEN "PCM"
    ELSE IF IsMapped THEN IF IsPCM(codec.name) THEN "PCM" ELSE codec.name
    ELSE IF pt = 9 THEN "G722" ELSE IF pt = 18 THEN "G729" ELSE "none"

(* ffmpeg may not be there, and os.Create of the file may fail: no audio.  *)
makeWriter ==
    /\ writer = "unopened"
    /\ \/ writer' = DecoderOf
       \/ writer' = "none"
    /\ rate' = IF ~IsStaticPCM /\ writer' = "PCM" THEN codec.rate ELSE 1
    /\ header' = IF writer' = "PCM" THEN "zero" ELSE "absent"
    /\ UNCHANGED <<closed, pt, codec, gapVars, frames, closeVars, size,
                   broken, clock, count, sent>>

(* processSIPPkt merges the payload map of another SDP body.               *)
Remap ==
    /\ ~closed
    /\ codec' \in Codecs
    /\ UNCHANGED <<writer, closed, pt, rate, gapVars, frames, closeVars,
                   fileVars, clock, count, sent>>

-----------------------------------------------------------------------------
(* Mutant of Signed: the difference of two ints.                           *)
Signed_wide(d) == d

(* int32 of a difference of uint32.                                        *)
Signed(d) == IF d % T < Half THEN d % T ELSE (d % T) - T

(* Mutant of Silence: no cap.                                              *)
Silence_uncapped(gap, cap) == IF gap > 0 THEN gap ELSE 0

(* The silence that a gap is filled with.                                  *)
Silence(gap, cap) == IF gap <= 0 THEN 0 ELSE IF gap > cap THEN cap ELSE gap

(* The true length of a payload: of G.711, a byte is a sample; a byte of   *)
(* G.722 is a tick; G.729 has frames, the last of which may be short.      *)
PayloadTime(n) ==
    IF writer = "G729" THEN ((n + FrameBytes - 1) \div FrameBytes) * FrameTicks
                       ELSE n

(* The packet that was sent at t with n bytes of audio is taken: history.  *)
Taken(t, n) == sent' = Append(sent, [at |-> t, ticks |-> PayloadTime(n)])

(* WavWriter.writePacket looks the payload type up with every packet.      *)
StillPCM == IsStaticPCM \/ (codec # NoCodec /\ IsPCM(codec.name))

(* Samples between the end of the packet before and this one.              *)
Gap(ts) == IF haveLast THEN Signed(ts - lastRTPTS) - lastSamples ELSE 0

(* Silence and audio are written; either write may fail, and then all that *)
(* follow it.                                                              *)
Store(silence, n) ==
    \/ ~broken /\ size' = size + silence + n /\ UNCHANGED broken
    \/ ~broken /\ size' \in {size, size + silence} /\ broken' = TRUE
    \/ broken /\ UNCHANGED <<size, broken>>

WavPacket(t, n) ==
    /\ writer = "PCM" /\ n > 0 /\ StillPCM
    /\ Store(Silence(Gap(t % T), MaxGap * rate), n)
    /\ lastRTPTS' = t % T /\ lastSamples' = n /\ haveLast' = TRUE
    /\ Taken(t, n)
    /\ UNCHANGED frames

(* FfmpegWriter.writePacket.                                               *)
FfmpegPacket(t, n) ==
    /\ IsFfmpeg(writer) /\ n > 0
    /\ frames' = Append(frames, [rtpTS |-> t % T, len |-> n])
    /\ Taken(t, n)
    /\ UNCHANGED <<gapVars, size, broken>>

(* No writer, no audio in the packet, or a payload type that SIP has given *)
(* to another codec.                                                       *)
NoAudio(n) ==
    /\ writer = "none" \/ n = 0 \/ (writer = "PCM" /\ ~StillPCM)
    /\ UNCHANGED <<gapVars, frames, size, broken, sent>>

writePacket(t, n) ==
    /\ writer # "unopened" /\ ~closed /\ done = 0
    /\ count < MaxPackets /\ count' = count + 1
    /\ clock' = t
    /\ WavPacket(t, n) \/ FfmpegPacket(t, n) \/ NoAudio(n)
    /\ UNCHANGED <<writer, closed, pt, codec, rate, closeVars, header>>

-----------------------------------------------------------------------------
(* WavWriter.close flushes, then patches the size of the data and that of  *)
(* the RIFF chunk; it returns at the first error.                          *)

(* Mutant of Patched: the result of the flush is not looked at.            *)
Patched_blind(bad) == {"zero", "data", "sized"}

Patched(bad) == IF bad THEN {"zero"} ELSE {"zero", "data", "sized"}

FlushAndPatch(bad) ==
    \E failed \in BOOLEAN :
       /\ broken' = (bad \/ failed)
       /\ header' \in Patched(broken')

WavClose ==
    /\ writer = "PCM" /\ closed' = TRUE
    /\ FlushAndPatch(broken)
    /\ UNCHANGED <<size, closeVars>>

(* FfmpegWriter.close: without frames, or if os.Create fails, no file.     *)
CloseEmpty ==
    /\ (IsFfmpeg(writer) /\ done = 0) \/ writer = "none"
    /\ closed' = TRUE
    /\ UNCHANGED <<fileVars, closeVars>>

(* Mutant of payloadTicks: a short frame does not count.                   *)
payloadTicks_whole(n) ==
    IF writer = "G722" THEN n ELSE (n \div FrameBytes) * FrameTicks

payloadTicks(n) ==
    IF writer = "G722" THEN n
    ELSE LET ticks == (n \div FrameBytes) * FrameTicks
         IN  IF n % FrameBytes # 0 THEN ticks + FrameTicks ELSE ticks

(* outRate in units of the RTP clock.                                      *)
Ratio == IF writer = "G722" THEN 2 ELSE 1

CloseStart ==
    /\ IsFfmpeg(writer) /\ done = 0 /\ frames # << >>
    /\ header' = "zero"
    /\ done' = 1 /\ segment' = frames[1].len
    /\ UNCHANGED <<closed, size, broken, mishaps>>

(* A G.729 payload, or several in a row, that end with a short frame.      *)
IsShort(n) == writer = "G729" /\ n % FrameBytes # 0

(* flush: ffmpeg is given the bytes of the segment and does not know where *)
(* its payloads began (external).  It decodes frame by frame, with or      *)
(* without the short one at the end, or refuses all of it.                 *)
Flushed(samples) ==
    \/ samples = Ratio * PayloadTime(segment) /\ UNCHANGED mishaps
    \/ /\ IsShort(segment)
       /\ samples = Ratio * ((segment \div FrameBytes) * FrameTicks)
       /\ mishaps' = mishaps \cup {"cut"}
    \/ samples = 0 /\ mishaps' = mishaps \cup {"refused"}

Decodings == {0, Ratio * PayloadTime(segment),
              Ratio * ((segment \div FrameBytes) * FrameTicks)}

(* The payload goes right behind the bytes before it, also if they end     *)
(* with a short frame.                                                     *)
Collect(n) ==
    /\ segment' = segment + n
    /\ mishaps' = IF IsShort(segment) THEN mishaps \cup {"misaligned"} ELSE mishaps

CloseFrame ==
    /\ done \in 1 .. Len(frames) - 1
    /\ LET prev == frames[done]
           cur  == frames[done + 1]
           gap  == Signed(cur.rtpTS - prev.rtpTS) - payloadTicks(prev.len)
       IN  IF gap > 0
           THEN /\ \E samples \in Decodings :
                      /\ Flushed(samples)
                      /\ Store(samples, Silence(gap * Ratio, MaxGap * Ratio))
                /\ segment' = cur.len
           ELSE Collect(cur.len) /\ UNCHANGED <<size, broken>>
    /\ done' = done + 1
    /\ UNCHANGED <<header, closed>>

CloseEnd ==
    /\ done > 0 /\ done = Len(frames)
    /\ \E samples \in Decodings, bad \in BOOLEAN :
          /\ Flushed(samples)
          /\ size' = size + (IF broken \/ bad THEN 0 ELSE samples)
          /\ FlushAndPatch(broken \/ bad)
    /\ segment' = 0 /\ closed' = TRUE
    /\ UNCHANGED done

close ==
    /\ writer # "unopened" /\ ~closed
    /\ WavClose \/ CloseEmpty \/ CloseStart \/ CloseFrame \/ CloseEnd
    /\ UNCHANGED <<writer, pt, codec, rate, gapVars, frames, clock, count, sent>>

Next ==
    \/ makeWriter \/ Remap \/ close
    \/ \E d \in Jumps, n \in Lens : writePacket(clock + d, n)

Spec == Init /\ [][Next]_vars

-----------------------------------------------------------------------------
(* References, in the true time of the sender.                             *)

End(i)    == sent[i].at + sent[i].ticks
Behind(i) == sent[i].at - sent[i - 1].at

(* Packets in order, none sent before the last one ended.                  *)
InOrder == \A i \in 2 .. Len(sent) : End(i - 1) <= sent[i].at

(* From a packet to the next is no more than half a turn of the clock      *)
(* either way, and nobody is silent for longer than the cap.               *)
Believable ==
    \A i \in 2 .. Len(sent) : Behind(i) \in -Half .. Half - 1
                          /\ Behind(i) - sent[i - 1].ticks <= MaxGap * rate

(* The file holds all that was taken so far: a file being written, or a    *)
(* closed one whose header gives a size.                                   *)
Complete == IF closed THEN header \in {"data", "sized"}
                      ELSE writer = "PCM" /\ ~broken

(* Types.                                                                  *)
TypeOK ==
    /\ writer \in {"unopened", "none", "PCM", "G722", "G729"}
    /\ closed \in BOOLEAN /\ pt \in PTs /\ codec \in Codecs \cup {NoCodec}
    /\ rate \in Nat
    /\ lastRTPTS \in 0 .. T - 1 /\ lastSamples \in Nat /\ haveLast \in BOOLEAN
    /\ frames \in Seq([rtpTS : 0 .. T - 1, len : Nat])
    /\ header \in {"absent", "zero", "data", "sized"}
    /\ size \in Nat /\ broken \in BOOLEAN
    /\ clock \in Int /\ count \in 0 .. MaxPackets
    /\ sent \in Seq([at : Int, ticks : Nat])
    /\ done \in 0 .. Len(frames) /\ segment \in Nat
    /\ mishaps \subseteq {"refused", "cut", "misaligned"}
    /\ header # "absent" => writer \notin {"unopened", "none"}

(* Playback is never accelerated: the file is at least as long as the time *)
(* from the begin of the first packet to the end of any other, whatever    *)
(* packets are lost, late or duplicated, over any number of turns of the   *)
(* timestamp, and whatever SIP does to the payload map; as long as ffmpeg  *)
(* decodes all segments, and only the last payload of one is short.        *)
NotAccelerated ==
    Complete /\ Believable /\ mishaps = {} =>
        \A i \in 1 .. Len(sent) : size >= Ratio * (End(i) - sent[1].at)

(* The file is as long as the stream, to the sample.                       *)
LastsAsLong == size = Ratio * (End(Len(sent)) - sent[1].at)

(* A complete file of packets that came in order.                          *)
Orderly == Complete /\ Believable /\ InOrder /\ sent # << >>

(* Decoded without mishap, a stream in order plays in real time.           *)
InRealTime == Orderly /\ mishaps = {} => LastsAsLong

(* However wild the timestamps, a gap adds no more than the longest        *)
(* silence.                                                                *)
SilenceBounded ==
    LET alone == [i \in DOMAIN sent |->
                     sent[i].ticks + (IF i = 1 THEN 0 ELSE MaxGap * rate)]
    IN  size <= Ratio * SumFunction(alone)

=============================================================================
