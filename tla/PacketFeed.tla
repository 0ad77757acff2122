----------------------------- MODULE PacketFeed -----------------------------
(***************************************************************************)
(* From the bytes on disk to the packet handlers: the file loop of         *)
(* PcapReader with what the loop body does to every record, in each of the *)
(* three loops of the program (analyze, extractCalls, extractRTP).         *)
(*                                                                         *)
(* frames[i] holds the frames of files[i], one for each record; the number *)
(* of bytes captured of a frame is the length of its record, and msg is    *)
(* the SIP message its payload would be read as.                           *)
(***************************************************************************)
EXTENDS PcapReader, FrameParser, SipParser

CONSTANT Feeds   \* [files, frames, loop] the program may be started with

IsCaptured(feed, i, k) ==
    LET f == feed.frames[i][k]
    IN  /\ IsFrame(f) /\ f.cap = feed.files[i].lens[k]
        /\ f.msg.split \in BOOLEAN /\ f.msg.body \in Seq(SdpLines)

ASSUME FeedsAssumption ==
    \A feed \in Feeds :
        /\ feed.files \in Captures /\ feed.loop \in Loops
        /\ DOMAIN feed.frames = DOMAIN feed.files
        /\ \A i \in DOMAIN feed.files :
              /\ DOMAIN feed.frames[i] = DOMAIN feed.files[i].lens
              /\ \A k \in DOMAIN feed.frames[i] : IsCaptured(feed, i, k)

VARIABLES
    frames,  \* file -> frames of its records
    loop,    \* which of the loops is running
    handed   \* file -> what processSIPPkt and processRTPPkt were called with

feedVars == <<vars, frames, loop, handed>>

FeedInit ==
    /\ \E feed \in Feeds : files = feed.files /\ frames = feed.frames /\ loop = feed.loop
    /\ Start
    /\ handed = [i \in DOMAIN files |-> << >>]

Handler(f) == HandlerOf(loop, f)

(* The argument of the handler: processSIPPkt parses its payload first.    *)
Handed(f) ==
    IF Handler(f) = "sip" THEN <<[to |-> "sip", payload |-> Payload(f), info |-> parseSIP(f.msg)]>>
    ELSE IF Handler(f) = "rtp" THEN <<[to |-> "rtp", payload |-> Payload(f)]>>
    ELSE << >>

FeedPacket ==
    /\ ReadPacket
    /\ handed' = [handed EXCEPT ![cur] = @ \o Handed(frames[cur][delivered'[cur]])]
    /\ UNCHANGED <<frames, loop>>

FeedOther ==
    /\ OpenFile \/ OpenFails \/ StopAtEnd \/ StopTruncated \/ Abort \/ IoError
    /\ UNCHANGED <<frames, loop, handed>>

FeedNext == FeedPacket \/ FeedOther

FeedSpec == FeedInit /\ [][FeedNext]_feedVars

-----------------------------------------------------------------------------
(* Reference: the frames the loop in use is for, among the whole records.  *)

Wanted(f) ==
    /\ CapturedBody(f) # {}
    /\ \/ loop \in {"analyze", "extractRTP"} /\ f.first \in 128 .. 191
       \/ loop \in {"analyze", "extractCalls"} /\ f.first \in 32 .. 126

WantedRecords(i) == {k \in Complete(files[i]) : Wanted(frames[i][k])}

(* How many calls of a handler it takes to get to record k.                *)
Rank(i, k) == Cardinality({j \in WantedRecords(i) : j <= k})

(* Each handler gets the payload of every datagram that is meant for it,   *)
(* in the order of the capture: exactly the captured bytes of the body,    *)
(* without padding, whatever VLAN tag, IP options or snaplen the frame     *)
(* has, and no frame that is not UDP over IPv4.                            *)
HandlersSeeDatagrams ==
    \A i \in 1 .. cur - 1 :
        /\ Len(handed[i]) = Cardinality(WantedRecords(i))
        /\ \A k \in WantedRecords(i) :
              LET frame == frames[i][k]
                  given == handed[i][Rank(i, k)]
              IN  /\ given.payload = CapturedBody(frame)
                  /\ given.to = IF frame.first >= 128 THEN "rtp" ELSE "sip"

(* What a message tells the call table about its media is what its SDP     *)
(* announces: every audio line with the last usable address before it, and *)
(* the codecs of the audio lines only, the last one for each payload type. *)
MediaAsAnnounced ==
    \A i \in 1 .. cur - 1 : \A k \in WantedRecords(i) :
        LET msg   == frames[i][k].msg
            given == handed[i][Rank(i, k)]
            body  == IF msg.split THEN msg.body ELSE << >>
        IN  given.to = "sip" =>
                /\ ToSet(given.info.SDPEndpoints) = AnnouncedEndpoints(body)
                /\ given.info.RTPMap = AnnouncedCodecs(body)

=============================================================================
