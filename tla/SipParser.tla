----------------------------- MODULE SipParser -----------------------------
(***************************************************************************)
(* parseSIP (sipparser.go): from the lines of a SIP message to SIPInfo.    *)
(*                                                                         *)
(* A line is what the string functions make of it: a header has a key, one *)
(* of the keys that matter or "other", and a value; an SDP line has a      *)
(* kind.  Text, reason phrase, CRLF against LF and the extraction of the   *)
(* user part of a URI are left out.                                        *)
(***************************************************************************)
EXTENDS Integers, Sequences, FiniteSets, SequencesExt, FiniteSetsExt, GoMaps

CONSTANTS
    Addresses,   \* addresses of c= lines
    HoldAddrs,   \* "0.0.0.0" and "::"
    NoAddr,      \* sdpIP = ""
    NoValue,     \* an empty header value, or one that does not parse
    SdpLines     \* [kind |-> "c", addr], [kind |-> "m", audio, port],
                 \* [kind |-> "rtpmap", pt, codec] or a line of another kind

ASSUME AddressAssumption ==
    /\ NoAddr \notin Addresses /\ HoldAddrs \subseteq Addresses
    /\ \A line \in SdpLines :
          /\ line.kind = "c" => line.addr \in Addresses
          /\ line.kind = "m" => line.audio \in BOOLEAN

PortRange == 65536

-----------------------------------------------------------------------------
(* Headers: [key, val], the value already reduced to what is kept of it.   *)

Valued(headers, keys) ==
    {i \in DOMAIN headers : headers[i].key \in keys /\ headers[i].val # NoValue}

(* Call-ID and From: the first value counts.                               *)
FirstValue(headers, keys) ==
    IF Valued(headers, keys) = {} THEN NoValue ELSE headers[Min(Valued(headers, keys))].val

(* CSeq: each one overwrites the one before.                               *)
LastValue(headers, keys) ==
    IF Valued(headers, keys) = {} THEN NoValue ELSE headers[Max(Valued(headers, keys))].val

-----------------------------------------------------------------------------
(* The scanner of the SDP body, one line at a time.                        *)

scanStart == [sdpIP |-> NoAddr, inAudio |-> FALSE, endpoints |-> << >>, rtpMap |-> << >>]

(* A hold address leaves the address as it was.                            *)
scanConnection(s, line) ==
    [s EXCEPT !.sdpIP = IF line.addr \in HoldAddrs THEN @ ELSE line.addr]

(* Mutant of scanMedia: the address is forgotten with every media line.    *)
scanMedia_reset(s, line) ==
    [s EXCEPT !.inAudio = line.audio,
              !.sdpIP = NoAddr,
              !.endpoints = IF line.audio /\ s.sdpIP # NoAddr /\ line.port > 0
                            THEN Append(@, [ip |-> s.sdpIP, port |-> line.port % PortRange])
                            ELSE @]

(* uint16(port); a port of 0 refuses the stream.                           *)
scanMedia(s, line) ==
    [s EXCEPT !.inAudio = line.audio,
              !.endpoints = IF line.audio /\ s.sdpIP # NoAddr /\ line.port > 0
                            THEN Append(@, [ip |-> s.sdpIP, port |-> line.port % PortRange])
                            ELSE @]

(* Mutant of scanRtpmap: also for video.                                   *)
scanRtpmap_any(s, line) ==
    IF line.pt # NoValue THEN [s EXCEPT !.rtpMap = Put(@, line.pt, line.codec)] ELSE s

(* A line whose payload type is not a number is skipped.                   *)
scanRtpmap(s, line) ==
    IF s.inAudio /\ line.pt # NoValue
    THEN [s EXCEPT !.rtpMap = Put(@, line.pt, line.codec)] ELSE s

scanLine(s, line) ==
    CASE line.kind = "c"      -> scanConnection(s, line)
      [] line.kind = "m"      -> scanMedia(s, line)
      [] line.kind = "rtpmap" -> scanRtpmap(s, line)
      [] OTHER                -> s

(* What the scanner holds after each line.                                 *)
scanned(body) ==
    LET after[i \in 0 .. Len(body)] ==
          IF i = 0 THEN scanStart ELSE scanLine(after[i - 1], body[i])
    IN  after

scanBody(body) == scanned(body)[Len(body)]

-----------------------------------------------------------------------------
(* A message without an empty line has no body.                            *)
parseSIP(m) ==
    LET sdp == scanBody(IF m.split THEN m.body ELSE << >>)
    IN  [CallID       |-> FirstValue(m.headers, {"call-id", "i"}),
         FromUser     |-> FirstValue(m.headers, {"from", "f"}),
         CSeqMethod   |-> LastValue(m.headers, {"cseq"}),
         StatusCode   |-> IF m.start.response THEN m.start.code ELSE 0,
         Method       |-> IF m.start.response THEN NoValue ELSE m.start.method,
         RequestUser  |-> IF m.start.response THEN NoValue ELSE m.start.user,
         SDPEndpoints |-> sdp.endpoints,
         RTPMap       |-> sdp.rtpMap]

-----------------------------------------------------------------------------
(* Reference: what an SDP body announces, line by line against the whole.  *)

MediaLines(body)  == {i \in DOMAIN body : body[i].kind = "m"}
UsableAddrs(body) == {i \in DOMAIN body : body[i].kind = "c" /\ body[i].addr \notin HoldAddrs}

(* The lines before i that satisfy the condition S stands for.             *)
Before(S, i) == {j \in S : j < i}

AudioStreams(body) ==
    {i \in MediaLines(body) : body[i].audio /\ body[i].port > 0
                                /\ Before(UsableAddrs(body), i) # {}}

AnnouncedEndpoints(body) ==
    {[ip |-> body[Max(Before(UsableAddrs(body), i))].addr, port |-> body[i].port % PortRange] :
        i \in AudioStreams(body)}

(* rtpmap lines that belong to an audio line.                              *)
AudioRtpmaps(body) ==
    {i \in DOMAIN body :
        /\ body[i].kind = "rtpmap" /\ body[i].pt # NoValue
        /\ Before(MediaLines(body), i) # {}
        /\ body[Max(Before(MediaLines(body), i))].audio}

CodecOf(body, pt) ==
    body[Max({i \in AudioRtpmaps(body) : body[i].pt = pt})].codec

AnnouncedCodecs(body) ==
    [pt \in {body[i].pt : i \in AudioRtpmaps(body)} |-> CodecOf(body, pt)]

=============================================================================
