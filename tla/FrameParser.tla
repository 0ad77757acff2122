---------------------------- MODULE FrameParser ----------------------------
(***************************************************************************)
(* From a captured frame to the UDP payload and its handler: parseUDP and  *)
(* parseIPv4UDP (parse.go), and the tests on the first payload byte in the *)
(* loops of analyze, extractCalls and extractRTP.                          *)
(*                                                                         *)
(* A frame is the header fields the code looks at and the number of bytes  *)
(* that were captured; a payload is the set of its byte positions.  The    *)
(* addresses and ports are left out.                                       *)
(***************************************************************************)
EXTENDS Integers

dltEthernet  == 1
dltLinuxCook == 113
dltRaw       == {228, 12}   \* dltRawIPv4 and dltRawBSD

EtherTypes == {"IPv4", "other"}

UInt(bits) == 0 .. 2 ^ bits - 1

(* There is no room for a VLAN tag in front of a raw IP packet.            *)
IsFrame(f) ==
    /\ f.link \in Nat                \* datalink of the capture file
    /\ f.tags \in Nat                \* VLAN tags in front of the type
    /\ f.link \in dltRaw => f.tags = 0
    /\ f.type \in EtherTypes
    /\ f.version \in UInt(4) /\ f.ihl \in UInt(4) /\ f.proto \in UInt(8)
    /\ f.udpLen \in UInt(16)         \* length field of the UDP header
    /\ f.first \in UInt(8)           \* first byte behind the UDP header
    /\ f.cap \in Nat                 \* len(data)

-----------------------------------------------------------------------------
(* parseUDP: the link layer.                                               *)

(* One VLAN tag is skipped, in Ethernet only.                              *)
TagsSkipped(f) == IF f.link = dltEthernet /\ f.tags > 0 THEN 1 ELSE 0

TypeRead(f) == IF TagsSkipped(f) < f.tags THEN "VLAN" ELSE f.type

(* Mutant of ipStart: the tag is recognised and not skipped.               *)
ipStart_untagged(f) ==
    IF f.link = dltEthernet THEN 14 ELSE IF f.link = dltLinuxCook THEN 16 ELSE 0

ipStart(f) ==
    IF f.link = dltEthernet THEN 14 + 4 * TagsSkipped(f)
    ELSE IF f.link = dltLinuxCook THEN 16 ELSE 0

CarriesIP(f) ==
    \/ f.link \in dltRaw
    \/ /\ f.link \in {dltEthernet, dltLinuxCook}
       /\ f.cap >= ipStart(f)
       /\ TypeRead(f) = "IPv4"

-----------------------------------------------------------------------------
(* parseIPv4UDP.                                                           *)

IPHeader(f) == 4 * f.ihl
IPBytes(f)  == f.cap - ipStart(f)
UDPBytes(f) == IPBytes(f) - IPHeader(f)

IsUDP(f) ==
    /\ IPBytes(f) >= 20 /\ f.version = 4
    /\ IPHeader(f) >= 20 /\ IPBytes(f) >= IPHeader(f)
    /\ f.proto = 17
    /\ UDPBytes(f) >= 8

payloadLen(f) == f.udpLen - 8

(* Mutants of Carried: padding behind the datagram is taken for payload;   *)
(* the length field is believed also where the frame was cut.              *)
Carried_padded(f)   == UDPBytes(f) - 8
Carried_announced(f) == payloadLen(f)

(* The length the header announces, or what is there if that is less.      *)
Carried(f) ==
    IF payloadLen(f) < 0 \/ UDPBytes(f) < 8 + payloadLen(f)
    THEN UDPBytes(f) - 8 ELSE payloadLen(f)

Payload(f) ==
    LET start == ipStart(f) + IPHeader(f) + 8
    IN  IF CarriesIP(f) /\ IsUDP(f) THEN start .. start + Carried(f) - 1 ELSE {}

-----------------------------------------------------------------------------
(* The loops: which handler gets a payload that is not empty.              *)

(* (b & 0xC0) == 0x80: RTP version 2.                                      *)
LooksLikeRTP(b) == b \div 64 = 2

(* Mutant of LooksLikeSIP: any byte below 0x80.                            *)
LooksLikeSIP_ascii(b) == b < 128

LooksLikeSIP(b) == b >= 32 /\ b <= 126

Loops == {"analyze", "extractCalls", "extractRTP"}

HandlerOf(loop, f) ==
    IF Payload(f) = {} THEN "none"
    ELSE IF loop # "extractCalls" /\ LooksLikeRTP(f.first) THEN "rtp"
    ELSE IF loop # "extractRTP" /\ LooksLikeSIP(f.first) THEN "sip" ELSE "none"

-----------------------------------------------------------------------------
(* Reference: the layout of a frame on the wire.                           *)

IsDatagram(f) ==
    /\ \/ f.link = dltEthernet /\ f.tags <= 1 /\ f.type = "IPv4"
       \/ f.link = dltLinuxCook /\ f.tags = 0 /\ f.type = "IPv4"
       \/ f.link \in dltRaw
    /\ f.version = 4 /\ f.ihl >= 5 /\ f.proto = 17

LinkBytes(f) ==
    (IF f.link = dltEthernet THEN 14 ELSE IF f.link = dltLinuxCook THEN 16 ELSE 0)
      + 4 * f.tags

BodyStart(f) == LinkBytes(f) + 4 * f.ihl + 8

(* The bytes of the datagram's body; all there is if its length is absurd. *)
Body(f) == IF f.udpLen >= 8 THEN BodyStart(f) .. BodyStart(f) + f.udpLen - 9
                            ELSE BodyStart(f) .. f.cap - 1

CapturedBody(f) == IF IsDatagram(f) THEN {i \in Body(f) : i < f.cap} ELSE {}

=============================================================================
