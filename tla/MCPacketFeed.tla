---------------------------- MODULE MCPacketFeed ----------------------------
(***************************************************************************)
(* Three families of captures.  The cut files of MCPcapReader.  Files of   *)
(* one record that hold one frame of every kind, captured up to every      *)
(* length.  Files of one SIP message with every SDP body of up to MaxLines *)
(* lines.                                                                  *)
(***************************************************************************)
EXTENDS PacketFeed, MCPcapReader

CONSTANTS a1, a2, hold, MaxLines

Whole(lens) == [opens |-> TRUE, lens |-> lens, size |-> End([lens |-> lens], Len(lens))]

-----------------------------------------------------------------------------
Header(key, val) == [key |-> key, val |-> val]

McHeaders ==
    <<Header("other", NoValue), Header("i", NoValue), Header("call-id", "c1"),
      Header("cseq", "INVITE"), Header("from", NoValue), Header("f", "alice"),
      Header("call-id", "c2"), Header("from", "bob"), Header("cseq", NoValue)>>

Invite(body, split) ==
    [start |-> [response |-> FALSE, method |-> "INVITE", user |-> "bob"],
     headers |-> McHeaders, split |-> split, body |-> body]

McLines ==
    {[kind |-> "c", addr |-> a1], [kind |-> "c", addr |-> a2], [kind |-> "c", addr |-> hold],
     [kind |-> "m", audio |-> TRUE, port |-> 4000], [kind |-> "m", audio |-> TRUE, port |-> 0],
     [kind |-> "m", audio |-> FALSE, port |-> 5000],
     [kind |-> "rtpmap", pt |-> 96, codec |-> "OPUS"], [kind |-> "rtpmap", pt |-> 96, codec |-> "G729"],
     [kind |-> "rtpmap", pt |-> NoValue, codec |-> "PCMU"]}

McMsgs ==
    {Invite(body, TRUE) : body \in UNION {[1 .. n -> McLines] : n \in 0 .. MaxLines}}
        \cup {Invite(<<[kind |-> "c", addr |-> a1], [kind |-> "m", audio |-> TRUE, port |-> 4000]>>, FALSE)}

-----------------------------------------------------------------------------
AnyMsg == Invite(<< >>, TRUE)

FrameOf(link, tags, ihl, udpLen, first, cap) ==
    [link |-> link, tags |-> tags, type |-> "IPv4", version |-> 4, ihl |-> ihl,
     proto |-> 17, udpLen |-> udpLen, first |-> first, cap |-> cap, msg |-> AnyMsg]

(* Bytes of padding behind the datagram on the wire.                       *)
McPad == 2

McCaptured ==
    {[FrameOf(link, tags, ihl, udpLen, first, 0) EXCEPT !.cap = cap] :
        link \in {1, 113, 228, 101}, tags \in {0, 1, 2}, ihl \in {4, 5, 6},
        udpLen \in {7, 11}, first \in {128}, cap \in 0 .. 68}

(* A frame on a raw link has no room for tags.                             *)
OnWire(f) ==
    /\ f.cap <= LinkBytes(f) + 4 * f.ihl + f.udpLen + McPad
    /\ f.link \in dltRaw => f.tags = 0

McCutFrames == {f \in McCaptured : OnWire(f)}

McFrames ==
    {FrameOf(1, 0, 5, 9, first, 60) : first \in {31, 32, 126, 127, 128, 191, 192}}
        \cup {[FrameOf(1, 0, 5, 11, 128, 50) EXCEPT !.type = "other"],
              [FrameOf(1, 0, 5, 11, 128, 50) EXCEPT !.proto = 6],
              [FrameOf(12, 0, 5, 11, 128, 40) EXCEPT !.version = 6]}

(* A frame in a file of its own.                                           *)
Single(f) == [files |-> <<Whole(<<f.cap>>)>>, frames |-> <<<<f>>>>]

Few == FrameOf(1, 0, 5, 9, 128, 0)
Blank(file) == [k \in DOMAIN file.lens |-> [Few EXCEPT !.cap = file.lens[k]]]

McCutFeeds ==
    {[files |-> <<f>>, frames |-> <<Blank(f)>>] : f \in McFiles}
        \cup {[files |-> <<f, g>>, frames |-> <<Blank(f), Blank(g)>>] : f, g \in McFiles}

(* A SIP message, something that is not a datagram, and an RTP packet.     *)
McMixed ==
    LET three == <<FrameOf(1, 0, 5, 9, 73, 60), FrameOf(101, 0, 5, 9, 73, 60), FrameOf(1, 1, 5, 9, 128, 50)>>
    IN  {[files |-> <<[Whole(<<60, 60, 50>>) EXCEPT !.size = s]>>, frames |-> <<three>>] :
            s \in {66, 150, 182}}

WithLoop(S, loops) ==
    {[files |-> x.files, frames |-> x.frames, loop |-> l] : x \in S, l \in loops}

McFeeds ==
    WithLoop(McCutFeeds \cup {Single(f) : f \in McCutFrames}, {"analyze"})
        \cup WithLoop(McMixed \cup {Single(f) : f \in McFrames}, Loops)
        \cup WithLoop({Single([FrameOf(1, 0, 5, 9, 73, 60) EXCEPT !.msg = m]) : m \in McMsgs}, {"analyze"})

McFeedFiles == {x.files : x \in McFeeds}

=============================================================================
