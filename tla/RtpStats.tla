------------------------------ MODULE RtpStats ------------------------------
(***************************************************************************)
(* Sequence numbers and packet loss of one stream (rtpstats.go,            *)
(* rtpStreamState).  The sender numbers its packets 0, 1, 2, ... and puts  *)
(* the number modulo 2^W, from a random start, in the header.  The network *)
(* loses, duplicates and reorders packets; a packet is at most MaxJump     *)
(* ahead of and at most MaxLate behind the newest one seen so far.         *)
(* Jitter and MOS, which are floating point, are left out.                 *)
(***************************************************************************)
EXTENDS Integers, FiniteSets

CONSTANTS
    W,           \* bits of a sequence number; 16 in the code
    Starts,      \* sequence numbers the sender may start with
    MaxJump, MaxLate,
    MaxIndex,    \* bound: packets the sender sends
    MaxReceived  \* bound: packets captured

Mod  == 2 ^ W
Half == 2 ^ (W - 1)
Seqs == 0 .. Mod - 1

ASSUME StatsAssumption ==
    /\ W \in Nat \ {0} /\ Starts \subseteq Seqs
    /\ Mod \in Nat \ {0} /\ Half \in Nat /\ Mod = 2 * Half
    /\ MaxJump \in 1 .. Half - 1 /\ MaxLate \in 0 .. Half - 1
    /\ MaxIndex \in Nat /\ MaxReceived \in Nat

VARIABLES
    received, firstSeq, lastSeq, hasFirst,  \* the fields of rtpStreamState
    start,    \* sequence number of packet 0
    got,      \* history: numbers of the packets captured
    first,    \* history: number of the packet captured first
    newest    \* history: highest number captured

fieldVars == <<received, firstSeq, lastSeq, hasFirst>>
statsVars == <<fieldVars, start, got, first, newest>>

StatsInit ==
    /\ received = 0 /\ firstSeq = 0 /\ lastSeq = 0 /\ hasFirst = FALSE
    /\ start \in Starts
    /\ got = {} /\ first = 0 /\ newest = 0

-----------------------------------------------------------------------------
(* Mutants of Ahead: plain comparison; any difference counts.              *)
Ahead_plain(seq, last) == seq > last
Ahead_any(seq, last)   == seq # last

(* int16(seq - last) > 0 on uint16 operands.                               *)
Ahead(seq, last) == (seq - last) % Mod \in 1 .. Half - 1

update(seq) ==
    /\ received' = received + 1
    /\ hasFirst' = TRUE
    /\ firstSeq' = IF hasFirst THEN firstSeq ELSE seq
    /\ lastSeq' = IF ~hasFirst \/ Ahead(seq, lastSeq) THEN seq ELSE lastSeq

(* Mutant of SpanSeen: subtraction of ints, not of uint16.                 *)
SpanSeen_int == lastSeq - firstSeq + 1

(* finalize: int64(lastSeq - firstSeq) + 1 is computed on uint16.          *)
SpanSeen == ((lastSeq - firstSeq) % Mod) + 1
Expected == IF SpanSeen < received THEN received ELSE SpanSeen
Lost     == Expected - received

(* Packet n of the sender is captured.                                     *)
Capture(n) ==
    /\ received < MaxReceived
    /\ update((start + n) % Mod)
    /\ got' = got \cup {n}
    /\ first' = IF hasFirst THEN first ELSE n
    /\ newest' = IF hasFirst /\ n < newest THEN newest ELSE n
    /\ UNCHANGED start

Reachable(n) == hasFirst => n \in newest - MaxLate .. newest + MaxJump

StatsNext == \E n \in 0 .. MaxIndex : Reachable(n) /\ Capture(n)

StatsSpec == StatsInit /\ [][StatsNext]_statsVars

-----------------------------------------------------------------------------
(* Reference: what was really lost between the first packet captured and   *)
(* the newest.                                                             *)
ReallyLost == Cardinality((first .. newest) \ got)

InOrderOnce == received = Cardinality(got) /\ \A n \in got : n >= first

(* Types.                                                                  *)
StatsTypeOK ==
    /\ received \in 0 .. MaxReceived
    /\ firstSeq \in Seqs /\ lastSeq \in Seqs /\ hasFirst \in BOOLEAN
    /\ start \in Starts
    /\ got \subseteq 0 .. MaxIndex
    /\ first \in 0 .. MaxIndex /\ newest \in 0 .. MaxIndex

(* lastSeq is the sequence number of the newest packet, over any number of *)
(* wraps and whatever late packets and duplicates come in between.         *)
NewestTracked == hasFirst => lastSeq = (start + newest) % Mod

(* The reported loss is never more than what was lost.                     *)
LossNotOverstated == hasFirst => Lost <= ReallyLost

(* It is exact for a stream shorter than one turn of the sequence numbers  *)
(* without duplicates and without packets older than the first.            *)
LossExact ==
    hasFirst /\ InOrderOnce /\ newest - first < Mod => Lost = ReallyLost

(* rtpstats.go, finalize: "uint16 wraparound handled by the subtraction".  *)
LossExactOverWraps == hasFirst /\ InOrderOnce => Lost = ReallyLost

=============================================================================
