----------------------------- MODULE RtpStreams -----------------------------
(***************************************************************************)
(* The RTP side: routing of packets to Calls by the endpoints the SIP side *)
(* announced, one pcap writer, audio writer and statistics record per      *)
(* stream (rtpextractor.go, processRTPPkt and sweepIdleStreams).           *)
(*                                                                         *)
(* A stream is a pair of Call-ID and SSRC.  Its key never says which side  *)
(* sent it: the role is fixed by its first packet and lives in the name of *)
(* its files.  Files are modelled by numbers of packets; creating a file   *)
(* truncates it.  A pcap goes through a bufio.Writer of 64 KB: pcapFiles   *)
(* counts the packets the writer took, onDisk the whole packets that have  *)
(* left the buffer.  How many packets fit the buffer is left open; that    *)
(* one does is assumed.  What the audio writers do with their packets      *)
(* (AudioWriters), and jitter, loss and MOS, are left out.                 *)
(***************************************************************************)
EXTENDS SipDialogs

CONSTANTS
    SSRCs,      \* synchronisation sources on RTP packets
    RtpPkts,    \* the RTP packets the capture may hold
    Nil,        \* the nil *PcapWriter stored with --no-rtp-pcap
    NoRTPPcap,  \* --no-rtp-pcap
    IdleSec,    \* --rtp-idle-seconds, 0 disables the idle check
    Grace       \* byeGraceSeconds

Roles == {"caller", "callee", "unknown"}

rtpKey == [callID : CallIds, ssrc : SSRCs]
Path   == [dir : Names, role : Roles, ssrc : SSRCs]

(* A packet that looks like RTP; short: less than a 12-byte header.        *)
RtpPkt == [src : Endpoints, dst : Endpoints, ssrc : SSRCs, short : BOOLEAN]

ASSUME RtpPktsAssumption == RtpPkts \subseteq RtpPkt
ASSUME RtpParamsAssumption ==
    /\ NoRTPPcap \in BOOLEAN
    /\ IdleSec \in Nat
    /\ Grace \in Nat
    /\ Nil \notin Path

VARIABLES
    pcapWriters,    \* key -> path of the open pcap file, or Nil
    wavWriters,     \* key -> path of the open audio file
    stateMap,       \* key -> statistics of the open stream
    closedStreams,  \* keys whose packets are discarded
    broken,         \* keys a flush of whose pcap writer has failed
    pcapFiles,      \* path -> packets the pcap writer took
    onDisk,         \* path -> whole packets in the pcap file
    wavFiles,       \* path -> packets handed to the audio writer
    recorded        \* key -> times its metrics were added to its Call

rtpVars == <<pcapWriters, wavWriters, stateMap, closedStreams, broken,
             pcapFiles, onDisk, wavFiles, recorded>>

(* rtpstats.go, rtpStreamState, as far as closing a stream depends on it.  *)
rtpStreamState == [lastSeen : Nat, received : Nat]

RtpInit ==
    /\ pcapWriters = << >> /\ wavWriters = << >> /\ stateMap = << >>
    /\ closedStreams = {} /\ broken = {}
    /\ pcapFiles = << >> /\ onDisk = << >> /\ wavFiles = << >>
    /\ recorded = [k \in rtpKey |-> 0]

-----------------------------------------------------------------------------
(* Which Call a packet belongs to, and which side of it.                   *)

Routed(p) == p.src \in DOMAIN endpointMap \/ p.dst \in DOMAIN endpointMap

(* The source decides; the destination only when the source is unknown.    *)
OwnerOf(p) == IF p.src \in DOMAIN endpointMap THEN endpointMap[p.src]
                                              ELSE endpointMap[p.dst]

(* Mutant of KeyOf: streams keyed by the source address.                   *)
KeyOf_source(p) == [callID |-> p.src, ssrc |-> p.ssrc]

KeyOf(p) == [callID |-> OwnerOf(p), ssrc |-> p.ssrc]

(* Mutant of SideOf: endpoints of responses are not looked up.             *)
SideOf_requests(call, e) ==
    IF e \in call.callerEndpoints THEN "caller" ELSE "unknown"

(* The side that announced an endpoint; an endpoint both sides announced   *)
(* counts as the caller's.                                                 *)
SideOf(call, e) ==
    IF e \in call.callerEndpoints THEN "caller"
    ELSE IF e \in call.calleeEndpoints THEN "callee" ELSE "unknown"

Opposite == [caller |-> "callee", callee |-> "caller", unknown |-> "unknown"]

RoleOf(call, p) ==
    IF SideOf(call, p.src) # "unknown" THEN SideOf(call, p.src)
                                       ELSE Opposite[SideOf(call, p.dst)]

PathOf(call, p) ==
    [dir |-> call.directory, role |-> RoleOf(call, p), ssrc |-> p.ssrc]

(* The call has ended more than the grace period before ts.                *)
Ended(call, ts) == call.disconnectedAt > 0 /\ ts > call.disconnectedAt + Grace

(* Mutant of SetMediaFlow: the callee counts only when it came first.      *)
SetMediaFlow_elseIf(call, role) ==
    [call EXCEPT !.hadCallerRTP = @ \/ role = "caller",
                 !.hadCalleeRTP = @ \/ (role = "callee" /\ ~call.hadCallerRTP)]

SetMediaFlow(call, role) ==
    [call EXCEPT !.hadCallerRTP = @ \/ role = "caller",
                 !.hadCalleeRTP = @ \/ role = "callee"]

-----------------------------------------------------------------------------
(* processRTPPkt, one disjunct per way through it.                         *)

(* Mutant of Discarded: closed streams are opened again.                   *)
Discarded_never(p) == FALSE

Discarded(p) == KeyOf(p) \in closedStreams
Accepted(p)  == Routed(p) /\ ~p.short /\ ~Discarded(p)
IsNewStream(p) == Accepted(p) /\ KeyOf(p) \notin DOMAIN stateMap

IgnoreRtp(p) ==
    /\ ~Accepted(p)
    /\ UNCHANGED <<rtpVars, calls>>

RefuseStream(p, ts) ==
    /\ IsNewStream(p) /\ Ended(calls[OwnerOf(p)], ts)
    /\ closedStreams' = closedStreams \cup {KeyOf(p)}
    /\ UNCHANGED <<pcapWriters, wavWriters, stateMap, broken, pcapFiles,
                   onDisk, wavFiles, recorded, calls>>

(* NewPcapWriter returns an error: nothing is stored, the next packet of   *)
(* the stream tries again.                                                 *)
CreatePcapFails(p, ts) ==
    /\ IsNewStream(p) /\ ~Ended(calls[OwnerOf(p)], ts)
    /\ ~NoRTPPcap
    /\ UNCHANGED <<rtpVars, calls>>

(* rtpStreamState.update.                                                  *)
Update(state, ts) == [lastSeen |-> ts, received |-> state.received + 1]

(* The files of a new stream, created empty and given their first packet,  *)
(* which only reaches the buffer.                                          *)
OpenPcap(k, path) ==
    IF NoRTPPcap
    THEN pcapWriters' = Put(pcapWriters, k, Nil) /\ UNCHANGED <<pcapFiles, onDisk>>
    ELSE /\ pcapWriters' = Put(pcapWriters, k, path)
         /\ pcapFiles' = Put(pcapFiles, path, 1)
         /\ onDisk' = Put(onDisk, path, 0)

(* makeWriter may fail or find no decoder: the stream then has no audio.   *)
OpenWav(k, path) ==
    \/ /\ wavWriters' = Put(wavWriters, k, path)
       /\ wavFiles' = Put(wavFiles, path, 1)
    \/ UNCHANGED <<wavWriters, wavFiles>>

OpenStream(p, ts) ==
    LET id   == OwnerOf(p)
        key  == KeyOf(p)
        path == PathOf(calls[id], p)
    IN  /\ IsNewStream(p) /\ ~Ended(calls[id], ts)
        /\ OpenPcap(key, path)
        /\ OpenWav(key, path)
        /\ stateMap' = Put(stateMap, key, Update([lastSeen |-> 0, received |-> 0], ts))
        /\ calls' = Put(calls, id, SetMediaFlow(calls[id], path.role))
        /\ UNCHANGED <<closedStreams, broken, recorded>>

WavWrite(k) ==
    wavFiles' = IF k \in DOMAIN wavWriters
                THEN [wavFiles EXCEPT ![wavWriters[k]] = @ + 1] ELSE wavFiles

(* A packet that does not fit the buffer any more flushes those before it. *)
PcapWrite(k) ==
    IF pcapWriters[k] = Nil
    THEN UNCHANGED <<pcapFiles, onDisk>>
    ELSE LET f == pcapWriters[k]
         IN  /\ pcapFiles' = [pcapFiles EXCEPT ![f] = @ + 1]
             /\ onDisk' \in {onDisk, [onDisk EXCEPT ![f] = pcapFiles[f]]}

StreamPacket(p, ts) ==
    LET key == KeyOf(p)
    IN  /\ Accepted(p) /\ key \in DOMAIN stateMap \ broken
        /\ PcapWrite(key)
        /\ WavWrite(key)
        /\ stateMap' = Put(stateMap, key, Update(stateMap[key], ts))
        /\ UNCHANGED <<pcapWriters, wavWriters, closedStreams, broken,
                       recorded, calls>>

(* An early return: audio and statistics do not see the packet.            *)
NotCounted(k) == UNCHANGED <<wavFiles, stateMap>>

(* A write fails when the flush it causes does: what was in the buffer is  *)
(* lost from some packet on, though audio and statistics have seen it.     *)
(* The error of a bufio.Writer is sticky: all later writes fail without    *)
(* touching the file.                                                      *)
FailedFlush(k) ==
    LET f == pcapWriters[k]
    IN  \E n \in onDisk[f] .. pcapFiles[f] : onDisk' = [onDisk EXCEPT ![f] = n]

PcapWriteFails(p) ==
    LET key == KeyOf(p)
    IN  /\ Accepted(p) /\ key \in DOMAIN stateMap
        /\ pcapWriters[key] # Nil
        /\ \/ key \in broken /\ UNCHANGED onDisk
           \/ key \notin broken /\ FailedFlush(key)
        /\ broken' = broken \cup {key}
        /\ NotCounted(key)
        /\ UNCHANGED <<pcapWriters, wavWriters, closedStreams, pcapFiles,
                       recorded, calls>>

processRTPPkt(p, ts) ==
    /\ \/ IgnoreRtp(p)
       \/ RefuseStream(p, ts)
       \/ CreatePcapFails(p, ts)
       \/ OpenStream(p, ts)
       \/ StreamPacket(p, ts)
       \/ PcapWriteFails(p)
    /\ UNCHANGED <<endpointMap, usedDirs, rejectedIDs, traces>>

-----------------------------------------------------------------------------
(* Closing streams.                                                        *)

(* rtpStreamState.finalize: one packet makes no metrics.                   *)
Finalize(S) ==
    recorded' = [k \in rtpKey |->
        IF k \in S /\ stateMap[k].received >= 2 THEN recorded[k] + 1 ELSE recorded[k]]

(* Mutant of Idle: one second too late.                                    *)
Idle_late(k, ts) ==
    /\ IdleSec > 0
    /\ ts > stateMap[k].lastSeen + IdleSec + 1

Idle(k, ts) ==
    /\ IdleSec > 0
    /\ stateMap[k].lastSeen > 0
    /\ ts > stateMap[k].lastSeen + IdleSec

Expired(ts) ==
    {k \in DOMAIN stateMap : Idle(k, ts) \/ Ended(calls[k.callID], ts)}

(* Mutant of ClosePcaps: the files are closed without a flush.             *)
ClosePcaps_noFlush(S) ==
    pcapWriters' = Without(pcapWriters, S) /\ UNCHANGED <<onDisk, broken>>

(* PcapWriter.Close of every pcap in S: the last flush writes the rest of  *)
(* the buffer, or fails and loses some of it; its error is ignored.  After *)
(* an earlier error there is nothing more to come.                         *)
ClosePcaps(S) ==
    LET closing == {k \in S \cap DOMAIN pcapWriters : pcapWriters[k] # Nil}
        flushed == {pcapWriters[k] : k \in closing \ broken}
    IN  /\ pcapWriters' = Without(pcapWriters, S)
        /\ onDisk' \in [DOMAIN onDisk -> UNION {0 .. pcapFiles[f] : f \in DOMAIN pcapFiles}]
        /\ \A f \in DOMAIN onDisk :
              IF f \in flushed THEN onDisk'[f] \in onDisk[f] .. pcapFiles[f]
                              ELSE onDisk'[f] = onDisk[f]
        /\ broken' = broken \cup {k \in closing :
                        onDisk'[pcapWriters[k]] < pcapFiles[pcapWriters[k]]}

(* Mutant of CloseWriters: audio writers are forgotten.                    *)
CloseWriters_noWav(S) ==
    /\ ClosePcaps(S)
    /\ stateMap' = Without(stateMap, S)
    /\ UNCHANGED wavWriters

CloseWriters(S) ==
    /\ ClosePcaps(S)
    /\ wavWriters' = Without(wavWriters, S)
    /\ stateMap' = Without(stateMap, S)

sweepIdleStreams(ts) ==
    /\ Finalize(Expired(ts))
    /\ CloseWriters(Expired(ts))
    /\ closedStreams' = closedStreams \cup Expired(ts)
    /\ UNCHANGED <<pcapFiles, wavFiles, sipVars>>

(* Mutant of Cleanup: open streams are closed without being finalized.     *)
Cleanup_noMetrics ==
    /\ CloseWriters(rtpKey)
    /\ UNCHANGED <<closedStreams, recorded, pcapFiles, wavFiles, sipVars>>

(* The deferred function of analyze and extractRTP.                        *)
Cleanup ==
    /\ Finalize(DOMAIN stateMap)
    /\ CloseWriters(rtpKey)
    /\ UNCHANGED <<closedStreams, pcapFiles, wavFiles, sipVars>>

-----------------------------------------------------------------------------
(* Types of the maps the RTP loop keeps and of the files it writes.        *)
RtpTypeOK ==
    /\ IsMap(pcapWriters, rtpKey, Path \cup {Nil})
    /\ IsMap(wavWriters, rtpKey, Path)
    /\ IsMap(stateMap, rtpKey, rtpStreamState)
    /\ closedStreams \subseteq rtpKey
    /\ broken \subseteq rtpKey
    /\ IsMap(pcapFiles, Path, Nat)
    /\ IsMap(onDisk, Path, Nat) /\ DOMAIN onDisk = DOMAIN pcapFiles
    /\ IsMap(wavFiles, Path, Nat)
    /\ recorded \in [rtpKey -> Nat]

(* f is a file of the stream k.                                            *)
IsFileOf(f, k) ==
    /\ k.callID \in DOMAIN calls
    /\ f.dir = calls[k.callID].directory
    /\ f.ssrc = k.ssrc

(* The maps of the loop have the same streams open, none of them closed    *)
(* before, each of a Call in the table.                                    *)
WritersFollowStreams ==
    /\ DOMAIN pcapWriters = DOMAIN stateMap
    /\ DOMAIN wavWriters \subseteq DOMAIN stateMap
    /\ DOMAIN stateMap \cap closedStreams = {}
    /\ \A k \in DOMAIN stateMap : k.callID \in DOMAIN calls

(* No file is ever called rtp_unknown_*: the default branch of the switch  *)
(* over the sides cannot be reached, whatever SIP did between the routes   *)
(* being set and the packet being read.                                    *)
RoleKnown ==
    \A f \in DOMAIN pcapFiles \cup DOMAIN wavFiles : f.role # "unknown"

(* A stream has one pcap file: its role does not change under it when SIP  *)
(* moves endpoints between the sides, nor when its creation was retried.   *)
OneFilePerStream ==
    \A f, g \in DOMAIN pcapFiles : f.dir = g.dir /\ f.ssrc = g.ssrc => f = g

(* The pcap writer, the audio writer and the statistics of an open stream  *)
(* have taken the same packets, also after a write that failed: what the   *)
(* pcap writer refuses is neither played nor counted.                      *)
SamePackets ==
    \A k \in DOMAIN stateMap :
        /\ pcapWriters[k] # Nil =>
              pcapFiles[pcapWriters[k]] = stateMap[k].received
        /\ k \in DOMAIN wavWriters =>
              wavFiles[wavWriters[k]] = stateMap[k].received

(* A pcap file holds no packet its writer did not take, and once its       *)
(* stream is closed it holds all of them, unless a flush has failed: no    *)
(* way of closing a stream leaves packets in the buffer.                   *)
FilesComplete ==
    \A f \in DOMAIN pcapFiles :
        /\ onDisk[f] <= pcapFiles[f]
        /\ \/ onDisk[f] = pcapFiles[f]
           \/ \E k \in DOMAIN stateMap \cup broken : IsFileOf(f, k)

(* What the rows say of a stream and what its files hold is the same:      *)
(* pcap, audio and statistics take the same packets while it is open, also *)
(* after a write that failed, and the pcap keeps them when it is closed,   *)
(* by whatever way the loop goes on or ends.                               *)
OutputsAgree == SamePackets /\ FilesComplete

(* The media_flow column says what is in the directory: a side has its     *)
(* flag iff a file of that side was created.                               *)
MediaFlowMatchesFiles ==
    ~NoRTPPcap =>
      \A c \in DOMAIN calls :
        LET sides == {f.role : f \in {g \in DOMAIN pcapFiles :
                                        g.dir = calls[c].directory}}
        IN  /\ calls[c].hadCallerRTP <=> "caller" \in sides
            /\ calls[c].hadCalleeRTP <=> "callee" \in sides

OfClosedStream(f) == \E k \in closedStreams : IsFileOf(f, k)

Grows(old, new) == \A f \in DOMAIN old : Lookup(new, f, 0) >= old[f]

Frozen(old, new) ==
    \A f \in DOMAIN new : OfClosedStream(f) => f \in DOMAIN old /\ new[f] = old[f]

(* A file never shrinks (a stream is never reopened and truncated), and    *)
(* the files of a closed stream do not change any more.                    *)
FilesOnlyGrow ==
    /\ Grows(pcapFiles, pcapFiles') /\ Frozen(pcapFiles, pcapFiles')
    /\ Grows(onDisk, onDisk') /\ Frozen(onDisk, onDisk')
    /\ Grows(wavFiles, wavFiles') /\ Frozen(wavFiles, wavFiles')

=============================================================================
