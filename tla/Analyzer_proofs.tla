--------------------------- MODULE Analyzer_proofs ---------------------------
(***************************************************************************)
(* SIP and RTP together: for every capture, every mode and every pattern   *)
(* of failures the maps of the loop stay in step, every stream knows its   *)
(* side and has one file, and nothing written is truncated later.          *)
(*                                                                         *)
(* LoopInv is inductive.  That opening a stream does not wipe a file needs *)
(* that every file there is belongs to a stream that is open or closed     *)
(* (AllFilesHaveStreams), and that two streams have no file in common      *)
(* (FileOfOneStream, from DirectoriesDisjoint).                            *)
(*                                                                         *)
(* The second half is what the program has to show for its streams: pcap,  *)
(* audio and statistics have taken the same packets, media_flow names the  *)
(* files that are there, metrics count once, and no stream outlives a      *)
(* sweep it should have fallen to.  All rest on LoopInv.                   *)
(***************************************************************************)
EXTENDS Analyzer, SipDialogs_proofs

AllFilesHaveStreams ==
    \A f \in DOMAIN pcapFiles \cup DOMAIN wavFiles :
        \E k \in DOMAIN stateMap \cup closedStreams : IsFileOf(f, k)

WritersOwnFiles ==
    /\ \A k \in DOMAIN pcapWriters :
          pcapWriters[k] # Nil =>
            pcapWriters[k] \in DOMAIN pcapFiles /\ IsFileOf(pcapWriters[k], k)
    /\ \A k \in DOMAIN wavWriters :
          wavWriters[k] \in DOMAIN wavFiles /\ IsFileOf(wavWriters[k], k)

(* The file is behind what its writer took, by what is in the buffer.      *)
DiskBehind == \A f \in DOMAIN onDisk : onDisk[f] <= pcapFiles[f]

(* The part of the invariant that the end of the program keeps as well.    *)
StreamInv ==
    /\ SipInv /\ RtpTypeOK /\ DiskBehind
    /\ WritersFollowStreams /\ RoleKnown /\ OneFilePerStream /\ WritersOwnFiles

(* The clean-up forgets the open streams, and their files stay.            *)
LoopInv ==
    /\ TypeOK /\ StreamInv
    /\ pc \in {"read", "sweep"} => AllFilesHaveStreams

-----------------------------------------------------------------------------
(* A dialog in the table stays there and keeps its directory.              *)
CallsKept ==
    \A c \in DOMAIN calls :
        c \in DOMAIN calls' /\ calls'[c].directory = calls[c].directory

(* No message removes a Call or moves its directory.                       *)
LEMMA SipKeepsCalls ==
    ASSUME SipInv, NEW m \in SipMsgs, NEW ts \in Times, processSIPPkt(m, ts)
    PROVE  CallsKept
<1>1. CASE UNCHANGED calls
  BY <1>1 DEF CallsKept
<1>2. CASE OpenDialog(m, ts)
  <2>1. PICK call : m.callId \notin DOMAIN calls /\ Deliver(call, m, ts)
    BY <1>2 DEF OpenDialog, IsNew
  <2> QED
    BY <2>1 DEF Deliver, Put, CallsKept
<1>3. CASE UpdateDialog(m, ts)
  <2>1. /\ m.callId \in DOMAIN calls
        /\ calls' = Put(calls, m.callId, Absorb(calls[m.callId], m, ts))
    BY <1>3 DEF UpdateDialog, Deliver
  <2>2. calls[m.callId] \in Call
    BY <2>1 DEF SipInv, SipTypeOK, IsMap
  <2>3. Absorb(calls[m.callId], m, ts).directory = calls[m.callId].directory
    BY <2>2, AbsorbCall
  <2> QED
    BY <2>1, <2>3 DEF Put, CallsKept
<1> QED
  BY <1>1, <1>2, <1>3
     DEF processSIPPkt, IgnoreSip, RejectDialog, MkdirFails, sipVars

(* What the streams need of the table does not change with it.             *)
LEMMA SipUnchanged ==
    ASSUME SipInv, UNCHANGED sipVars
    PROVE  SipInv'
    BY DEF sipVars, SipInv, SipTypeOK, RoutingAgreement, RoutedToAnnouncer,
           AnnouncedIsRouted, SidesCoverEndpoints, DirectoriesDisjoint,
           RejectionIsFinal

(* Setting a media-flow flag changes nothing the table's invariant reads.  *)
LEMMA FlagsKeepSip ==
    ASSUME SipInv, NEW id \in DOMAIN calls, NEW role,
           calls' = Put(calls, id, SetMediaFlow(calls[id], role)),
           UNCHANGED <<endpointMap, usedDirs, rejectedIDs, traces>>
    PROVE  SipInv' /\ CallsKept
<1> DEFINE call == calls[id]
           after == SetMediaFlow(call, role)
<1>1. call \in Call /\ id \in CallIds
  BY DEF SipInv, SipTypeOK, IsMap
<1>2. /\ after \in Call
      /\ after.directory = call.directory
      /\ after.endpoints = call.endpoints
      /\ after.callerEndpoints = call.callerEndpoints
      /\ after.calleeEndpoints = call.calleeEndpoints
  BY <1>1 DEF SetMediaFlow, Call
<1> HIDE DEF after
<1>3. /\ DOMAIN calls' = DOMAIN calls
      /\ \A c \in DOMAIN calls :
            /\ calls'[c].directory = calls[c].directory
            /\ calls'[c].endpoints = calls[c].endpoints
            /\ calls'[c].callerEndpoints = calls[c].callerEndpoints
            /\ calls'[c].calleeEndpoints = calls[c].calleeEndpoints
  BY <1>2 DEF Put, after
<1>4. SipTypeOK'
  <2>1. IsMap(calls, CallIds, Call)'
    BY <1>1, <1>2, PutIsMap DEF SipInv, SipTypeOK, after
  <2> QED
    BY <2>1 DEF SipInv, SipTypeOK
<1>5. RoutingAgreement'
  <2>1. RoutedToAnnouncer'
    BY <1>3 DEF SipInv, RoutingAgreement, RoutedToAnnouncer
  <2>2. AnnouncedIsRouted'
    BY <1>3 DEF SipInv, RoutingAgreement, AnnouncedIsRouted
  <2>3. SidesCoverEndpoints'
    BY <1>3 DEF SipInv, RoutingAgreement, SidesCoverEndpoints
  <2> QED
    BY <2>1, <2>2, <2>3 DEF RoutingAgreement
<1>6. DirectoriesDisjoint'
  BY <1>3 DEF SipInv, DirectoriesDisjoint
<1>7. RejectionIsFinal'
  BY <1>3 DEF SipInv, RejectionIsFinal
<1> QED
  BY <1>3, <1>4, <1>5, <1>6, <1>7 DEF SipInv, CallsKept

-----------------------------------------------------------------------------
(* A routed packet has a Call, a known side and a file of its stream: the  *)
(* endpoint that routes it was announced, so it has a side.                *)
LEMMA RouteGivesRole ==
    ASSUME SipInv, NEW p \in RtpPkts, Routed(p)
    PROVE  LET id   == OwnerOf(p)
               path == PathOf(calls[id], p)
           IN  /\ id \in DOMAIN calls
               /\ KeyOf(p) \in rtpKey
               /\ KeyOf(p).callID = id
               /\ path \in Path
               /\ path.role # "unknown"
               /\ IsFileOf(path, KeyOf(p))
<1> DEFINE id   == OwnerOf(p)
           call == calls[id]
           path == PathOf(call, p)
<1>1. /\ p \in RtpPkt /\ p.ssrc \in SSRCs
  BY RtpPktsAssumption DEF RtpPkt
<1>2. /\ id \in DOMAIN calls
      /\ \/ p.src \in call.endpoints
         \/ p.dst \in call.endpoints
  BY DEF Routed, OwnerOf, SipInv, RoutingAgreement, RoutedToAnnouncer
<1>3. /\ call \in Call
      /\ call.endpoints = call.callerEndpoints \cup call.calleeEndpoints
      /\ id \in CallIds
  BY <1>2 DEF SipInv, SipTypeOK, IsMap, RoutingAgreement, SidesCoverEndpoints
<1>4. call.directory \in Names
  BY <1>3 DEF Call
<1>5. RoleOf(call, p) \in {"caller", "callee"}
  <2>1. \/ SideOf(call, p.src) \in {"caller", "callee"}
        \/ /\ SideOf(call, p.src) = "unknown"
           /\ SideOf(call, p.dst) \in {"caller", "callee"}
    BY <1>2, <1>3 DEF SideOf
  <2>2. Opposite["caller"] = "callee" /\ Opposite["callee"] = "caller"
    BY DEF Opposite
  <2> QED
    BY <2>1, <2>2 DEF RoleOf
<1>6. KeyOf(p) = [callID |-> id, ssrc |-> p.ssrc]
  BY DEF KeyOf
<1>7. path = [dir |-> call.directory, role |-> RoleOf(call, p), ssrc |-> p.ssrc]
  BY DEF PathOf
<1>8. path \in Path /\ path.role # "unknown"
  BY <1>1, <1>4, <1>5, <1>7 DEF Path, Roles
<1>9. KeyOf(p) \in rtpKey /\ KeyOf(p).callID = id
  BY <1>1, <1>3, <1>6 DEF rtpKey
<1>10. IsFileOf(path, KeyOf(p))
  BY <1>2, <1>6, <1>7 DEF IsFileOf
<1> QED
  BY <1>2, <1>8, <1>9, <1>10

(* No file belongs to two streams: directories tell the dialogs apart.     *)
LEMMA FileOfOneStream ==
    ASSUME SipInv, NEW j \in rtpKey, NEW k \in rtpKey, NEW f,
           IsFileOf(f, j), IsFileOf(f, k)
    PROVE  j = k
<1>1. j.callID = k.callID /\ j.ssrc = k.ssrc
  <2>1. /\ j.callID \in DOMAIN calls /\ f.dir = calls[j.callID].directory
        /\ f.ssrc = j.ssrc
    BY DEF IsFileOf
  <2>2. /\ k.callID \in DOMAIN calls /\ f.dir = calls[k.callID].directory
        /\ f.ssrc = k.ssrc
    BY DEF IsFileOf
  <2>3. \A c, d \in DOMAIN calls :
          calls[c].directory = calls[d].directory => c = d
    BY DEF SipInv, DirectoriesDisjoint
  <2>4. QED
    BY <2>1, <2>2, <2>3
<1>2. /\ j = [callID |-> j.callID, ssrc |-> j.ssrc]
      /\ k = [callID |-> k.callID, ssrc |-> k.ssrc]
  BY DEF rtpKey
<1> QED
  BY <1>1, <1>2

(* A step that leaves the files alone leaves them as long as they were.    *)
LEMMA FilesUntouched ==
    ASSUME RtpTypeOK, UNCHANGED <<pcapFiles, wavFiles>>,
           Grows(onDisk, onDisk'), Frozen(onDisk, onDisk')
    PROVE  FilesOnlyGrow
<1>1. /\ \A f \in DOMAIN pcapFiles : pcapFiles[f] \in Nat
      /\ \A f \in DOMAIN wavFiles : wavFiles[f] \in Nat
  BY DEF RtpTypeOK, IsMap
<1> QED
  BY <1>1 DEF FilesOnlyGrow, Grows, Frozen, Lookup

(* Nor does a step that leaves the disk alone change it.                   *)
LEMMA DiskUntouched ==
    ASSUME RtpTypeOK, UNCHANGED onDisk
    PROVE  Grows(onDisk, onDisk') /\ Frozen(onDisk, onDisk')
<1>1. \A f \in DOMAIN onDisk : onDisk[f] \in Nat
  BY DEF RtpTypeOK, IsMap
<1> QED
  BY <1>1 DEF Grows, Frozen, Lookup

(* Flushing files F of streams that are not closed: the files grow up to   *)
(* what their writers took.                                                *)
LEMMA FlushKeepsFiles ==
    ASSUME StreamInv, NEW F, \A f \in F : ~OfClosedStream(f),
           NEW disk, disk \in [DOMAIN onDisk -> Nat],
           \A f \in DOMAIN onDisk :
              IF f \in F THEN disk[f] \in onDisk[f] .. pcapFiles[f]
                        ELSE disk[f] = onDisk[f]
    PROVE  /\ IsMap(disk, Path, Nat)
           /\ \A f \in DOMAIN onDisk : disk[f] <= pcapFiles[f]
           /\ Grows(onDisk, disk) /\ Frozen(onDisk, disk)
<1>1. /\ IsMap(onDisk, Path, Nat) /\ IsMap(pcapFiles, Path, Nat)
      /\ DOMAIN onDisk = DOMAIN pcapFiles
      /\ \A f \in DOMAIN onDisk : onDisk[f] <= pcapFiles[f]
  BY DEF StreamInv, RtpTypeOK, DiskBehind
<1>2. \A f \in DOMAIN onDisk : onDisk[f] \in Nat /\ pcapFiles[f] \in Nat /\ disk[f] \in Nat
  BY <1>1 DEF IsMap
<1>3. \A f \in DOMAIN onDisk :
        /\ disk[f] <= pcapFiles[f] /\ disk[f] >= onDisk[f]
        /\ OfClosedStream(f) => disk[f] = onDisk[f]
  BY <1>1, <1>2
<1>4. DOMAIN disk = DOMAIN onDisk
  OBVIOUS
<1>5. IsMap(disk, Path, Nat)
  BY <1>1, <1>4 DEF IsMap
<1> QED
  BY <1>3, <1>4, <1>5 DEF Grows, Frozen, Lookup

-----------------------------------------------------------------------------
(* A SIP message leaves the streams as they were.                          *)
LEMMA SipStreamStep ==
    ASSUME StreamInv, NEW m \in SipMsgs, NEW ts \in Times,
           processSIPPkt(m, ts), UNCHANGED rtpVars
    PROVE  /\ StreamInv' /\ FilesOnlyGrow
           /\ AllFilesHaveStreams => AllFilesHaveStreams'
<1>1. SipInv' /\ CallsKept
  BY SipStep, SipKeepsCalls DEF StreamInv
<1>2. /\ UNCHANGED <<pcapWriters, wavWriters, stateMap, closedStreams, broken>>
      /\ UNCHANGED <<pcapFiles, onDisk, wavFiles, recorded>>
  BY DEF rtpVars
<1>3. FilesOnlyGrow
  BY <1>2, FilesUntouched, DiskUntouched DEF StreamInv
<1>4. RtpTypeOK' /\ DiskBehind' /\ RoleKnown' /\ OneFilePerStream'
  BY <1>2 DEF StreamInv, RtpTypeOK, DiskBehind, RoleKnown, OneFilePerStream
<1>5. WritersFollowStreams'
  BY <1>1, <1>2 DEF StreamInv, WritersFollowStreams, CallsKept
<1>6. WritersOwnFiles'
  <2>1. /\ \A k \in DOMAIN pcapWriters :
             pcapWriters[k] # Nil =>
               /\ pcapWriters[k] \in DOMAIN pcapFiles
               /\ IsFileOf(pcapWriters[k], k)'
        /\ \A k \in DOMAIN wavWriters :
             wavWriters[k] \in DOMAIN wavFiles /\ IsFileOf(wavWriters[k], k)'
    BY <1>1, <1>2 DEF StreamInv, WritersOwnFiles, IsFileOf, CallsKept
  <2> QED
    BY <1>2, <2>1 DEF WritersOwnFiles
<1>7. ASSUME AllFilesHaveStreams PROVE AllFilesHaveStreams'
  <2>1. \A f \in DOMAIN pcapFiles \cup DOMAIN wavFiles :
          \E k \in DOMAIN stateMap \cup closedStreams : IsFileOf(f, k)'
    BY <1>1, <1>7 DEF AllFilesHaveStreams, IsFileOf, CallsKept
  <2> QED
    BY <1>2, <2>1 DEF AllFilesHaveStreams
<1> QED
  BY <1>1, <1>3, <1>4, <1>5, <1>6, <1>7 DEF StreamInv

-----------------------------------------------------------------------------
(* A packet that is ignored, or whose stream could not be created.         *)
LEMMA NothingStep ==
    ASSUME StreamInv, UNCHANGED rtpVars, UNCHANGED sipVars
    PROVE  /\ StreamInv' /\ FilesOnlyGrow
           /\ AllFilesHaveStreams => AllFilesHaveStreams'
<1>1. SipInv' /\ UNCHANGED calls
  BY SipUnchanged DEF StreamInv, sipVars
<1>2. /\ UNCHANGED <<pcapWriters, wavWriters, stateMap, closedStreams, broken>>
      /\ UNCHANGED <<pcapFiles, onDisk, wavFiles, recorded>>
  BY DEF rtpVars
<1>3. FilesOnlyGrow
  BY <1>2, FilesUntouched, DiskUntouched DEF StreamInv
<1>4. RtpTypeOK' /\ DiskBehind' /\ RoleKnown' /\ OneFilePerStream'
  BY <1>2 DEF StreamInv, RtpTypeOK, DiskBehind, RoleKnown, OneFilePerStream
<1>5. WritersFollowStreams' /\ WritersOwnFiles'
  BY <1>1, <1>2 DEF StreamInv, WritersFollowStreams, WritersOwnFiles, IsFileOf
<1>6. AllFilesHaveStreams => AllFilesHaveStreams'
  BY <1>1, <1>2 DEF AllFilesHaveStreams, IsFileOf
<1> QED
  BY <1>1, <1>3, <1>4, <1>5, <1>6 DEF StreamInv

(* Refusing a stream of an ended call: its key had no stream.              *)
LEMMA RefuseStep ==
    ASSUME StreamInv, AllFilesHaveStreams, NEW p \in RtpPkts, NEW ts,
           RefuseStream(p, ts),
           UNCHANGED <<endpointMap, usedDirs, rejectedIDs, traces>>
    PROVE  StreamInv' /\ FilesOnlyGrow /\ AllFilesHaveStreams'
<1>1. /\ UNCHANGED sipVars
      /\ UNCHANGED <<pcapWriters, wavWriters, stateMap, broken>>
      /\ UNCHANGED <<pcapFiles, onDisk, wavFiles, recorded, calls>>
      /\ closedStreams' = closedStreams \cup {KeyOf(p)}
      /\ KeyOf(p) \notin DOMAIN stateMap
      /\ Routed(p)
  BY DEF RefuseStream, sipVars, IsNewStream, Accepted
<1>2. KeyOf(p) \in rtpKey
  BY <1>1, RouteGivesRole DEF StreamInv
<1>3. SipInv' /\ FilesOnlyGrow
  BY <1>1, SipUnchanged, FilesUntouched, DiskUntouched DEF StreamInv
<1>4. RtpTypeOK' /\ DiskBehind' /\ RoleKnown' /\ OneFilePerStream'
  BY <1>1, <1>2 DEF StreamInv, RtpTypeOK, DiskBehind, RoleKnown, OneFilePerStream
<1>5. WritersFollowStreams' /\ WritersOwnFiles'
  BY <1>1 DEF StreamInv, WritersFollowStreams, WritersOwnFiles, IsFileOf
<1>6. AllFilesHaveStreams'
  BY <1>1 DEF AllFilesHaveStreams, IsFileOf
<1> QED
  BY <1>3, <1>4, <1>5, <1>6 DEF StreamInv

(* A file of an open stream is not a file of a closed one.                 *)
LEMMA OpenIsNotClosed ==
    ASSUME StreamInv, NEW k \in DOMAIN stateMap, NEW f, IsFileOf(f, k)
    PROVE  ~OfClosedStream(f)
<1> SUFFICES ASSUME NEW j \in closedStreams, IsFileOf(f, j) PROVE FALSE
  BY DEF OfClosedStream
<1>1. j \in rtpKey /\ k \in rtpKey
  BY DEF StreamInv, RtpTypeOK, IsMap
<1>2. j = k
  BY <1>1, FileOfOneStream DEF StreamInv
<1> QED
  BY <1>2 DEF StreamInv, WritersFollowStreams

(* A packet of an open stream lengthens the files of that stream only.     *)
LEMMA PacketStep ==
    ASSUME StreamInv, AllFilesHaveStreams, NEW p \in RtpPkts, NEW ts \in Times,
           StreamPacket(p, ts),
           UNCHANGED <<endpointMap, usedDirs, rejectedIDs, traces>>
    PROVE  StreamInv' /\ FilesOnlyGrow /\ AllFilesHaveStreams'
<1> DEFINE key == KeyOf(p)
<1>1. /\ UNCHANGED sipVars
      /\ UNCHANGED <<pcapWriters, wavWriters, closedStreams, broken>>
      /\ UNCHANGED <<recorded, calls>>
      /\ key \in DOMAIN stateMap
      /\ stateMap' = Put(stateMap, key, Update(stateMap[key], ts))
      /\ PcapWrite(key) /\ WavWrite(key)
  BY DEF StreamPacket, sipVars
<1> HIDE DEF key
<1>2. SipInv'
  BY <1>1, SipUnchanged DEF StreamInv
<1>3. /\ IsMap(pcapFiles, Path, Nat) /\ IsMap(wavFiles, Path, Nat)
      /\ IsMap(stateMap, rtpKey, rtpStreamState)
      /\ DOMAIN pcapWriters = DOMAIN stateMap
  BY DEF StreamInv, RtpTypeOK, WritersFollowStreams
<1>4. /\ DOMAIN pcapFiles' = DOMAIN pcapFiles
      /\ IsMap(pcapFiles', Path, Nat)
      /\ \A f \in DOMAIN pcapFiles :
            /\ pcapFiles'[f] >= pcapFiles[f]
            /\ OfClosedStream(f) => pcapFiles'[f] = pcapFiles[f]
      /\ IsMap(onDisk', Path, Nat) /\ DOMAIN onDisk' = DOMAIN onDisk
      /\ \A f \in DOMAIN onDisk : onDisk'[f] <= pcapFiles[f]
      /\ Grows(onDisk, onDisk') /\ Frozen(onDisk, onDisk')
  <2> DEFINE w == pcapWriters[key]
  <2>1. CASE pcapWriters[key] = Nil
    <3>1. UNCHANGED <<pcapFiles, onDisk>>
      BY <1>1, <2>1 DEF PcapWrite
    <3>2. Grows(onDisk, onDisk') /\ Frozen(onDisk, onDisk')
      BY <3>1, DiskUntouched DEF StreamInv
    <3> QED
      BY <1>3, <3>1, <3>2 DEF IsMap, DiskBehind, StreamInv, RtpTypeOK
  <2>2. CASE pcapWriters[key] # Nil
    <3>1. w \in DOMAIN pcapFiles /\ IsFileOf(w, key)
      BY <1>1, <1>3, <2>2 DEF StreamInv, WritersOwnFiles
    <3>2. ~OfClosedStream(w)
      BY <1>1, <3>1, OpenIsNotClosed
    <3>3. /\ pcapFiles' = [pcapFiles EXCEPT ![w] = @ + 1]
          /\ onDisk' \in {onDisk, [onDisk EXCEPT ![w] = pcapFiles[w]]}
      BY <1>1, <2>2 DEF PcapWrite
    <3> HIDE DEF w
    <3>4. PICK disk : disk = onDisk'
      OBVIOUS
    <3>5. /\ IsMap(onDisk, Path, Nat) /\ DOMAIN onDisk = DOMAIN pcapFiles
          /\ \A f \in DOMAIN onDisk : onDisk[f] <= pcapFiles[f]
      BY DEF StreamInv, RtpTypeOK, DiskBehind
    <3>6. /\ disk \in [DOMAIN onDisk -> Nat]
          /\ \A f \in DOMAIN onDisk :
               IF f \in {w} THEN disk[f] \in onDisk[f] .. pcapFiles[f]
                            ELSE disk[f] = onDisk[f]
      BY <1>3, <3>1, <3>3, <3>4, <3>5 DEF IsMap
    <3>7. /\ IsMap(disk, Path, Nat)
          /\ \A f \in DOMAIN onDisk : disk[f] <= pcapFiles[f]
          /\ Grows(onDisk, disk) /\ Frozen(onDisk, disk)
      BY <3>2, <3>6, FlushKeepsFiles
    <3>8. /\ DOMAIN pcapFiles' = DOMAIN pcapFiles
          /\ IsMap(pcapFiles', Path, Nat)
          /\ \A f \in DOMAIN pcapFiles :
               /\ pcapFiles'[f] >= pcapFiles[f]
               /\ OfClosedStream(f) => pcapFiles'[f] = pcapFiles[f]
      BY <1>3, <3>1, <3>2, <3>3 DEF IsMap
    <3>9. DOMAIN disk = DOMAIN onDisk
      BY <3>6
    <3> QED
      BY <3>4, <3>7, <3>8, <3>9
  <2> QED
    BY <2>1, <2>2
<1>5. /\ DOMAIN wavFiles' = DOMAIN wavFiles
      /\ IsMap(wavFiles', Path, Nat)
      /\ \A f \in DOMAIN wavFiles :
            /\ wavFiles'[f] >= wavFiles[f]
            /\ OfClosedStream(f) => wavFiles'[f] = wavFiles[f]
  <2>1. CASE key \notin DOMAIN wavWriters
    BY <1>1, <1>3, <2>1 DEF WavWrite, IsMap
  <2>2. CASE key \in DOMAIN wavWriters
    <3>1. /\ wavWriters[key] \in DOMAIN wavFiles
          /\ IsFileOf(wavWriters[key], key)
      BY <2>2 DEF StreamInv, WritersOwnFiles
    <3>2. ~OfClosedStream(wavWriters[key])
      BY <1>1, <3>1, OpenIsNotClosed
    <3>3. wavFiles' = [wavFiles EXCEPT ![wavWriters[key]] = @ + 1]
      BY <1>1, <2>2 DEF WavWrite
    <3> QED
      BY <1>3, <3>1, <3>2, <3>3 DEF IsMap
  <2> QED
    BY <2>1, <2>2
<1>6. FilesOnlyGrow
  <2>1. Grows(pcapFiles, pcapFiles') /\ Frozen(pcapFiles, pcapFiles')
    BY <1>4 DEF Grows, Frozen, Lookup
  <2>2. Grows(wavFiles, wavFiles') /\ Frozen(wavFiles, wavFiles')
    BY <1>5 DEF Grows, Frozen, Lookup
  <2> QED
    BY <1>4, <2>1, <2>2 DEF FilesOnlyGrow
<1>7. /\ IsMap(stateMap', rtpKey, rtpStreamState)
      /\ DOMAIN stateMap' = DOMAIN stateMap
  <2>1. key \in rtpKey /\ stateMap[key] \in rtpStreamState
    BY <1>1, <1>3 DEF IsMap
  <2>2. Update(stateMap[key], ts) \in rtpStreamState
    BY <2>1, TimesAssumption DEF Update, rtpStreamState
  <2>3. DOMAIN stateMap' = DOMAIN stateMap
    BY <1>1 DEF Put
  <2> QED
    BY <1>1, <1>3, <2>1, <2>2, <2>3, PutIsMap
<1>8. RtpTypeOK' /\ RoleKnown' /\ OneFilePerStream'
  BY <1>1, <1>4, <1>5, <1>7 DEF StreamInv, RtpTypeOK, RoleKnown, OneFilePerStream
<1>9. WritersFollowStreams'
  BY <1>1, <1>7 DEF StreamInv, WritersFollowStreams
<1>10. WritersOwnFiles' /\ AllFilesHaveStreams'
  BY <1>1, <1>4, <1>5, <1>7
     DEF StreamInv, WritersOwnFiles, AllFilesHaveStreams, IsFileOf
<1>11. DiskBehind'
  <2>1. DOMAIN onDisk = DOMAIN pcapFiles
    BY DEF StreamInv, RtpTypeOK
  <2>2. \A f \in DOMAIN onDisk :
          pcapFiles[f] \in Nat /\ pcapFiles'[f] \in Nat /\ onDisk'[f] \in Nat
    BY <1>3, <1>4, <2>1 DEF IsMap
  <2> QED
    BY <1>4, <2>1, <2>2 DEF DiskBehind
<1> QED
  BY <1>2, <1>6, <1>8, <1>9, <1>10, <1>11 DEF StreamInv

(* A failed pcap write: what the flush before it wrote stays.              *)
LEMMA BrokenStep ==
    ASSUME StreamInv, AllFilesHaveStreams, NEW p \in RtpPkts, PcapWriteFails(p),
           UNCHANGED <<endpointMap, usedDirs, rejectedIDs, traces>>
    PROVE  StreamInv' /\ FilesOnlyGrow /\ AllFilesHaveStreams'
<1> DEFINE key == KeyOf(p)
           w   == pcapWriters[key]
<1>1. /\ UNCHANGED sipVars
      /\ UNCHANGED <<pcapWriters, wavWriters, stateMap, closedStreams>>
      /\ UNCHANGED <<pcapFiles, wavFiles, recorded, calls>>
      /\ broken' = broken \cup {key}
      /\ key \in DOMAIN stateMap /\ w # Nil
      /\ UNCHANGED onDisk \/ FailedFlush(key)
  BY DEF PcapWriteFails, NotCounted, sipVars
<1>2. key \in rtpKey /\ DOMAIN pcapWriters = DOMAIN stateMap
  BY <1>1 DEF StreamInv, RtpTypeOK, WritersFollowStreams, IsMap
<1>3. w \in DOMAIN pcapFiles /\ ~OfClosedStream(w)
  BY <1>1, <1>2, OpenIsNotClosed DEF StreamInv, WritersOwnFiles
<1> HIDE DEF key
<1>4. /\ IsMap(onDisk, Path, Nat) /\ DOMAIN onDisk = DOMAIN pcapFiles
      /\ IsMap(pcapFiles, Path, Nat)
      /\ \A f \in DOMAIN onDisk : onDisk[f] <= pcapFiles[f]
  BY DEF StreamInv, RtpTypeOK, DiskBehind
<1>5. PICK n : /\ n \in onDisk[w] .. pcapFiles[w]
               /\ onDisk' = [onDisk EXCEPT ![w] = n]
  <2>1. CASE FailedFlush(key)
    BY <2>1 DEF FailedFlush
  <2>2. CASE UNCHANGED onDisk
    <3>1. onDisk[w] \in onDisk[w] .. pcapFiles[w]
      BY <1>3, <1>4 DEF IsMap
    <3>2. onDisk = [onDisk EXCEPT ![w] = onDisk[w]]
      BY <1>3, <1>4 DEF IsMap
    <3> QED
      BY <2>2, <3>1, <3>2
  <2> QED
    BY <1>1, <2>1, <2>2
<1> HIDE DEF w
<1>6. PICK disk : disk = onDisk'
  OBVIOUS
<1>7. /\ disk \in [DOMAIN onDisk -> Nat]
      /\ \A f \in DOMAIN onDisk :
            IF f \in {w} THEN disk[f] \in onDisk[f] .. pcapFiles[f]
                         ELSE disk[f] = onDisk[f]
  BY <1>3, <1>4, <1>5, <1>6 DEF IsMap
<1>8. /\ IsMap(disk, Path, Nat)
      /\ \A f \in DOMAIN onDisk : disk[f] <= pcapFiles[f]
      /\ Grows(onDisk, disk) /\ Frozen(onDisk, disk)
  BY <1>3, <1>7, FlushKeepsFiles
<1>9. DOMAIN disk = DOMAIN onDisk
  BY <1>7
<1>10. SipInv' /\ FilesOnlyGrow
  BY <1>1, <1>6, <1>8, SipUnchanged, FilesUntouched DEF StreamInv
<1>11. RtpTypeOK' /\ RoleKnown' /\ OneFilePerStream'
  BY <1>1, <1>2, <1>6, <1>8, <1>9
     DEF StreamInv, RtpTypeOK, RoleKnown, OneFilePerStream
<1>12. DiskBehind'
  BY <1>1, <1>6, <1>8, <1>9 DEF DiskBehind
<1>13. WritersFollowStreams' /\ WritersOwnFiles'
  BY <1>1 DEF StreamInv, WritersFollowStreams, WritersOwnFiles, IsFileOf
<1>14. AllFilesHaveStreams'
  BY <1>1 DEF AllFilesHaveStreams, IsFileOf
<1> QED
  BY <1>10, <1>11, <1>12, <1>13, <1>14 DEF StreamInv

(* A new stream has no file yet: its files are created, none is truncated. *)
LEMMA OpenStep ==
    ASSUME StreamInv, AllFilesHaveStreams, NEW p \in RtpPkts, NEW ts \in Times,
           OpenStream(p, ts),
           UNCHANGED <<endpointMap, usedDirs, rejectedIDs, traces>>
    PROVE  StreamInv' /\ FilesOnlyGrow /\ AllFilesHaveStreams'
<1> DEFINE id   == OwnerOf(p)
           key  == KeyOf(p)
           path == PathOf(calls[id], p)
           new  == Update([lastSeen |-> 0, received |-> 0], ts)
<1>1. /\ Routed(p) /\ key \notin DOMAIN stateMap /\ key \notin closedStreams
      /\ OpenPcap(key, path) /\ OpenWav(key, path)
      /\ stateMap' = Put(stateMap, key, new)
      /\ calls' = Put(calls, id, SetMediaFlow(calls[id], path.role))
      /\ UNCHANGED <<closedStreams, broken, recorded>>
  BY DEF OpenStream, IsNewStream, Accepted, Discarded
<1>2. /\ id \in DOMAIN calls /\ key \in rtpKey /\ key.callID = id
      /\ path \in Path /\ path.role # "unknown" /\ IsFileOf(path, key)
  BY <1>1, RouteGivesRole DEF StreamInv
<1>3. new \in rtpStreamState
  BY TimesAssumption DEF Update, rtpStreamState
<1> HIDE DEF id, key, path, new
<1>4. SipInv' /\ CallsKept
  BY <1>1, <1>2, FlagsKeepSip DEF StreamInv
<1>5. /\ IsMap(pcapFiles, Path, Nat) /\ IsMap(wavFiles, Path, Nat)
      /\ IsMap(stateMap, rtpKey, rtpStreamState)
      /\ IsMap(pcapWriters, rtpKey, Path \cup {Nil})
      /\ IsMap(wavWriters, rtpKey, Path)
      /\ closedStreams \subseteq rtpKey
      /\ DOMAIN pcapWriters = DOMAIN stateMap
      /\ DOMAIN wavWriters \subseteq DOMAIN stateMap
  BY DEF StreamInv, RtpTypeOK, WritersFollowStreams
<1>6. \A f \in DOMAIN pcapFiles \cup DOMAIN wavFiles : ~IsFileOf(f, key)
  <2> SUFFICES ASSUME NEW f \in DOMAIN pcapFiles \cup DOMAIN wavFiles,
                      IsFileOf(f, key)
               PROVE  FALSE
    OBVIOUS
  <2>1. PICK k \in DOMAIN stateMap \cup closedStreams : IsFileOf(f, k)
    BY DEF AllFilesHaveStreams
  <2>2. k \in rtpKey
    BY <1>5 DEF IsMap
  <2>3. k = key
    BY <1>2, <2>1, <2>2, FileOfOneStream DEF StreamInv
  <2> QED
    BY <1>1, <2>1, <2>3
<1>7. ~OfClosedStream(path) /\ path \notin DOMAIN pcapFiles \cup DOMAIN wavFiles
  <2>1. ASSUME NEW j \in closedStreams, IsFileOf(path, j) PROVE FALSE
    <3>1. j = key
      BY <1>2, <1>5, <2>1, FileOfOneStream DEF StreamInv
    <3> QED
      BY <1>1, <2>1, <3>1
  <2> QED
    BY <1>2, <1>6, <2>1 DEF OfClosedStream
<1>8. PICK w \in {Nil, path} :
        /\ pcapWriters' = Put(pcapWriters, key, w)
        /\ \/ w = Nil /\ pcapFiles' = pcapFiles /\ onDisk' = onDisk
           \/ /\ w = path /\ pcapFiles' = Put(pcapFiles, path, 1)
              /\ onDisk' = Put(onDisk, path, 0)
  BY <1>1 DEF OpenPcap
<1>9. \/ /\ wavWriters' = Put(wavWriters, key, path)
         /\ wavFiles' = Put(wavFiles, path, 1)
      \/ wavWriters' = wavWriters /\ wavFiles' = wavFiles
  BY <1>1 DEF OpenWav
<1>10. /\ DOMAIN pcapFiles' \subseteq DOMAIN pcapFiles \cup {path}
       /\ \A f \in DOMAIN pcapFiles :
             /\ f \in DOMAIN pcapFiles'
             /\ pcapFiles'[f] = pcapFiles[f] /\ pcapFiles[f] \in Nat
       /\ IsMap(pcapFiles', Path, Nat)
  BY <1>2, <1>5, <1>7, <1>8 DEF Put, IsMap
<1>19. /\ DOMAIN onDisk' = DOMAIN pcapFiles'
       /\ DOMAIN onDisk' \subseteq DOMAIN onDisk \cup {path}
       /\ \A f \in DOMAIN onDisk :
             /\ f \in DOMAIN onDisk'
             /\ onDisk'[f] = onDisk[f] /\ onDisk[f] \in Nat
       /\ IsMap(onDisk', Path, Nat)
       /\ DiskBehind'
  <2>1. /\ IsMap(onDisk, Path, Nat) /\ DOMAIN onDisk = DOMAIN pcapFiles
        /\ \A f \in DOMAIN onDisk : onDisk[f] <= pcapFiles[f]
    BY DEF StreamInv, RtpTypeOK, DiskBehind
  <2>2. path \notin DOMAIN onDisk /\ path \in Path
    BY <1>2, <1>7, <2>1
  <2>3. CASE pcapFiles' = pcapFiles /\ onDisk' = onDisk
    BY <2>1, <2>3 DEF IsMap, DiskBehind
  <2>4. CASE pcapFiles' = Put(pcapFiles, path, 1) /\ onDisk' = Put(onDisk, path, 0)
    <3>1. IsMap(onDisk', Path, Nat)
      BY <2>1, <2>2, <2>4, PutIsMap
    <3>2. DiskBehind'
      BY <2>1, <2>2, <2>4 DEF DiskBehind, Put
    <3> QED
      BY <2>1, <2>2, <2>4, <3>1, <3>2 DEF Put, IsMap
  <2> QED
    BY <1>8, <2>3, <2>4
<1>11. /\ DOMAIN wavFiles' \subseteq DOMAIN wavFiles \cup {path}
       /\ \A f \in DOMAIN wavFiles :
             /\ f \in DOMAIN wavFiles'
             /\ wavFiles'[f] = wavFiles[f] /\ wavFiles[f] \in Nat
       /\ IsMap(wavFiles', Path, Nat)
  BY <1>2, <1>5, <1>7, <1>9 DEF Put, IsMap
<1>12. FilesOnlyGrow
  <2>1. Grows(pcapFiles, pcapFiles') /\ Frozen(pcapFiles, pcapFiles')
    BY <1>7, <1>10 DEF Grows, Frozen, Lookup
  <2>2. Grows(wavFiles, wavFiles') /\ Frozen(wavFiles, wavFiles')
    BY <1>7, <1>11 DEF Grows, Frozen, Lookup
  <2>3. Grows(onDisk, onDisk') /\ Frozen(onDisk, onDisk')
    BY <1>7, <1>19 DEF Grows, Frozen, Lookup
  <2> QED
    BY <2>1, <2>2, <2>3 DEF FilesOnlyGrow
<1>13. RtpTypeOK'
  <2>1. IsMap(pcapWriters', rtpKey, Path \cup {Nil})
    BY <1>2, <1>5, <1>8, PutIsMap
  <2>2. IsMap(wavWriters', rtpKey, Path)
    BY <1>2, <1>5, <1>9, PutIsMap
  <2>3. IsMap(stateMap', rtpKey, rtpStreamState)
    BY <1>1, <1>2, <1>3, <1>5, PutIsMap
  <2> QED
    BY <1>1, <1>10, <1>11, <1>19, <2>1, <2>2, <2>3 DEF StreamInv, RtpTypeOK
<1>14. WritersFollowStreams'
  <2>1. /\ DOMAIN stateMap' = DOMAIN stateMap \cup {key}
        /\ DOMAIN pcapWriters' = DOMAIN stateMap \cup {key}
        /\ DOMAIN wavWriters' \subseteq DOMAIN stateMap \cup {key}
    BY <1>1, <1>5, <1>8, <1>9 DEF Put
  <2> QED
    BY <1>1, <1>2, <1>4, <2>1 DEF StreamInv, WritersFollowStreams, CallsKept
<1>15. RoleKnown'
  BY <1>2, <1>10, <1>11 DEF StreamInv, RoleKnown
<1>16. OneFilePerStream'
  <2>1. ASSUME NEW f \in DOMAIN pcapFiles, f.dir = path.dir, f.ssrc = path.ssrc
        PROVE  FALSE
    BY <1>2, <1>6, <2>1 DEF IsFileOf
  <2> QED
    BY <1>10, <2>1 DEF StreamInv, OneFilePerStream
<1>17. WritersOwnFiles'
  <2>1. ASSUME NEW k \in DOMAIN pcapWriters', pcapWriters'[k] # Nil
        PROVE  pcapWriters'[k] \in DOMAIN pcapFiles' /\ IsFileOf(pcapWriters[k], k)'
    <3>1. CASE k = key
      <4>1. pcapWriters'[k] = path /\ path \in DOMAIN pcapFiles'
        BY <1>8, <2>1, <3>1 DEF Put
      <4>2. IsFileOf(path, key)
        BY <1>2
      <4> QED
        BY <1>4, <3>1, <4>1, <4>2 DEF IsFileOf, CallsKept
    <3>2. CASE k # key
      <4>1. k \in DOMAIN pcapWriters /\ pcapWriters'[k] = pcapWriters[k]
        BY <1>8, <2>1, <3>2 DEF Put
      <4>2. pcapWriters[k] \in DOMAIN pcapFiles /\ IsFileOf(pcapWriters[k], k)
        BY <2>1, <4>1 DEF StreamInv, WritersOwnFiles
      <4> QED
        BY <1>4, <1>10, <4>1, <4>2 DEF IsFileOf, CallsKept
    <3> QED
      BY <3>1, <3>2
  <2>2. ASSUME NEW k \in DOMAIN wavWriters'
        PROVE  wavWriters'[k] \in DOMAIN wavFiles' /\ IsFileOf(wavWriters[k], k)'
    <3>1. CASE k = key
      <4>1. wavWriters'[k] = path /\ path \in DOMAIN wavFiles'
        BY <1>1, <1>5, <1>9, <2>2, <3>1 DEF Put
      <4> QED
        BY <1>2, <1>4, <3>1, <4>1 DEF IsFileOf, CallsKept
    <3>2. CASE k # key
      <4>1. k \in DOMAIN wavWriters /\ wavWriters'[k] = wavWriters[k]
        BY <1>9, <2>2, <3>2 DEF Put
      <4>2. wavWriters[k] \in DOMAIN wavFiles /\ IsFileOf(wavWriters[k], k)
        BY <4>1 DEF StreamInv, WritersOwnFiles
      <4> QED
        BY <1>4, <1>11, <4>1, <4>2 DEF IsFileOf, CallsKept
    <3> QED
      BY <3>1, <3>2
  <2> QED
    BY <2>1, <2>2 DEF WritersOwnFiles
<1>18. AllFilesHaveStreams'
  <2> SUFFICES ASSUME NEW f \in DOMAIN pcapFiles' \cup DOMAIN wavFiles'
               PROVE  \E k \in DOMAIN stateMap' \cup closedStreams' : IsFileOf(f, k)'
    BY DEF AllFilesHaveStreams
  <2>1. DOMAIN stateMap' = DOMAIN stateMap \cup {key} /\ closedStreams' = closedStreams
    BY <1>1 DEF Put
  <2>2. CASE f = path
    BY <1>2, <1>4, <2>1, <2>2 DEF IsFileOf, CallsKept
  <2>3. CASE f # path
    <3>1. PICK k \in DOMAIN stateMap \cup closedStreams : IsFileOf(f, k)
      BY <1>10, <1>11, <2>3 DEF AllFilesHaveStreams
    <3> QED
      BY <1>4, <2>1, <3>1 DEF IsFileOf, CallsKept
  <2> QED
    BY <2>2, <2>3
<1> QED
  BY <1>4, <1>12, <1>13, <1>14, <1>15, <1>16, <1>17, <1>18, <1>19 DEF StreamInv

(* Every way through processRTPPkt.                                        *)
LEMMA RtpStep ==
    ASSUME StreamInv, AllFilesHaveStreams, NEW p \in RtpPkts, NEW ts \in Times,
           processRTPPkt(p, ts)
    PROVE  StreamInv' /\ FilesOnlyGrow /\ AllFilesHaveStreams'
<1>1. UNCHANGED <<endpointMap, usedDirs, rejectedIDs, traces>>
  BY DEF processRTPPkt
<1>2. CASE IgnoreRtp(p) \/ CreatePcapFails(p, ts)
  <2>1. UNCHANGED rtpVars /\ UNCHANGED sipVars
    BY <1>1, <1>2 DEF IgnoreRtp, CreatePcapFails, sipVars
  <2> QED
    BY <2>1, NothingStep
<1>3. CASE RefuseStream(p, ts)
  BY <1>1, <1>3, RefuseStep
<1>4. CASE OpenStream(p, ts)
  BY <1>1, <1>4, OpenStep
<1>5. CASE StreamPacket(p, ts)
  BY <1>1, <1>5, PacketStep
<1>6. CASE PcapWriteFails(p)
  BY <1>1, <1>6, BrokenStep
<1> QED
  BY <1>2, <1>3, <1>4, <1>5, <1>6 DEF processRTPPkt

-----------------------------------------------------------------------------
(* Closing pcaps flushes files of open streams, and only those.            *)
LEMMA ClosePcapsStep ==
    ASSUME StreamInv, NEW S, ClosePcaps(S), UNCHANGED pcapFiles
    PROVE  /\ IsMap(onDisk', Path, Nat) /\ DOMAIN onDisk' = DOMAIN pcapFiles'
           /\ DiskBehind'
           /\ Grows(onDisk, onDisk') /\ Frozen(onDisk, onDisk')
           /\ broken' \subseteq rtpKey
<1> DEFINE closing == {k \in S \cap DOMAIN pcapWriters : pcapWriters[k] # Nil}
           flushed == {pcapWriters[k] : k \in closing \ broken}
           range   == UNION {0 .. pcapFiles[f] : f \in DOMAIN pcapFiles}
<1>1. /\ onDisk' \in [DOMAIN onDisk -> range]
      /\ \A f \in DOMAIN onDisk :
            IF f \in flushed THEN onDisk'[f] \in onDisk[f] .. pcapFiles[f]
                            ELSE onDisk'[f] = onDisk[f]
      /\ broken' = broken \cup {k \in closing :
                        onDisk'[pcapWriters[k]] < pcapFiles[pcapWriters[k]]}
  BY DEF ClosePcaps
<1>2. /\ IsMap(onDisk, Path, Nat) /\ DOMAIN onDisk = DOMAIN pcapFiles
      /\ IsMap(pcapFiles, Path, Nat) /\ broken \subseteq rtpKey
      /\ DOMAIN pcapWriters = DOMAIN stateMap /\ DOMAIN pcapWriters \subseteq rtpKey
  BY DEF StreamInv, RtpTypeOK, WritersFollowStreams, IsMap
<1>3. range \subseteq Nat
  BY <1>2 DEF IsMap
<1>4. \A f \in flushed : ~OfClosedStream(f)
  <2> SUFFICES ASSUME NEW k \in closing PROVE ~OfClosedStream(pcapWriters[k])
    OBVIOUS
  <2>1. k \in DOMAIN stateMap /\ IsFileOf(pcapWriters[k], k)
    BY <1>2 DEF StreamInv, WritersOwnFiles
  <2> QED
    BY <2>1, OpenIsNotClosed
<1>5. broken' \subseteq rtpKey
  BY <1>1, <1>2
<1> HIDE DEF flushed, range, closing
<1>6. PICK disk : disk = onDisk'
  OBVIOUS
<1>7. /\ disk \in [DOMAIN onDisk -> Nat]
      /\ \A f \in DOMAIN onDisk :
            IF f \in flushed THEN disk[f] \in onDisk[f] .. pcapFiles[f]
                            ELSE disk[f] = onDisk[f]
  BY <1>1, <1>3, <1>6
<1>8. /\ IsMap(disk, Path, Nat)
      /\ \A f \in DOMAIN onDisk : disk[f] <= pcapFiles[f]
      /\ Grows(onDisk, disk) /\ Frozen(onDisk, disk)
  BY <1>4, <1>7, FlushKeepsFiles
<1>9. DOMAIN disk = DOMAIN onDisk
  BY <1>7
<1> QED
  BY <1>2, <1>5, <1>6, <1>8, <1>9 DEF DiskBehind

(* Closing some streams, finalized before, leaves the rest in step.        *)
LEMMA CloseStep ==
    ASSUME StreamInv, NEW S, NEW T, Finalize(T), CloseWriters(S),
           closedStreams' \in SUBSET rtpKey,
           closedStreams' \subseteq closedStreams \cup S,
           T \subseteq DOMAIN stateMap,
           UNCHANGED <<pcapFiles, wavFiles, sipVars>>
    PROVE  StreamInv' /\ FilesOnlyGrow
<1>1. UNCHANGED <<pcapFiles, wavFiles, calls>> /\ UNCHANGED sipVars
  BY DEF sipVars
<1>2. /\ IsMap(onDisk', Path, Nat) /\ DOMAIN onDisk' = DOMAIN pcapFiles'
      /\ DiskBehind' /\ broken' \subseteq rtpKey
      /\ Grows(onDisk, onDisk') /\ Frozen(onDisk, onDisk')
  BY <1>1, ClosePcapsStep DEF CloseWriters
<1>3. SipInv' /\ FilesOnlyGrow
  BY <1>1, <1>2, SipUnchanged, FilesUntouched DEF StreamInv
<1>4. /\ pcapWriters' = Without(pcapWriters, S)
      /\ wavWriters' = Without(wavWriters, S)
      /\ stateMap' = Without(stateMap, S)
  BY DEF CloseWriters, ClosePcaps
<1>5. /\ DOMAIN pcapWriters' = DOMAIN pcapWriters \ S
      /\ DOMAIN wavWriters' = DOMAIN wavWriters \ S
      /\ DOMAIN stateMap' = DOMAIN stateMap \ S
      /\ \A k \in DOMAIN pcapWriters' : pcapWriters'[k] = pcapWriters[k]
      /\ \A k \in DOMAIN wavWriters' : wavWriters'[k] = wavWriters[k]
  BY <1>4 DEF Without
<1>6. RtpTypeOK'
  <2>1. /\ IsMap(pcapWriters', rtpKey, Path \cup {Nil})
        /\ IsMap(wavWriters', rtpKey, Path)
        /\ IsMap(stateMap', rtpKey, rtpStreamState)
    BY <1>4 DEF StreamInv, RtpTypeOK, Without, IsMap
  <2>2. recorded' \in [rtpKey -> Nat]
    <3>1. recorded \in [rtpKey -> Nat]
      BY DEF StreamInv, RtpTypeOK
    <3> QED
      BY <3>1 DEF Finalize
  <2> QED
    BY <1>1, <1>2, <2>1, <2>2 DEF StreamInv, RtpTypeOK
<1>7. RoleKnown' /\ OneFilePerStream'
  BY <1>1 DEF StreamInv, RoleKnown, OneFilePerStream
<1>8. WritersFollowStreams'
  BY <1>1, <1>5 DEF StreamInv, WritersFollowStreams
<1>9. WritersOwnFiles'
  BY <1>1, <1>5 DEF StreamInv, WritersOwnFiles, IsFileOf
<1> QED
  BY <1>2, <1>3, <1>6, <1>7, <1>8, <1>9 DEF StreamInv

(* A sweep: what it closes stays known as closed.                          *)
LEMMA SweepStep ==
    ASSUME StreamInv, AllFilesHaveStreams, NEW ts, sweepIdleStreams(ts)
    PROVE  StreamInv' /\ FilesOnlyGrow /\ AllFilesHaveStreams'
<1> DEFINE S == Expired(ts)
<1>1. S \subseteq DOMAIN stateMap /\ S \subseteq rtpKey
  BY DEF Expired, StreamInv, RtpTypeOK, IsMap
<1>2. /\ Finalize(S) /\ CloseWriters(S)
      /\ closedStreams' = closedStreams \cup S
      /\ UNCHANGED <<pcapFiles, wavFiles, sipVars>>
  BY DEF sweepIdleStreams
<1> HIDE DEF S
<1>3. closedStreams \subseteq rtpKey
  BY DEF StreamInv, RtpTypeOK
<1>4. StreamInv' /\ FilesOnlyGrow
  BY <1>1, <1>2, <1>3, CloseStep
<1>5. DOMAIN stateMap' \cup closedStreams' = DOMAIN stateMap \cup closedStreams
  BY <1>1, <1>2 DEF CloseWriters, Without
<1>6. AllFilesHaveStreams'
  BY <1>2, <1>5 DEF AllFilesHaveStreams, IsFileOf, sipVars
<1> QED
  BY <1>4, <1>6

(* The deferred clean-up.                                                  *)
LEMMA CleanupStep ==
    ASSUME StreamInv, Cleanup
    PROVE  StreamInv' /\ FilesOnlyGrow
<1>1. /\ Finalize(DOMAIN stateMap) /\ CloseWriters(rtpKey)
      /\ closedStreams' = closedStreams
      /\ UNCHANGED <<pcapFiles, wavFiles, sipVars>>
  BY DEF Cleanup
<1>2. closedStreams \subseteq rtpKey
  BY DEF StreamInv, RtpTypeOK
<1> QED
  BY <1>1, <1>2, CloseStep

-----------------------------------------------------------------------------
(* Every step of the loop keeps the invariant and truncates no file.       *)
LEMMA LoopStep ==
    ASSUME LoopInv, [Next]_vars
    PROVE  LoopInv' /\ [FilesOnlyGrow]_vars
<1>1. ASSUME NEW m \in SipMsgs, NEW ts \in Times, ReadSip(m, ts)
      PROVE  LoopInv' /\ FilesOnlyGrow
  <2>1. /\ processSIPPkt(m, ts) /\ UNCHANGED rtpVars
        /\ pc = "read" /\ left > 0 /\ now' = ts /\ left' = left - 1
        /\ UNCHANGED <<pass, lastSweep, pc, rtpPkts>>
    BY <1>1 DEF ReadSip, NextPacket
  <2>2. StreamInv' /\ FilesOnlyGrow /\ AllFilesHaveStreams'
    BY <2>1, SipStreamStep DEF LoopInv
  <2>3. TypeOK'
    BY <2>1, <2>2, TimesAssumption, AnalyzerAssumption
       DEF LoopInv, TypeOK, StreamInv, SipInv
  <2> QED
    BY <2>2, <2>3 DEF LoopInv
<1>2. ASSUME NEW p \in RtpPkts, NEW ts \in Times, ReadRtp(p, ts)
      PROVE  LoopInv' /\ FilesOnlyGrow
  <2>1. /\ processRTPPkt(p, ts)
        /\ pc = "read" /\ left > 0 /\ now' = ts /\ left' = left - 1
        /\ rtpPkts' = rtpPkts + 1 /\ pc' \in {"sweep", "read"}
        /\ UNCHANGED <<pass, lastSweep>>
    BY <1>2 DEF ReadRtp, NextPacket
  <2>2. StreamInv' /\ FilesOnlyGrow /\ AllFilesHaveStreams'
    BY <2>1, RtpStep DEF LoopInv
  <2>3. TypeOK'
    BY <2>1, <2>2, TimesAssumption, AnalyzerAssumption
       DEF LoopInv, TypeOK, StreamInv, SipInv
  <2> QED
    BY <2>2, <2>3 DEF LoopInv
<1>3. ASSUME Sweep PROVE LoopInv' /\ FilesOnlyGrow
  <2>1. /\ sweepIdleStreams(now) /\ pc = "sweep" /\ pc' = "read" /\ lastSweep' = now
        /\ UNCHANGED <<pass, now, rtpPkts, left>>
    BY <1>3 DEF Sweep
  <2>2. StreamInv' /\ FilesOnlyGrow /\ AllFilesHaveStreams'
    BY <2>1, SweepStep DEF LoopInv
  <2>3. TypeOK'
    BY <2>1, <2>2 DEF LoopInv, TypeOK, StreamInv, SipInv
  <2> QED
    BY <2>2, <2>3 DEF LoopInv
<1>4. ASSUME StartSecondPass PROVE LoopInv' /\ FilesOnlyGrow
  <2>1. /\ pc = "read" /\ pass' = 2 /\ now' = 0 /\ lastSweep' = 0
        /\ left' = MaxPkts
        /\ UNCHANGED sipVars /\ UNCHANGED rtpVars /\ UNCHANGED <<pc, rtpPkts>>
    BY <1>4 DEF StartSecondPass
  <2>2. StreamInv' /\ FilesOnlyGrow /\ AllFilesHaveStreams'
    BY <2>1, NothingStep DEF LoopInv
  <2>3. TypeOK'
    BY <2>1, <2>2, AnalyzerAssumption DEF LoopInv, TypeOK, StreamInv, SipInv
  <2> QED
    BY <2>2, <2>3 DEF LoopInv
<1>5. ASSUME Finish \/ ReadError PROVE LoopInv' /\ FilesOnlyGrow
  <2>1. /\ Cleanup /\ pc' \in {"done", "failed"}
        /\ UNCHANGED <<pass, now, rtpPkts, left, lastSweep>>
    BY <1>5 DEF Finish, ReadError
  <2>2. StreamInv' /\ FilesOnlyGrow
    BY <2>1, CleanupStep DEF LoopInv
  <2>3. TypeOK'
    BY <2>1, <2>2 DEF LoopInv, TypeOK, StreamInv, SipInv
  <2> QED
    BY <2>1, <2>2, <2>3 DEF LoopInv
<1>6. ASSUME UNCHANGED vars PROVE LoopInv' /\ [FilesOnlyGrow]_vars
  <2>1. UNCHANGED sipVars /\ UNCHANGED rtpVars /\ UNCHANGED loopVars
    BY <1>6 DEF vars
  <2>2. StreamInv' /\ (AllFilesHaveStreams => AllFilesHaveStreams')
    BY <2>1, NothingStep DEF LoopInv
  <2>3. TypeOK'
    BY <2>1, <2>2 DEF LoopInv, TypeOK, StreamInv, SipInv, loopVars
  <2> QED
    BY <1>6, <2>1, <2>2, <2>3 DEF LoopInv, loopVars
<1> QED
  BY <1>1, <1>2, <1>3, <1>4, <1>5, <1>6 DEF Next

(* The program starts with empty maps.                                     *)
LEMMA LoopInit == Init => LoopInv
<1> SUFFICES ASSUME Init PROVE LoopInv
  OBVIOUS
<1>1. SipInv
  BY SipInitInv DEF Init
<1>2. RtpInit
  BY DEF Init
<1>3. RtpTypeOK /\ DiskBehind
  BY <1>2 DEF RtpInit, RtpTypeOK, DiskBehind, IsMap
<1>4. WritersFollowStreams /\ RoleKnown /\ OneFilePerStream /\ WritersOwnFiles
  BY <1>2 DEF RtpInit, WritersFollowStreams, RoleKnown, OneFilePerStream,
              WritersOwnFiles
<1>5. AllFilesHaveStreams
  BY <1>2 DEF RtpInit, AllFilesHaveStreams
<1>6. TypeOK
  BY <1>1, <1>3, AnalyzerAssumption DEF Init, TypeOK, SipInv
<1> QED
  BY <1>1, <1>3, <1>4, <1>5, <1>6 DEF LoopInv, StreamInv

(* LoopInv holds throughout every run, single-pass or two-pass.            *)
THEOREM LoopInvariant == Spec => []LoopInv
<1>1. LoopInv /\ [Next]_vars => LoopInv'
  BY LoopStep
<1> QED
  BY <1>1, LoopInit, PTL DEF Spec

(* The Call table, the stream maps and the loop are well typed.            *)
THEOREM TypeCorrect == Spec => []TypeOK
<1>1. LoopInv => TypeOK
  BY DEF LoopInv
<1> QED
  BY <1>1, LoopInvariant, PTL

(* The four maps of the RTP loop stay in step.                             *)
THEOREM MapsStayInStep == Spec => []WritersFollowStreams
<1>1. LoopInv => WritersFollowStreams
  BY DEF LoopInv, StreamInv
<1> QED
  BY <1>1, LoopInvariant, PTL

(* No file of an unknown side is ever created.                             *)
THEOREM RolesAreKnown == Spec => []RoleKnown
<1>1. LoopInv => RoleKnown
  BY DEF LoopInv, StreamInv
<1> QED
  BY <1>1, LoopInvariant, PTL

(* A stream has one pcap file, whatever SIP does to the sides meanwhile.   *)
THEOREM StreamsHaveOneFile == Spec => []OneFilePerStream
<1>1. LoopInv => OneFilePerStream
  BY DEF LoopInv, StreamInv
<1> QED
  BY <1>1, LoopInvariant, PTL

(* No file is truncated, and files of closed streams do not change.        *)
THEOREM FilesAreKept == Spec => FilesOnlyGrowProp
<1>1. LoopInv /\ [Next]_vars => [FilesOnlyGrow]_vars
  BY LoopStep
<1> QED
  BY <1>1, LoopInvariant, PTL DEF Spec, FilesOnlyGrowProp

-----------------------------------------------------------------------------
(* Files and their streams.                                                *)

(* A stream that is neither open nor closed has no file yet.               *)
LEMMA NewStreamHasNoFile ==
    ASSUME StreamInv, AllFilesHaveStreams, NEW p \in RtpPkts, IsNewStream(p),
           NEW f \in DOMAIN pcapFiles \cup DOMAIN wavFiles
    PROVE  ~IsFileOf(f, KeyOf(p))
<1> SUFFICES ASSUME IsFileOf(f, KeyOf(p)) PROVE FALSE
  OBVIOUS
<1>1. PICK k \in DOMAIN stateMap \cup closedStreams : IsFileOf(f, k)
  BY DEF AllFilesHaveStreams
<1>2. k \in rtpKey
  BY DEF StreamInv, RtpTypeOK, IsMap
<1>3. KeyOf(p) \in rtpKey
  BY RouteGivesRole DEF StreamInv, IsNewStream, Accepted
<1>4. k = KeyOf(p)
  BY <1>1, <1>2, <1>3, FileOfOneStream DEF StreamInv
<1> QED
  BY <1>1, <1>4 DEF IsNewStream, Accepted, Discarded

(* A file stays with its stream, and no new dialog inherits one.           *)
LEMMA FilesStay ==
    ASSUME SipInv', CallsKept, AllFilesHaveStreams, NEW k \in rtpKey,
           NEW f \in DOMAIN pcapFiles \cup DOMAIN wavFiles
    PROVE  /\ IsFileOf(f, k)' <=> IsFileOf(f, k)
           /\ \A c \in DOMAIN calls' \ DOMAIN calls : f.dir # calls'[c].directory
<1>1. PICK j \in DOMAIN stateMap \cup closedStreams : IsFileOf(f, j)
  BY DEF AllFilesHaveStreams
<1>2. /\ j.callID \in DOMAIN calls /\ j.callID \in DOMAIN calls'
      /\ f.dir = calls'[j.callID].directory
  BY <1>1 DEF IsFileOf, CallsKept
<1>3. \A c \in DOMAIN calls' : f.dir = calls'[c].directory => c = j.callID
  BY <1>2 DEF SipInv, DirectoriesDisjoint
<1>4. IsFileOf(f, k)' => IsFileOf(f, k)
  BY <1>2, <1>3 DEF IsFileOf, CallsKept
<1>5. IsFileOf(f, k) => IsFileOf(f, k)'
  BY DEF IsFileOf, CallsKept
<1> QED
  BY <1>2, <1>3, <1>4, <1>5

(* What a message does to the fields of a Call that the RTP side reads or  *)
(* writes: flags stay, and a call ends at the time of the message.         *)
LEMMA SipKeepsFields ==
    ASSUME SipInv, NEW m \in SipMsgs, NEW ts \in Times, processSIPPkt(m, ts)
    PROVE  /\ \A c \in DOMAIN calls :
                 /\ calls'[c].hadCallerRTP = calls[c].hadCallerRTP
                 /\ calls'[c].hadCalleeRTP = calls[c].hadCalleeRTP
                 /\ calls'[c].disconnectedAt \in {calls[c].disconnectedAt, ts}
           /\ \A c \in DOMAIN calls' \ DOMAIN calls :
                 calls'[c].hadCallerRTP = FALSE /\ calls'[c].hadCalleeRTP = FALSE
<1>1. \A call \in Call :
         /\ Absorb(call, m, ts).hadCallerRTP = call.hadCallerRTP
         /\ Absorb(call, m, ts).hadCalleeRTP = call.hadCalleeRTP
         /\ Absorb(call, m, ts).disconnectedAt \in {call.disconnectedAt, ts}
  BY DEF Absorb, Call, DisconnectedAt
<1>2. CASE UNCHANGED calls
  BY <1>2
<1>3. CASE OpenDialog(m, ts)
  <2>1. m.callId \in CallIds /\ m.callId \notin DOMAIN calls
    BY <1>3 DEF OpenDialog, IsNew
  <2>2. PICK n \in FirstFree(m.callId) :
           Deliver(newCall(m, Candidate(m.callId, n)), m, ts)
    BY <1>3 DEF OpenDialog
  <2> DEFINE call == newCall(m, Candidate(m.callId, n))
  <2>3. call \in Call
    BY <2>1, <2>2, FreshName, NewCallType
  <2>4. call.hadCallerRTP = FALSE /\ call.hadCalleeRTP = FALSE
    BY DEF newCall
  <2>5. calls' = Put(calls, m.callId, Absorb(call, m, ts))
    BY <2>2 DEF Deliver
  <2> HIDE DEF call
  <2> QED
    BY <1>1, <2>1, <2>3, <2>4, <2>5 DEF Put
<1>4. CASE UpdateDialog(m, ts)
  <2>1. /\ m.callId \in DOMAIN calls
        /\ calls' = Put(calls, m.callId, Absorb(calls[m.callId], m, ts))
    BY <1>4 DEF UpdateDialog, Deliver
  <2>2. calls[m.callId] \in Call
    BY <2>1 DEF SipInv, SipTypeOK, IsMap
  <2> QED
    BY <1>1, <2>1, <2>2 DEF Put
<1> QED
  BY <1>2, <1>3, <1>4
     DEF processSIPPkt, IgnoreSip, RejectDialog, MkdirFails, sipVars

-----------------------------------------------------------------------------
(* SamePackets.                                                            *)

(* The step of a new stream: its files are new, and hold one packet.       *)
LEMMA OpenOutputs ==
    ASSUME StreamInv, AllFilesHaveStreams, SamePackets, NEW p \in RtpPkts,
           NEW ts \in Times, OpenStream(p, ts)
    PROVE  SamePackets'
<1> DEFINE key  == KeyOf(p)
           path == PathOf(calls[OwnerOf(p)], p)
           new  == Update([lastSeen |-> 0, received |-> 0], ts)
<1>1. /\ Routed(p) /\ IsNewStream(p) /\ key \notin DOMAIN stateMap
      /\ OpenPcap(key, path) /\ OpenWav(key, path)
      /\ stateMap' = Put(stateMap, key, new)
  BY DEF OpenStream, IsNewStream, Accepted
<1>2. IsFileOf(path, key) /\ path \in Path
  BY <1>1, RouteGivesRole DEF StreamInv
<1>3. path \notin DOMAIN pcapFiles \cup DOMAIN wavFiles
  BY <1>1, <1>2, NewStreamHasNoFile
<1>4. new.received = 1
  BY DEF Update
<1>5. path # Nil
  BY <1>2, RtpParamsAssumption
<1> HIDE DEF key, path, new
<1>6. PICK w \in {Nil, path} :
        /\ pcapWriters' = Put(pcapWriters, key, w)
        /\ \/ w = Nil /\ pcapFiles' = pcapFiles
           \/ w = path /\ pcapFiles' = Put(pcapFiles, path, 1)
  BY <1>1 DEF OpenPcap
<1>7. /\ DOMAIN pcapWriters = DOMAIN stateMap
      /\ DOMAIN wavWriters \subseteq DOMAIN stateMap
      /\ \A k \in DOMAIN stateMap :
            /\ pcapWriters[k] # Nil => pcapWriters[k] \in DOMAIN pcapFiles
            /\ k \in DOMAIN wavWriters => wavWriters[k] \in DOMAIN wavFiles
  BY DEF StreamInv, WritersFollowStreams, WritersOwnFiles
<1>8. ASSUME NEW k \in DOMAIN stateMap', pcapWriters'[k] # Nil
      PROVE  pcapFiles'[pcapWriters'[k]] = stateMap'[k].received
  <2>1. CASE k = key
    BY <1>1, <1>4, <1>6, <1>8, <2>1 DEF Put
  <2>2. CASE k # key
    <3>1. k \in DOMAIN stateMap /\ stateMap'[k] = stateMap[k]
      BY <1>1, <2>2 DEF Put
    <3>2. pcapWriters'[k] = pcapWriters[k]
      BY <1>6, <1>7, <2>2, <3>1 DEF Put
    <3>3. pcapFiles[pcapWriters[k]] = stateMap[k].received
      BY <1>8, <3>1, <3>2 DEF SamePackets
    <3>4. pcapWriters[k] \in DOMAIN pcapFiles /\ pcapWriters[k] # path
      BY <1>3, <1>7, <1>8, <3>1, <3>2
    <3> QED
      BY <1>6, <3>1, <3>2, <3>3, <3>4 DEF Put
  <2> QED
    BY <2>1, <2>2
<1>9. ASSUME NEW k \in DOMAIN stateMap', k \in DOMAIN wavWriters'
      PROVE  wavFiles'[wavWriters'[k]] = stateMap'[k].received
  <2>1. CASE k = key
    <3>1. key \notin DOMAIN wavWriters
      BY <1>1, <1>7
    <3>2. wavWriters' = Put(wavWriters, key, path) /\ wavFiles' = Put(wavFiles, path, 1)
      BY <1>1, <1>9, <2>1, <3>1 DEF OpenWav
    <3> QED
      BY <1>1, <1>4, <2>1, <3>2 DEF Put
  <2>2. CASE k # key
    <3>1. k \in DOMAIN stateMap /\ stateMap'[k] = stateMap[k]
      BY <1>1, <2>2 DEF Put
    <3>2. k \in DOMAIN wavWriters /\ wavWriters'[k] = wavWriters[k]
      BY <1>1, <1>9, <2>2 DEF OpenWav, Put
    <3>3. wavFiles[wavWriters[k]] = stateMap[k].received
      BY <3>1, <3>2 DEF SamePackets
    <3>4. wavWriters[k] \in DOMAIN wavFiles /\ wavWriters[k] # path
      BY <1>3, <1>7, <3>1, <3>2
    <3> QED
      BY <1>1, <3>1, <3>2, <3>3, <3>4 DEF OpenWav, Put
  <2> QED
    BY <2>1, <2>2
<1> QED
  BY <1>8, <1>9 DEF SamePackets

(* A packet of an open stream is counted by the files of that stream, and  *)
(* those are the files of no other.                                        *)
LEMMA PacketOutputs ==
    ASSUME StreamInv, SamePackets, NEW p \in RtpPkts, NEW ts \in Times,
           StreamPacket(p, ts)
    PROVE  SamePackets'
<1> DEFINE key == KeyOf(p)
<1>1. /\ UNCHANGED <<pcapWriters, wavWriters>>
      /\ key \in DOMAIN stateMap
      /\ stateMap' = Put(stateMap, key, Update(stateMap[key], ts))
      /\ PcapWrite(key) /\ WavWrite(key)
  BY DEF StreamPacket
<1> HIDE DEF key
<1>2. /\ DOMAIN stateMap' = DOMAIN stateMap
      /\ stateMap'[key].received = stateMap[key].received + 1
      /\ \A k \in DOMAIN stateMap : k # key => stateMap'[k] = stateMap[k]
  BY <1>1 DEF Put, Update
<1>3. /\ DOMAIN pcapWriters = DOMAIN stateMap
      /\ DOMAIN wavWriters \subseteq DOMAIN stateMap
      /\ DOMAIN stateMap \subseteq rtpKey
  BY DEF StreamInv, RtpTypeOK, WritersFollowStreams, IsMap
<1>4. ASSUME NEW k \in DOMAIN stateMap, pcapWriters[k] # Nil
      PROVE  pcapFiles'[pcapWriters[k]] = stateMap'[k].received
  <2>1. pcapWriters[k] \in DOMAIN pcapFiles /\ IsFileOf(pcapWriters[k], k)
    BY <1>3, <1>4 DEF StreamInv, WritersOwnFiles
  <2>2. pcapFiles[pcapWriters[k]] = stateMap[k].received
    BY <1>4 DEF SamePackets
  <2>3. CASE k = key
    BY <1>1, <1>2, <1>4, <2>1, <2>2, <2>3 DEF PcapWrite
  <2>4. CASE k # key
    <3>1. CASE pcapWriters[key] = Nil
      BY <1>1, <1>2, <2>2, <2>4, <3>1 DEF PcapWrite
    <3>2. CASE pcapWriters[key] # Nil
      <4>1. IsFileOf(pcapWriters[key], key)
        BY <1>1, <1>3, <3>2 DEF StreamInv, WritersOwnFiles
      <4>2. pcapWriters[key] # pcapWriters[k]
        BY <1>1, <1>3, <2>1, <2>4, <4>1, FileOfOneStream DEF StreamInv
      <4> QED
        BY <1>1, <1>2, <2>1, <2>2, <2>4, <3>2, <4>2 DEF PcapWrite
    <3> QED
      BY <3>1, <3>2
  <2> QED
    BY <2>3, <2>4
<1>5. ASSUME NEW k \in DOMAIN stateMap, k \in DOMAIN wavWriters
      PROVE  wavFiles'[wavWriters[k]] = stateMap'[k].received
  <2>1. wavWriters[k] \in DOMAIN wavFiles /\ IsFileOf(wavWriters[k], k)
    BY <1>5 DEF StreamInv, WritersOwnFiles
  <2>2. wavFiles[wavWriters[k]] = stateMap[k].received
    BY <1>5 DEF SamePackets
  <2>3. CASE k = key
    BY <1>1, <1>2, <1>5, <2>1, <2>2, <2>3 DEF WavWrite
  <2>4. CASE k # key
    <3>1. CASE key \notin DOMAIN wavWriters
      BY <1>1, <1>2, <2>2, <2>4, <3>1 DEF WavWrite
    <3>2. CASE key \in DOMAIN wavWriters
      <4>1. IsFileOf(wavWriters[key], key)
        BY <3>2 DEF StreamInv, WritersOwnFiles
      <4>2. wavWriters[key] # wavWriters[k]
        BY <1>1, <1>3, <2>1, <2>4, <4>1, FileOfOneStream DEF StreamInv
      <4> QED
        BY <1>1, <1>2, <2>1, <2>2, <2>4, <3>2, <4>2 DEF WavWrite
    <3> QED
      BY <3>1, <3>2
  <2> QED
    BY <2>3, <2>4
<1> QED
  BY <1>1, <1>2, <1>4, <1>5 DEF SamePackets

(* Closing some streams leaves the rest as they were.                      *)
LEMMA CloseOutputs ==
    ASSUME StreamInv, SamePackets, NEW S, CloseWriters(S),
           UNCHANGED <<pcapFiles, wavFiles>>
    PROVE  SamePackets'
<1>1. /\ DOMAIN stateMap' = DOMAIN stateMap \ S
      /\ DOMAIN wavWriters' = DOMAIN wavWriters \ S
      /\ \A k \in DOMAIN stateMap' : stateMap'[k] = stateMap[k]
      /\ \A k \in DOMAIN wavWriters' : wavWriters'[k] = wavWriters[k]
  BY DEF CloseWriters, Without
<1>2. \A k \in DOMAIN stateMap' : pcapWriters'[k] = pcapWriters[k]
  BY <1>1 DEF CloseWriters, ClosePcaps, Without, StreamInv, WritersFollowStreams
<1> QED
  BY <1>1, <1>2 DEF SamePackets

(* Every step of the loop.                                                 *)
LEMMA OutputsStep ==
    ASSUME LoopInv, SamePackets, [Next]_vars
    PROVE  SamePackets'
<1>1. ASSUME UNCHANGED <<pcapWriters, wavWriters, stateMap, pcapFiles, wavFiles>>
      PROVE  SamePackets'
  BY <1>1 DEF SamePackets
<1>2. ASSUME NEW p \in RtpPkts, NEW ts \in Times, ReadRtp(p, ts)
      PROVE  SamePackets'
  <2>1. StreamInv /\ AllFilesHaveStreams /\ processRTPPkt(p, ts)
    BY <1>2 DEF LoopInv, ReadRtp, NextPacket
  <2>2. CASE OpenStream(p, ts)
    BY <2>1, <2>2, OpenOutputs
  <2>3. CASE StreamPacket(p, ts)
    BY <2>1, <2>3, PacketOutputs
  <2>4. CASE IgnoreRtp(p) \/ RefuseStream(p, ts) \/ CreatePcapFails(p, ts)
             \/ PcapWriteFails(p)
    BY <1>1, <2>4
       DEF IgnoreRtp, RefuseStream, CreatePcapFails, PcapWriteFails, NotCounted, rtpVars
  <2> QED
    BY <2>1, <2>2, <2>3, <2>4 DEF processRTPPkt
<1>3. ASSUME Sweep \/ Finish \/ ReadError PROVE SamePackets'
  <2>1. PICK S : CloseWriters(S) /\ UNCHANGED <<pcapFiles, wavFiles>>
    BY <1>3 DEF Sweep, Finish, ReadError, sweepIdleStreams, Cleanup
  <2> QED
    BY <2>1, CloseOutputs DEF LoopInv
<1>4. ASSUME UNCHANGED rtpVars PROVE SamePackets'
  BY <1>1, <1>4 DEF rtpVars
<1> QED
  BY <1>2, <1>3, <1>4 DEF Next, ReadSip, StartSecondPass, vars

(* pcap writer, audio writer and statistics of an open stream have taken   *)
(* the same packets, whatever creation, write or flush fails.              *)
THEOREM SamePacketsTaken == Spec => []SamePackets
<1>1. Init => SamePackets
  BY DEF Init, RtpInit, SamePackets
<1>2. LoopInv /\ SamePackets /\ [Next]_vars => SamePackets'
  BY OutputsStep
<1> QED
  BY <1>1, <1>2, LoopInvariant, PTL DEF Spec

-----------------------------------------------------------------------------
(* FilesComplete.                                                          *)

(* Without --no-rtp-pcap every open stream has a pcap file, with it none.  *)
PcapsByMode ==
    /\ NoRTPPcap => DOMAIN pcapFiles = {}
    /\ ~NoRTPPcap => \A k \in DOMAIN pcapWriters : pcapWriters[k] # Nil

CompleteInv == PcapsByMode /\ FilesComplete

(* A file keeps its reason to be behind while its stream stays known.      *)
LEMMA CompleteStays ==
    ASSUME StreamInv, StreamInv', FilesComplete, CallsKept,
           DOMAIN stateMap \cup broken \subseteq DOMAIN stateMap' \cup broken',
           \A f \in DOMAIN pcapFiles' :
              \/ \E k \in DOMAIN stateMap' \cup broken' : IsFileOf(f, k)'
              \/ /\ f \in DOMAIN pcapFiles
                 /\ onDisk'[f] = onDisk[f] /\ pcapFiles'[f] = pcapFiles[f]
    PROVE  FilesComplete'
<1> SUFFICES ASSUME NEW f \in DOMAIN pcapFiles'
             PROVE  \/ onDisk'[f] = pcapFiles'[f]
                    \/ \E k \in DOMAIN stateMap' \cup broken' : IsFileOf(f, k)'
  BY DEF FilesComplete, StreamInv, DiskBehind, RtpTypeOK
<1>1. CASE /\ f \in DOMAIN pcapFiles
           /\ onDisk'[f] = onDisk[f] /\ pcapFiles'[f] = pcapFiles[f]
  <2>1. CASE onDisk[f] = pcapFiles[f]
    BY <1>1, <2>1
  <2>2. CASE \E k \in DOMAIN stateMap \cup broken : IsFileOf(f, k)
    <3>1. PICK k \in DOMAIN stateMap \cup broken : IsFileOf(f, k)
      BY <2>2
    <3>2. IsFileOf(f, k)'
      BY <3>1 DEF IsFileOf, CallsKept
    <3> QED
      BY <3>1, <3>2
  <2> QED
    BY <1>1, <2>1, <2>2 DEF FilesComplete
<1> QED
  BY <1>1

(* Closing a stream writes its file to the end, or a flush has failed.     *)
LEMMA CloseCompletes ==
    ASSUME StreamInv, StreamInv', CompleteInv, NEW S, CloseWriters(S),
           UNCHANGED <<pcapFiles, calls>>
    PROVE  CompleteInv'
<1> DEFINE closing == {k \in S \cap DOMAIN pcapWriters : pcapWriters[k] # Nil}
           flushed == {pcapWriters[k] : k \in closing \ broken}
<1>1. /\ pcapWriters' = Without(pcapWriters, S) /\ stateMap' = Without(stateMap, S)
      /\ \A f \in DOMAIN onDisk :
            IF f \in flushed THEN onDisk'[f] \in onDisk[f] .. pcapFiles[f]
                            ELSE onDisk'[f] = onDisk[f]
      /\ broken' = broken \cup {k \in closing :
                        onDisk'[pcapWriters[k]] < pcapFiles[pcapWriters[k]]}
  BY DEF CloseWriters, ClosePcaps
<1>2. /\ DOMAIN pcapWriters' = DOMAIN pcapWriters \ S
      /\ \A k \in DOMAIN pcapWriters' : pcapWriters'[k] = pcapWriters[k]
      /\ DOMAIN stateMap' = DOMAIN stateMap \ S
  BY <1>1 DEF Without
<1>3. PcapsByMode'
  BY <1>2 DEF CompleteInv, PcapsByMode
<1>4. ASSUME NEW f \in DOMAIN pcapFiles', onDisk'[f] # pcapFiles'[f]
      PROVE  \E k \in DOMAIN stateMap' \cup broken' : IsFileOf(f, k)'
  <2>1. /\ f \in DOMAIN pcapFiles /\ f \in DOMAIN onDisk
        /\ onDisk[f] \in Nat /\ pcapFiles[f] \in Nat
        /\ onDisk'[f] \in Nat /\ onDisk'[f] < pcapFiles[f]
    <3>1. /\ f \in DOMAIN pcapFiles /\ f \in DOMAIN onDisk
          /\ onDisk[f] \in Nat /\ pcapFiles[f] \in Nat
      BY <1>4 DEF StreamInv, RtpTypeOK, IsMap
    <3>2. onDisk'[f] \in Nat /\ onDisk'[f] <= pcapFiles'[f]
      BY <1>4 DEF StreamInv, RtpTypeOK, IsMap, DiskBehind
    <3> QED
      BY <1>4, <3>1, <3>2
  <2>2. onDisk[f] # pcapFiles[f]
    BY <1>1, <2>1
  <2>3. PICK k \in DOMAIN stateMap \cup broken : IsFileOf(f, k)
    BY <2>1, <2>2 DEF CompleteInv, FilesComplete
  <2>4. IsFileOf(f, k)'
    BY <2>3 DEF IsFileOf
  <2>5. CASE k \in broken \/ k \notin S
    BY <1>1, <1>2, <2>3, <2>4, <2>5
  <2>6. CASE k \notin broken /\ k \in S
    <3>1. k \in DOMAIN pcapWriters
      BY <2>3, <2>6 DEF StreamInv, WritersFollowStreams
    <3>2. pcapWriters[k] # Nil
      BY <2>1, <3>1 DEF CompleteInv, PcapsByMode
    <3>3. pcapWriters[k] \in DOMAIN pcapFiles /\ IsFileOf(pcapWriters[k], k)
      BY <3>1, <3>2 DEF StreamInv, WritersOwnFiles
    <3>4. pcapWriters[k] = f
      BY <2>1, <2>3, <3>3 DEF StreamInv, OneFilePerStream, IsFileOf
    <3>5. k \in broken'
      BY <1>1, <2>1, <2>6, <3>1, <3>2, <3>4
    <3> QED
      BY <2>4, <3>5
  <2> QED
    BY <2>5, <2>6
<1>5. \A f \in DOMAIN pcapFiles' : onDisk'[f] <= pcapFiles'[f]
  BY DEF StreamInv, DiskBehind, RtpTypeOK
<1> QED
  BY <1>3, <1>4, <1>5 DEF CompleteInv, FilesComplete

(* A packet leaves the files of other streams alone.                       *)
LEMMA PacketCompletes ==
    ASSUME StreamInv, StreamInv', CompleteInv, NEW p \in RtpPkts, NEW ts \in Times,
           StreamPacket(p, ts) \/ PcapWriteFails(p)
    PROVE  CompleteInv'
<1>7. PICK key : key = KeyOf(p)
  OBVIOUS
<1>8. PICK w : w = pcapWriters[key]
  OBVIOUS
<1>1. /\ UNCHANGED pcapWriters /\ UNCHANGED calls
      /\ broken \subseteq broken'
      /\ key \in DOMAIN stateMap
      /\ DOMAIN stateMap' = DOMAIN stateMap
      /\ DOMAIN pcapFiles' = DOMAIN pcapFiles
      /\ w = Nil => UNCHANGED <<pcapFiles, onDisk>>
      /\ \A f \in DOMAIN pcapFiles : f # w =>
            pcapFiles'[f] = pcapFiles[f] /\ onDisk'[f] = onDisk[f]
  <2>1. DOMAIN onDisk = DOMAIN pcapFiles
    BY DEF StreamInv, RtpTypeOK
  <2>2. CASE StreamPacket(p, ts)
    BY <1>8, <1>7, <2>1, <2>2 DEF StreamPacket, PcapWrite, Put
  <2>3. CASE PcapWriteFails(p)
    <3>1. UNCHANGED onDisk \/ FailedFlush(key)
      BY <1>7, <2>3 DEF PcapWriteFails
    <3>2. \A f \in DOMAIN pcapFiles : f # w => onDisk'[f] = onDisk[f]
      BY <1>8, <2>1, <3>1 DEF FailedFlush
    <3> QED
      BY <1>8, <1>7, <2>3, <3>2 DEF PcapWriteFails, NotCounted
  <2> QED
    BY <2>2, <2>3
<1>2. DOMAIN pcapWriters = DOMAIN stateMap
  BY DEF StreamInv, WritersFollowStreams
<1>3. PcapsByMode'
  BY <1>1 DEF CompleteInv, PcapsByMode
<1>4. CallsKept
  BY <1>1 DEF CallsKept
<1>5. ASSUME NEW f \in DOMAIN pcapFiles'
      PROVE  \/ \E k \in DOMAIN stateMap' \cup broken' : IsFileOf(f, k)'
             \/ /\ f \in DOMAIN pcapFiles
                /\ onDisk'[f] = onDisk[f] /\ pcapFiles'[f] = pcapFiles[f]
  <2>1. CASE w = Nil \/ f # w
    BY <1>1, <2>1
  <2>2. CASE w # Nil /\ f = w
    <3>1. IsFileOf(f, key)
      BY <1>1, <1>2, <1>8, <2>2 DEF StreamInv, WritersOwnFiles
    <3>2. IsFileOf(f, key)'
      BY <1>1, <3>1 DEF IsFileOf
    <3> QED
      BY <1>1, <3>2
  <2> QED
    BY <2>1, <2>2
<1>6. FilesComplete'
  BY <1>1, <1>4, <1>5, CompleteStays DEF CompleteInv
<1> QED
  BY <1>3, <1>6 DEF CompleteInv

(* The new file is one of the stream that is opened.                       *)
LEMMA OpenCompletes ==
    ASSUME StreamInv, StreamInv', AllFilesHaveStreams, CompleteInv, CallsKept,
           NEW p \in RtpPkts, NEW ts \in Times, OpenStream(p, ts)
    PROVE  CompleteInv'
<1>8. PICK key : key = KeyOf(p)
  OBVIOUS
<1>9. PICK path : path = PathOf(calls[OwnerOf(p)], p)
  OBVIOUS
<1>1. /\ Routed(p) /\ IsNewStream(p) /\ OpenPcap(key, path)
      /\ DOMAIN stateMap' = DOMAIN stateMap \cup {key}
      /\ UNCHANGED broken
  BY <1>8, <1>9 DEF OpenStream, IsNewStream, Accepted, Put
<1>2. IsFileOf(path, key) /\ path \in Path
  BY <1>1, <1>8, <1>9, RouteGivesRole DEF StreamInv
<1>3. DOMAIN onDisk = DOMAIN pcapFiles /\ path # Nil
  BY <1>2, RtpParamsAssumption DEF StreamInv, RtpTypeOK
<1>4. PcapsByMode'
  BY <1>1, <1>3 DEF CompleteInv, PcapsByMode, OpenPcap, Put
<1>5. IsFileOf(path, key)'
  BY <1>2 DEF IsFileOf, CallsKept
<1>6. \A f \in DOMAIN pcapFiles' :
         \/ f = path
         \/ /\ f \in DOMAIN pcapFiles
            /\ onDisk'[f] = onDisk[f] /\ pcapFiles'[f] = pcapFiles[f]
  BY <1>1, <1>3 DEF OpenPcap, Put
<1>7. FilesComplete'
  BY <1>1, <1>5, <1>6, CompleteStays DEF CompleteInv
<1> QED
  BY <1>4, <1>7 DEF CompleteInv

(* Every step of the loop.                                                 *)
LEMMA CompleteStep ==
    ASSUME LoopInv, LoopInv', CompleteInv, [Next]_vars
    PROVE  CompleteInv'
<1>1. StreamInv /\ StreamInv' /\ SipInv
  BY DEF LoopInv, StreamInv
<1>2. ASSUME CallsKept, UNCHANGED <<pcapWriters, stateMap, broken, pcapFiles, onDisk>>
      PROVE  CompleteInv'
  <2>1. FilesComplete'
    BY <1>1, <1>2, CompleteStays DEF CompleteInv
  <2> QED
    BY <1>2, <2>1 DEF CompleteInv, PcapsByMode
<1>3. ASSUME NEW m \in SipMsgs, NEW ts \in Times, ReadSip(m, ts)
      PROVE  CompleteInv'
  <2>1. processSIPPkt(m, ts) /\ UNCHANGED rtpVars
    BY <1>3 DEF ReadSip
  <2> QED
    BY <1>1, <1>2, <2>1, SipKeepsCalls DEF rtpVars
<1>4. ASSUME NEW p \in RtpPkts, NEW ts \in Times, ReadRtp(p, ts)
      PROVE  CompleteInv'
  <2>1. /\ AllFilesHaveStreams /\ processRTPPkt(p, ts)
        /\ UNCHANGED <<endpointMap, usedDirs, rejectedIDs, traces>>
    BY <1>4 DEF LoopInv, ReadRtp, NextPacket, processRTPPkt
  <2>2. CASE OpenStream(p, ts)
    <3>1. /\ Routed(p)
          /\ calls' = Put(calls, OwnerOf(p),
                SetMediaFlow(calls[OwnerOf(p)], PathOf(calls[OwnerOf(p)], p).role))
      BY <2>2 DEF OpenStream, IsNewStream, Accepted
    <3>2. CallsKept
      BY <1>1, <2>1, <3>1, RouteGivesRole, FlagsKeepSip DEF StreamInv
    <3> QED
      BY <1>1, <2>1, <2>2, <3>2, OpenCompletes
  <2>3. CASE StreamPacket(p, ts) \/ PcapWriteFails(p)
    BY <1>1, <2>3, PacketCompletes
  <2>4. CASE IgnoreRtp(p) \/ RefuseStream(p, ts) \/ CreatePcapFails(p, ts)
    <3>1. /\ UNCHANGED calls
          /\ UNCHANGED <<pcapWriters, stateMap, broken, pcapFiles, onDisk>>
      BY <2>4 DEF IgnoreRtp, RefuseStream, CreatePcapFails, rtpVars
    <3> QED
      BY <1>2, <3>1 DEF CallsKept
  <2> QED
    BY <2>1, <2>2, <2>3, <2>4 DEF processRTPPkt
<1>5. ASSUME Sweep \/ Finish \/ ReadError PROVE CompleteInv'
  <2>1. PICK S : CloseWriters(S) /\ UNCHANGED <<pcapFiles, calls>>
    BY <1>5 DEF Sweep, Finish, ReadError, sweepIdleStreams, Cleanup, sipVars
  <2> QED
    BY <1>1, <2>1, CloseCompletes
<1>6. ASSUME StartSecondPass \/ UNCHANGED vars PROVE CompleteInv'
  <2>1. /\ UNCHANGED calls
        /\ UNCHANGED <<pcapWriters, stateMap, broken, pcapFiles, onDisk>>
    BY <1>6 DEF StartSecondPass, vars, sipVars, rtpVars
  <2> QED
    BY <1>2, <2>1 DEF CallsKept
<1> QED
  BY <1>3, <1>4, <1>5, <1>6 DEF Next

(* Whichever of sweep, end and error closes a stream: its pcap file holds  *)
(* every packet its writer took, unless a flush of it has failed.          *)
THEOREM FilesAreComplete == Spec => []FilesComplete
<1>1. Init => CompleteInv
  BY DEF Init, RtpInit, CompleteInv, PcapsByMode, FilesComplete
<1>2. LoopInv /\ LoopInv' /\ CompleteInv /\ [Next]_vars => CompleteInv'
  BY CompleteStep
<1>3. CompleteInv => FilesComplete
  BY DEF CompleteInv
<1> QED
  BY <1>1, <1>2, <1>3, LoopInvariant, PTL DEF Spec

(* pcap files, audio and statistics agree, while a stream is open and when *)
(* it has been closed, in every run and whatever creation, write or flush  *)
(* fails.                                                                  *)
THEOREM OutputsAlwaysAgree == Spec => []OutputsAgree
BY SamePacketsTaken, FilesAreComplete, PTL DEF OutputsAgree

-----------------------------------------------------------------------------
(* MediaFlowMatchesFiles.                                                  *)

HasFile(c, role) ==
    \E f \in DOMAIN pcapFiles : f.dir = calls[c].directory /\ f.role = role

FlagsMatch(c) ==
    /\ calls[c].hadCallerRTP <=> HasFile(c, "caller")
    /\ calls[c].hadCalleeRTP <=> HasFile(c, "callee")

(* The property, one Call and one side at a time.                          *)
LEMMA MediaFlowByCall ==
    MediaFlowMatchesFiles <=> (~NoRTPPcap => \A c \in DOMAIN calls : FlagsMatch(c))
BY DEF MediaFlowMatchesFiles, FlagsMatch, HasFile

(* A message changes no flag and gives no dialog the files of another.     *)
LEMMA SipFlags ==
    ASSUME StreamInv, AllFilesHaveStreams, NEW m \in SipMsgs, NEW ts \in Times,
           processSIPPkt(m, ts), UNCHANGED pcapFiles,
           \A c \in DOMAIN calls : FlagsMatch(c)
    PROVE  \A c \in DOMAIN calls' : FlagsMatch(c)'
<1>1. SipInv' /\ CallsKept
  BY SipStep, SipKeepsCalls DEF StreamInv
<1>2. ASSUME NEW c \in DOMAIN calls PROVE FlagsMatch(c)'
  <2>1. /\ calls'[c].directory = calls[c].directory
        /\ calls'[c].hadCallerRTP = calls[c].hadCallerRTP
        /\ calls'[c].hadCalleeRTP = calls[c].hadCalleeRTP
    BY <1>1, SipKeepsFields DEF CallsKept, StreamInv
  <2>2. HasFile(c, "caller")' = HasFile(c, "caller")
        /\ HasFile(c, "callee")' = HasFile(c, "callee")
    BY <2>1 DEF HasFile
  <2> QED
    BY <2>1, <2>2 DEF FlagsMatch
<1>3. ASSUME NEW c \in DOMAIN calls' \ DOMAIN calls PROVE FlagsMatch(c)'
  <2>1. \A f \in DOMAIN pcapFiles : f.dir # calls'[c].directory
    <3> SUFFICES ASSUME NEW f \in DOMAIN pcapFiles
                 PROVE  f.dir # calls'[c].directory
      OBVIOUS
    <3>1. PICK k \in DOMAIN stateMap \cup closedStreams : IsFileOf(f, k)
      BY DEF AllFilesHaveStreams
    <3>2. k \in rtpKey
      BY DEF StreamInv, RtpTypeOK, IsMap
    <3> QED
      BY <1>1, <3>2, FilesStay
  <2>2. ~HasFile(c, "caller")' /\ ~HasFile(c, "callee")'
    BY <2>1 DEF HasFile
  <2>3. calls'[c].hadCallerRTP = FALSE /\ calls'[c].hadCalleeRTP = FALSE
    BY SipKeepsFields DEF StreamInv
  <2> QED
    BY <2>2, <2>3 DEF FlagsMatch
<1> QED
  BY <1>2, <1>3

(* A new stream sets the flag of its side and makes the file of that side. *)
LEMMA OpenFlags ==
    ASSUME StreamInv, ~NoRTPPcap, NEW p \in RtpPkts, NEW ts \in Times,
           OpenStream(p, ts), \A c \in DOMAIN calls : FlagsMatch(c)
    PROVE  \A c \in DOMAIN calls' : FlagsMatch(c)'
<1> DEFINE id   == OwnerOf(p)
           path == PathOf(calls[id], p)
<1>1. /\ Routed(p)
      /\ pcapFiles' = Put(pcapFiles, path, 1)
      /\ calls' = Put(calls, id, SetMediaFlow(calls[id], path.role))
  BY DEF OpenStream, OpenPcap, IsNewStream, Accepted
<1>2. id \in DOMAIN calls /\ path \in Path /\ path.dir = calls[id].directory
  BY <1>1, RouteGivesRole DEF StreamInv, PathOf
<1>3. calls[id] \in Call
  BY <1>2 DEF StreamInv, SipInv, SipTypeOK, IsMap
<1> HIDE DEF id, path
<1>4. /\ DOMAIN calls' = DOMAIN calls
      /\ DOMAIN pcapFiles' = DOMAIN pcapFiles \cup {path}
      /\ \A c \in DOMAIN calls : c # id => calls'[c] = calls[c]
      /\ calls'[id] = SetMediaFlow(calls[id], path.role)
  BY <1>1, <1>2 DEF Put
<1>5. /\ calls'[id].directory = calls[id].directory
      /\ calls'[id].hadCallerRTP <=> (calls[id].hadCallerRTP \/ path.role = "caller")
      /\ calls'[id].hadCalleeRTP <=> (calls[id].hadCalleeRTP \/ path.role = "callee")
  BY <1>3, <1>4 DEF SetMediaFlow, Call
<1>6. ASSUME NEW c \in DOMAIN calls, c = id PROVE FlagsMatch(c)'
  <2>1. \A role : HasFile(c, role)' <=> (HasFile(c, role) \/ path.role = role)
    BY <1>2, <1>4, <1>5, <1>6 DEF HasFile
  <2>2. /\ calls'[c].hadCallerRTP <=> (calls[c].hadCallerRTP \/ path.role = "caller")
        /\ calls'[c].hadCalleeRTP <=> (calls[c].hadCalleeRTP \/ path.role = "callee")
    BY <1>5, <1>6
  <2> QED
    BY <2>1, <2>2 DEF FlagsMatch
<1>7. ASSUME NEW c \in DOMAIN calls, c # id PROVE FlagsMatch(c)'
  <2>1. path.dir # calls[c].directory
    BY <1>2, <1>7 DEF StreamInv, SipInv, DirectoriesDisjoint
  <2>2. /\ HasFile(c, "caller")' <=> HasFile(c, "caller")
        /\ HasFile(c, "callee")' <=> HasFile(c, "callee")
    BY <1>4, <1>7, <2>1 DEF HasFile
  <2> QED
    BY <1>4, <1>7, <2>2 DEF FlagsMatch
<1> QED
  BY <1>4, <1>6, <1>7

(* Every step of the loop.                                                 *)
LEMMA MediaFlowStep ==
    ASSUME LoopInv, MediaFlowMatchesFiles, [Next]_vars
    PROVE  MediaFlowMatchesFiles'
<1> SUFFICES ASSUME ~NoRTPPcap PROVE (\A c \in DOMAIN calls : FlagsMatch(c))'
  BY MediaFlowByCall DEF MediaFlowMatchesFiles, FlagsMatch, HasFile
<1>1. /\ StreamInv /\ \A c \in DOMAIN calls : FlagsMatch(c)
      /\ pc \in {"read", "sweep"} => AllFilesHaveStreams
  BY MediaFlowByCall DEF LoopInv
<1>2. ASSUME UNCHANGED calls, DOMAIN pcapFiles' = DOMAIN pcapFiles
      PROVE  (\A c \in DOMAIN calls : FlagsMatch(c))'
  BY <1>1, <1>2 DEF FlagsMatch, HasFile
<1>3. ASSUME NEW m \in SipMsgs, NEW ts \in Times, ReadSip(m, ts)
      PROVE  (\A c \in DOMAIN calls : FlagsMatch(c))'
  <2>1. processSIPPkt(m, ts) /\ AllFilesHaveStreams /\ UNCHANGED pcapFiles
    BY <1>1, <1>3 DEF ReadSip, NextPacket, rtpVars
  <2> QED
    BY <1>1, <2>1, SipFlags
<1>4. ASSUME NEW p \in RtpPkts, NEW ts \in Times, ReadRtp(p, ts)
      PROVE  (\A c \in DOMAIN calls : FlagsMatch(c))'
  <2>1. processRTPPkt(p, ts)
    BY <1>4 DEF ReadRtp
  <2>2. CASE OpenStream(p, ts)
    BY <1>1, <2>2, OpenFlags
  <2>3. CASE StreamPacket(p, ts)
    <3>1. UNCHANGED calls /\ PcapWrite(KeyOf(p))
      BY <2>3 DEF StreamPacket
    <3>2. DOMAIN pcapFiles' = DOMAIN pcapFiles
      BY <3>1 DEF PcapWrite
    <3> QED
      BY <1>2, <3>1, <3>2
  <2>4. CASE IgnoreRtp(p) \/ RefuseStream(p, ts) \/ CreatePcapFails(p, ts)
             \/ PcapWriteFails(p)
    <3>1. UNCHANGED <<calls, pcapFiles>>
      BY <2>4
         DEF IgnoreRtp, RefuseStream, CreatePcapFails, PcapWriteFails, NotCounted, rtpVars
    <3> QED
      BY <1>2, <3>1
  <2> QED
    BY <2>1, <2>2, <2>3, <2>4 DEF processRTPPkt
<1>5. ASSUME Sweep \/ Finish \/ ReadError \/ StartSecondPass \/ UNCHANGED vars
      PROVE  (\A c \in DOMAIN calls : FlagsMatch(c))'
  <2>1. UNCHANGED <<calls, pcapFiles>>
    BY <1>5 DEF Sweep, Finish, ReadError, StartSecondPass, sweepIdleStreams,
                Cleanup, rtpVars, sipVars, vars
  <2> QED
    BY <1>2, <2>1
<1> QED
  BY <1>3, <1>4, <1>5 DEF Next

(* A side has its media-flow flag iff a file of that side was created.     *)
THEOREM MediaFlowIsTrue == Spec => []MediaFlowMatchesFiles
<1>1. Init => MediaFlowMatchesFiles
  BY DEF Init, SipInit, RtpInit, MediaFlowMatchesFiles
<1>2. LoopInv /\ MediaFlowMatchesFiles /\ [Next]_vars => MediaFlowMatchesFiles'
  BY MediaFlowStep
<1> QED
  BY <1>1, <1>2, LoopInvariant, PTL DEF Spec

-----------------------------------------------------------------------------
(* RecordedOnce.                                                           *)

(* The stream k has a pcap file of two packets or more.                    *)
HasMetrics(k) == \E f \in DOMAIN pcapFiles : IsFileOf(f, k) /\ pcapFiles[f] >= 2

(* With --no-rtp-pcap there is no file to compare with, but a stream that  *)
(* was never opened has not been counted in either case.                   *)
CountedInv ==
    /\ \A k \in DOMAIN stateMap : recorded[k] = 0
    /\ pc \in {"read", "sweep"} =>
          \A k \in rtpKey : recorded[k] # 0 => k \in closedStreams
    /\ pc \notin {"read", "sweep"} => DOMAIN stateMap = {}
    /\ ~NoRTPPcap =>
          /\ \A k \in DOMAIN pcapWriters : pcapWriters[k] # Nil
          /\ \A k \in rtpKey \ DOMAIN stateMap :
                recorded[k] = (IF HasMetrics(k) THEN 1 ELSE 0)

(* Steps that change neither counts nor files and open or close no stream. *)
LEMMA NothingCounted ==
    ASSUME CountedInv, UNCHANGED <<pcapWriters, recorded>>,
           DOMAIN stateMap' = DOMAIN stateMap, closedStreams \subseteq closedStreams',
           pc \in {"read", "sweep"}, pc' \in {"read", "sweep"},
           \A k \in rtpKey \ DOMAIN stateMap : HasMetrics(k)' <=> HasMetrics(k)
    PROVE  CountedInv'
BY DEF CountedInv

(* Only a file of the stream makes metrics for it, and files stay.         *)
LEMMA MetricsStay ==
    ASSUME SipInv', CallsKept, AllFilesHaveStreams, UNCHANGED pcapFiles,
           NEW k \in rtpKey
    PROVE  HasMetrics(k)' <=> HasMetrics(k)
<1>1. \A f \in DOMAIN pcapFiles : IsFileOf(f, k)' <=> IsFileOf(f, k)
  BY FilesStay
<1> QED
  BY <1>1 DEF HasMetrics

(* A packet lengthens files of its own stream, which is open.              *)
LEMMA PacketCounted ==
    ASSUME StreamInv, NEW p \in RtpPkts, NEW ts \in Times, StreamPacket(p, ts),
           NEW k \in rtpKey \ DOMAIN stateMap
    PROVE  HasMetrics(k)' <=> HasMetrics(k)
<1> DEFINE key == KeyOf(p)
<1>1. UNCHANGED calls /\ key \in DOMAIN stateMap /\ PcapWrite(key)
  BY DEF StreamPacket
<1>2. /\ DOMAIN pcapWriters = DOMAIN stateMap /\ DOMAIN stateMap \subseteq rtpKey
  BY DEF StreamInv, RtpTypeOK, WritersFollowStreams, IsMap
<1> HIDE DEF key
<1>3. DOMAIN pcapFiles' = DOMAIN pcapFiles
  BY <1>1 DEF PcapWrite
<1>4. ASSUME NEW f \in DOMAIN pcapFiles, IsFileOf(f, k)
      PROVE  pcapFiles'[f] = pcapFiles[f]
  <2>1. CASE pcapWriters[key] = Nil
    BY <1>1, <2>1 DEF PcapWrite
  <2>2. CASE pcapWriters[key] # Nil
    <3>1. IsFileOf(pcapWriters[key], key)
      BY <1>1, <1>2, <2>2 DEF StreamInv, WritersOwnFiles
    <3>2. f # pcapWriters[key]
      BY <1>1, <1>2, <1>4, <3>1, FileOfOneStream DEF StreamInv
    <3> QED
      BY <1>1, <1>4, <2>2, <3>2 DEF PcapWrite
  <2> QED
    BY <2>1, <2>2
<1>5. \A f : IsFileOf(f, k)' <=> IsFileOf(f, k)
  BY <1>1 DEF IsFileOf
<1> QED
  BY <1>3, <1>4, <1>5 DEF HasMetrics

(* A new stream: it was not counted before, and the rest keep their files. *)
LEMMA OpenCounted ==
    ASSUME StreamInv, AllFilesHaveStreams, CountedInv, pc \in {"read", "sweep"},
           NEW p \in RtpPkts, NEW ts \in Times, OpenStream(p, ts),
           SipInv', CallsKept, pc' \in {"read", "sweep"}
    PROVE  CountedInv'
<1> DEFINE key  == KeyOf(p)
           path == PathOf(calls[OwnerOf(p)], p)
<1>1. /\ Routed(p) /\ IsNewStream(p) /\ key \notin closedStreams
      /\ OpenPcap(key, path)
      /\ DOMAIN stateMap' = DOMAIN stateMap \cup {key}
      /\ UNCHANGED <<closedStreams, recorded>>
  BY DEF OpenStream, IsNewStream, Accepted, Discarded, Put
<1>2. key \in rtpKey /\ IsFileOf(path, key) /\ path \in Path
  BY <1>1, RouteGivesRole DEF StreamInv
<1>3. path \notin DOMAIN pcapFiles
  BY <1>1, <1>2, NewStreamHasNoFile
<1> HIDE DEF key, path
<1>4. recorded[key] = 0
  BY <1>1, <1>2 DEF CountedInv
<1>5. ASSUME ~NoRTPPcap
      PROVE  /\ \A k \in DOMAIN pcapWriters' : pcapWriters'[k] # Nil
             /\ \A k \in rtpKey \ DOMAIN stateMap' : HasMetrics(k)' <=> HasMetrics(k)
  <2>1. /\ pcapWriters' = Put(pcapWriters, key, path)
        /\ pcapFiles' = Put(pcapFiles, path, 1)
    BY <1>1, <1>5 DEF OpenPcap
  <2>2. \A k \in DOMAIN pcapWriters' : pcapWriters'[k] # Nil
    BY <1>2, <1>5, <2>1, RtpParamsAssumption DEF CountedInv, Put
  <2>3. /\ DOMAIN pcapFiles' = DOMAIN pcapFiles \cup {path} /\ pcapFiles'[path] = 1
        /\ \A f \in DOMAIN pcapFiles : pcapFiles'[f] = pcapFiles[f]
    BY <1>3, <2>1 DEF Put
  <2>4. ASSUME NEW k \in rtpKey \ DOMAIN stateMap'
        PROVE  HasMetrics(k)' <=> HasMetrics(k)
    <3>1. \A f \in DOMAIN pcapFiles : IsFileOf(f, k)' <=> IsFileOf(f, k)
      BY FilesStay
    <3>2. ~(pcapFiles'[path] >= 2)
      BY <2>3
    <3> QED
      BY <2>3, <3>1, <3>2 DEF HasMetrics
  <2> QED
    BY <2>2, <2>4
<1> QED
  BY <1>1, <1>4, <1>5 DEF CountedInv

(* Closing the streams S that are open: those with two packets are counted *)
(* now, and have a file that says so.                                      *)
LEMMA CloseCounted ==
    ASSUME StreamInv, SamePackets, CountedInv, pc \in {"read", "sweep"},
           NEW S, NEW T, Finalize(T), CloseWriters(S),
           T \subseteq DOMAIN stateMap, T = S \cap DOMAIN stateMap,
           pc' \in {"read", "sweep"} => closedStreams \cup T \subseteq closedStreams',
           pc' \notin {"read", "sweep"} => S = rtpKey,
           UNCHANGED <<pcapFiles, calls>>
    PROVE  CountedInv'
<1>1. /\ DOMAIN stateMap' = DOMAIN stateMap \ T
      /\ DOMAIN pcapWriters' \subseteq DOMAIN pcapWriters
      /\ \A k \in DOMAIN pcapWriters' : pcapWriters'[k] = pcapWriters[k]
  BY DEF CloseWriters, ClosePcaps, Without
<1>2. /\ DOMAIN stateMap \subseteq rtpKey /\ DOMAIN pcapWriters = DOMAIN stateMap
      /\ recorded \in [rtpKey -> Nat]
  BY DEF StreamInv, RtpTypeOK, WritersFollowStreams, IsMap
<1>3. /\ \A k \in rtpKey \ T : recorded'[k] = recorded[k]
      /\ \A k \in T : recorded'[k] = (IF stateMap[k].received >= 2 THEN 1 ELSE 0)
  BY <1>2 DEF Finalize, CountedInv
<1>4. \A k \in rtpKey : HasMetrics(k)' <=> HasMetrics(k)
  BY DEF HasMetrics, IsFileOf
<1>5. ASSUME ~NoRTPPcap, NEW k \in T
      PROVE  HasMetrics(k) <=> stateMap[k].received >= 2
  <2> DEFINE f == pcapWriters[k]
  <2>1. /\ f \in DOMAIN pcapFiles /\ IsFileOf(f, k)
        /\ pcapFiles[f] = stateMap[k].received
    BY <1>2, <1>5 DEF CountedInv, StreamInv, WritersOwnFiles, SamePackets
  <2>2. \A g \in DOMAIN pcapFiles : IsFileOf(g, k) => g = f
    BY <2>1 DEF StreamInv, OneFilePerStream, IsFileOf
  <2> QED
    BY <2>1, <2>2 DEF HasMetrics
<1>6. \A k \in DOMAIN stateMap' : recorded'[k] = 0
  BY <1>1, <1>2, <1>3 DEF CountedInv
<1>7. pc' \in {"read", "sweep"} =>
        \A k \in rtpKey : recorded'[k] # 0 => k \in closedStreams'
  BY <1>3 DEF CountedInv
<1>8. ASSUME ~NoRTPPcap, NEW k \in rtpKey \ DOMAIN stateMap'
      PROVE  recorded'[k] = (IF HasMetrics(k) THEN 1 ELSE 0)
  <2>1. CASE k \in T
    BY <1>3, <1>5, <1>8, <2>1
  <2>2. CASE k \notin T
    BY <1>1, <1>3, <1>8, <2>2 DEF CountedInv
  <2> QED
    BY <2>1, <2>2
<1>9. ~NoRTPPcap => \A k \in DOMAIN pcapWriters' : pcapWriters'[k] # Nil
  BY <1>1 DEF CountedInv
<1>10. \A k \in rtpKey \ DOMAIN stateMap' :
          ~NoRTPPcap => recorded'[k] = (IF HasMetrics(k)' THEN 1 ELSE 0)
  BY <1>4, <1>8
<1>11. pc' \notin {"read", "sweep"} => DOMAIN stateMap' = {}
  BY <1>1, <1>2
<1> QED
  BY <1>6, <1>7, <1>9, <1>10, <1>11 DEF CountedInv

(* Every step of the loop.                                                 *)
LEMMA CountedStep ==
    ASSUME LoopInv, LoopInv', SamePackets, CountedInv, [Next]_vars
    PROVE  CountedInv'
<1>1. /\ StreamInv /\ SipInv' /\ DOMAIN stateMap \subseteq rtpKey
      /\ pc \in {"read", "sweep"} => AllFilesHaveStreams
  BY DEF LoopInv, StreamInv, RtpTypeOK, IsMap
<1>2. ASSUME NEW m \in SipMsgs, NEW ts \in Times, ReadSip(m, ts)
      PROVE  CountedInv'
  <2>1. /\ processSIPPkt(m, ts) /\ UNCHANGED rtpVars
        /\ pc = "read" /\ pc' = "read"
    BY <1>2 DEF ReadSip, NextPacket
  <2>2. CallsKept
    BY <1>1, <2>1, SipKeepsCalls DEF StreamInv
  <2>3. \A k \in rtpKey : HasMetrics(k)' <=> HasMetrics(k)
    BY <1>1, <2>1, <2>2, MetricsStay DEF rtpVars
  <2> QED
    BY <2>1, <2>3, NothingCounted DEF rtpVars
<1>3. ASSUME NEW p \in RtpPkts, NEW ts \in Times, ReadRtp(p, ts)
      PROVE  CountedInv'
  <2>1. /\ processRTPPkt(p, ts) /\ AllFilesHaveStreams
        /\ pc = "read" /\ pc' \in {"read", "sweep"}
    BY <1>1, <1>3 DEF ReadRtp, NextPacket
  <2>2. CASE OpenStream(p, ts)
    <3>1. /\ Routed(p)
          /\ calls' = Put(calls, OwnerOf(p),
                SetMediaFlow(calls[OwnerOf(p)], PathOf(calls[OwnerOf(p)], p).role))
          /\ UNCHANGED <<endpointMap, usedDirs, rejectedIDs, traces>>
      BY <2>1, <2>2 DEF OpenStream, IsNewStream, Accepted, processRTPPkt
    <3>2. CallsKept
      BY <1>1, <3>1, RouteGivesRole, FlagsKeepSip DEF StreamInv
    <3> QED
      BY <1>1, <2>1, <2>2, <3>2, OpenCounted
  <2>3. CASE StreamPacket(p, ts)
    <3>1. /\ UNCHANGED <<pcapWriters, recorded, closedStreams>>
          /\ DOMAIN stateMap' = DOMAIN stateMap
      BY <2>3 DEF StreamPacket, Put
    <3>2. \A k \in rtpKey \ DOMAIN stateMap : HasMetrics(k)' <=> HasMetrics(k)
      BY <1>1, <2>3, PacketCounted
    <3> QED
      BY <2>1, <3>1, <3>2, NothingCounted
  <2>4. CASE IgnoreRtp(p) \/ RefuseStream(p, ts) \/ CreatePcapFails(p, ts)
             \/ PcapWriteFails(p)
    <3>1. /\ UNCHANGED <<pcapWriters, recorded, stateMap, pcapFiles, calls>>
          /\ closedStreams \subseteq closedStreams'
      BY <2>4
         DEF IgnoreRtp, RefuseStream, CreatePcapFails, PcapWriteFails, NotCounted, rtpVars
    <3>2. \A k \in rtpKey \ DOMAIN stateMap : HasMetrics(k)' <=> HasMetrics(k)
      BY <3>1 DEF HasMetrics, IsFileOf
    <3> QED
      BY <2>1, <3>1, <3>2, NothingCounted
  <2> QED
    BY <2>1, <2>2, <2>3, <2>4 DEF processRTPPkt
<1>4. ASSUME Sweep PROVE CountedInv'
  <2> DEFINE S == Expired(now)
  <2>1. /\ Finalize(S) /\ CloseWriters(S) /\ closedStreams' = closedStreams \cup S
        /\ UNCHANGED <<pcapFiles, calls>> /\ pc = "sweep" /\ pc' = "read"
    BY <1>4 DEF Sweep, sweepIdleStreams, sipVars
  <2>2. S \subseteq DOMAIN stateMap
    BY DEF Expired
  <2> HIDE DEF S
  <2>3. S = S \cap DOMAIN stateMap
    BY <2>2
  <2> QED
    BY <1>1, <2>1, <2>2, <2>3, CloseCounted
<1>5. ASSUME Finish \/ ReadError PROVE CountedInv'
  <2>1. /\ Finalize(DOMAIN stateMap) /\ CloseWriters(rtpKey)
        /\ UNCHANGED <<pcapFiles, calls>>
        /\ pc = "read" /\ pc' \notin {"read", "sweep"}
    BY <1>5 DEF Finish, ReadError, Cleanup, sipVars
  <2>2. DOMAIN stateMap = rtpKey \cap DOMAIN stateMap
    BY <1>1
  <2> QED
    BY <1>1, <2>1, <2>2, CloseCounted
<1>6. ASSUME StartSecondPass \/ UNCHANGED vars PROVE CountedInv'
  <2>1. UNCHANGED <<pcapWriters, recorded, stateMap, pcapFiles, calls,
                    closedStreams, pc>>
    BY <1>6 DEF StartSecondPass, vars, rtpVars, sipVars, loopVars
  <2>2. \A k \in rtpKey : HasMetrics(k)' <=> HasMetrics(k)
    BY <2>1 DEF HasMetrics, IsFileOf
  <2> QED
    BY <2>1, <2>2 DEF CountedInv
<1> QED
  BY <1>2, <1>3, <1>4, <1>5, <1>6 DEF Next

(* Metrics reach the Call exactly once for a stream of two packets or      *)
(* more, whichever of sweep, end of the capture and read error closes it.  *)
THEOREM MetricsCountOnce == Spec => []RecordedOnce
<1>1. Init => SamePackets /\ CountedInv
  <2> SUFFICES ASSUME Init PROVE SamePackets /\ CountedInv
    OBVIOUS
  <2>1. /\ pcapFiles = << >> /\ stateMap = << >> /\ pcapWriters = << >>
        /\ recorded = [k \in rtpKey |-> 0]
    BY DEF Init, RtpInit
  <2>2. DOMAIN stateMap = {} /\ DOMAIN pcapFiles = {} /\ DOMAIN pcapWriters = {}
    BY <2>1
  <2> QED
    BY <2>1, <2>2 DEF SamePackets, CountedInv, HasMetrics
<1>2. LoopInv /\ SamePackets /\ [Next]_vars => SamePackets'
  BY OutputsStep
<1>3. LoopInv /\ LoopInv' /\ SamePackets /\ CountedInv /\ [Next]_vars => CountedInv'
  BY CountedStep
<1>4. CountedInv => RecordedOnce
  <2> SUFFICES ASSUME CountedInv PROVE RecordedOnce
    OBVIOUS
  <2>1. ASSUME pc \in {"done", "failed"}, ~NoRTPPcap, NEW k \in rtpKey
        PROVE  recorded[k] = (IF HasMetrics(k) THEN 1 ELSE 0)
    BY <2>1 DEF CountedInv
  <2>2. \A k : HasMetrics(k) <=>
          \E f \in {g \in DOMAIN pcapFiles : IsFileOf(g, k)} : pcapFiles[f] >= 2
    BY DEF HasMetrics
  <2>3. \A k \in DOMAIN stateMap : recorded[k] = 0
    BY DEF CountedInv
  <2> QED
    BY <2>1, <2>2, <2>3 DEF RecordedOnce
<1> QED
  BY <1>1, <1>2, <1>3, <1>4, LoopInvariant, PTL DEF Spec

-----------------------------------------------------------------------------
(* NoStaleStream.                                                          *)

(* A sweep lies behind every packet; streams were last seen at a packet.   *)
SweptInv ==
    /\ Ordered => lastSweep <= now
    /\ \A k \in DOMAIN stateMap : stateMap[k].lastSeen \in Times
    /\ NoStaleStream

(* Every step of the loop.                                                 *)
LEMMA SweptStep ==
    ASSUME 0 \notin Times, LoopInv, SweptInv, [Next]_vars
    PROVE  SweptInv'
<1>1. /\ StreamInv /\ now \in Nat /\ lastSweep \in Nat /\ IdleSec \in Nat /\ Grace \in Nat
      /\ IsMap(stateMap, rtpKey, rtpStreamState)
      /\ \A k \in DOMAIN stateMap : k.callID \in DOMAIN calls
      /\ \A c \in DOMAIN calls : calls[c] \in Call /\ calls[c].disconnectedAt \in Nat
  BY RtpParamsAssumption
     DEF LoopInv, TypeOK, StreamInv, WritersFollowStreams, RtpTypeOK, SipInv,
         SipTypeOK, IsMap, Call
<1>2. \A k \in DOMAIN stateMap : stateMap[k].lastSeen \in Nat
  BY <1>1 DEF IsMap, rtpStreamState
<1>3. Times \subseteq Nat
  BY TimesAssumption
(* Packets do not move the sweep; calls that end, end behind it.           *)
<1>4. ASSUME NEW ts \in Times, Ordered => ts >= now, now' = ts,
             UNCHANGED lastSweep,
             \A k \in DOMAIN stateMap' :
                \/ stateMap'[k].lastSeen = ts /\ k \notin DOMAIN stateMap
                     /\ k.callID \in DOMAIN calls /\ ~Ended(calls[k.callID], ts)
                \/ k \in DOMAIN stateMap
                     /\ stateMap'[k].lastSeen \in {ts, stateMap[k].lastSeen},
             \A c \in DOMAIN calls :
                calls'[c].disconnectedAt \in {calls[c].disconnectedAt, ts}
      PROVE  SweptInv'
  <2>1. Ordered => lastSweep <= ts
    BY <1>1, <1>3, <1>4 DEF SweptInv
  <2>2. \A k \in DOMAIN stateMap' : stateMap'[k].lastSeen \in Times
    BY <1>4 DEF SweptInv
  <2>3. ASSUME Ordered, NEW k \in DOMAIN stateMap'
        PROVE  /\ IdleSec > 0 => lastSweep <= stateMap'[k].lastSeen + IdleSec
               /\ ~(calls'[k.callID].disconnectedAt > 0
                    /\ lastSweep > calls'[k.callID].disconnectedAt + Grace)
    <3>1. k.callID \in DOMAIN calls
      BY <1>1, <1>4
    <3>2. /\ calls'[k.callID].disconnectedAt \in {calls[k.callID].disconnectedAt, ts}
          /\ calls[k.callID].disconnectedAt \in Nat /\ ts \in Nat
      BY <1>1, <1>3, <1>4, <3>1
    <3>3. ~(calls[k.callID].disconnectedAt > 0
             /\ lastSweep > calls[k.callID].disconnectedAt + Grace)
      <4>1. CASE k \in DOMAIN stateMap
        BY <2>3, <4>1 DEF SweptInv, NoStaleStream, Ended
      <4>2. CASE k \notin DOMAIN stateMap
        BY <1>1, <1>4, <2>1, <2>3, <3>2, <4>2 DEF Ended
      <4> QED
        BY <4>1, <4>2
    <3>4. ~(calls'[k.callID].disconnectedAt > 0
             /\ lastSweep > calls'[k.callID].disconnectedAt + Grace)
      BY <1>1, <2>1, <2>3, <3>2, <3>3
    <3>5. IdleSec > 0 => lastSweep <= stateMap'[k].lastSeen + IdleSec
      <4>1. CASE stateMap'[k].lastSeen = ts
        BY <1>1, <2>1, <2>3, <3>2, <4>1
      <4>2. CASE k \in DOMAIN stateMap /\ stateMap'[k].lastSeen = stateMap[k].lastSeen
        BY <2>3, <4>2 DEF SweptInv, NoStaleStream
      <4> QED
        BY <1>4, <4>1, <4>2
    <3> QED
      BY <3>4, <3>5
  <2> QED
    BY <1>4, <2>1, <2>2, <2>3 DEF SweptInv, NoStaleStream, Ended
<1>5. ASSUME NEW m \in SipMsgs, NEW ts \in Times, ReadSip(m, ts)
      PROVE  SweptInv'
  <2>1. /\ processSIPPkt(m, ts) /\ UNCHANGED <<stateMap, lastSweep>>
        /\ now' = ts /\ (Ordered => ts >= now)
    BY <1>5 DEF ReadSip, NextPacket, rtpVars
  <2>2. \A c \in DOMAIN calls :
           calls'[c].disconnectedAt \in {calls[c].disconnectedAt, ts}
    BY <1>1, <2>1, SipKeepsFields DEF StreamInv
  <2> QED
    BY <1>4, <2>1, <2>2
<1>6. ASSUME NEW p \in RtpPkts, NEW ts \in Times, ReadRtp(p, ts)
      PROVE  SweptInv'
  <2>1. /\ processRTPPkt(p, ts) /\ UNCHANGED lastSweep
        /\ now' = ts /\ (Ordered => ts >= now)
    BY <1>6 DEF ReadRtp, NextPacket
  <2>2. CASE OpenStream(p, ts)
    <3> DEFINE id == OwnerOf(p)
               role == PathOf(calls[id], p).role
    <3>1. /\ Routed(p) /\ KeyOf(p) \notin DOMAIN stateMap /\ ~Ended(calls[id], ts)
          /\ stateMap' = Put(stateMap, KeyOf(p), Update([lastSeen |-> 0, received |-> 0], ts))
          /\ calls' = Put(calls, id, SetMediaFlow(calls[id], role))
      BY <2>2 DEF OpenStream, IsNewStream, Accepted
    <3>2. id \in DOMAIN calls /\ KeyOf(p).callID = id
      BY <1>1, <3>1, RouteGivesRole DEF StreamInv
    <3>3. Update([lastSeen |-> 0, received |-> 0], ts).lastSeen = ts
      BY DEF Update
    <3> HIDE DEF id, role
    <3>4. \A c \in DOMAIN calls : calls'[c].disconnectedAt = calls[c].disconnectedAt
      <4>1. calls[id] \in Call
        BY <1>1, <3>2
      <4>2. SetMediaFlow(calls[id], role).disconnectedAt = calls[id].disconnectedAt
        BY <4>1 DEF SetMediaFlow, Call
      <4> QED
        BY <3>1, <3>2, <4>2 DEF Put
    <3>5. \A k \in DOMAIN stateMap' :
             \/ stateMap'[k].lastSeen = ts /\ k \notin DOMAIN stateMap
                  /\ k.callID \in DOMAIN calls /\ ~Ended(calls[k.callID], ts)
             \/ k \in DOMAIN stateMap /\ stateMap'[k].lastSeen = stateMap[k].lastSeen
      BY <3>1, <3>2, <3>3 DEF Put
    <3> QED
      BY <1>4, <2>1, <3>4, <3>5
  <2>3. CASE StreamPacket(p, ts)
    <3>1. /\ UNCHANGED calls /\ KeyOf(p) \in DOMAIN stateMap
          /\ stateMap' = Put(stateMap, KeyOf(p), Update(stateMap[KeyOf(p)], ts))
      BY <2>3 DEF StreamPacket
    <3>2. \A k \in DOMAIN stateMap' :
             /\ k \in DOMAIN stateMap
             /\ stateMap'[k].lastSeen \in {ts, stateMap[k].lastSeen}
      BY <3>1 DEF Put, Update
    <3> QED
      BY <1>4, <2>1, <3>1, <3>2
  <2>4. CASE IgnoreRtp(p) \/ RefuseStream(p, ts) \/ CreatePcapFails(p, ts)
             \/ PcapWriteFails(p)
    <3>1. UNCHANGED <<stateMap, calls>>
      BY <2>4
         DEF IgnoreRtp, RefuseStream, CreatePcapFails, PcapWriteFails, NotCounted, rtpVars
    <3> QED
      BY <1>4, <2>1, <3>1
  <2> QED
    BY <2>1, <2>2, <2>3, <2>4 DEF processRTPPkt
(* What a sweep leaves open is neither idle nor of an ended call.          *)
<1>7. ASSUME Sweep PROVE SweptInv'
  <2>1. /\ CloseWriters(Expired(now)) /\ UNCHANGED calls
        /\ lastSweep' = now /\ now' = now
    BY <1>7 DEF Sweep, sweepIdleStreams, sipVars
  <2>2. \A k \in DOMAIN stateMap' :
           k \in DOMAIN stateMap \ Expired(now) /\ stateMap'[k] = stateMap[k]
    BY <2>1 DEF CloseWriters, Without
  <2>3. ASSUME NEW k \in DOMAIN stateMap'
        PROVE  /\ IdleSec > 0 => now <= stateMap'[k].lastSeen + IdleSec
               /\ ~Ended(calls[k.callID], now)
    <3>1. ~Idle(k, now) /\ ~Ended(calls[k.callID], now)
      BY <2>2 DEF Expired
    <3>2. stateMap[k].lastSeen \in Times /\ stateMap[k].lastSeen > 0
      <4>1. stateMap[k].lastSeen \in Times
        BY <2>2 DEF SweptInv
      <4>2. \A t \in Times : t > 0
        <5> SUFFICES ASSUME NEW t \in Times PROVE t > 0
          OBVIOUS
        <5>1. t \in Nat /\ t # 0
          BY <1>3
        <5> QED
          BY <5>1
      <4> QED
        BY <4>1, <4>2
    <3> QED
      BY <1>1, <1>2, <2>2, <3>1, <3>2 DEF Idle
  <2> QED
    BY <1>1, <2>1, <2>2, <2>3 DEF SweptInv, NoStaleStream, Ended
<1>8. ASSUME StartSecondPass PROVE SweptInv'
  <2>1. UNCHANGED <<stateMap, calls>> /\ now' = 0 /\ lastSweep' = 0
    BY <1>8 DEF StartSecondPass, rtpVars, sipVars
  <2> QED
    BY <1>1, <1>2, <2>1 DEF SweptInv, NoStaleStream, Ended
<1>9. ASSUME Finish \/ ReadError PROVE SweptInv'
  <2>1. /\ CloseWriters(rtpKey) /\ UNCHANGED <<lastSweep, now>>
    BY <1>9 DEF Finish, ReadError, Cleanup
  <2>2. DOMAIN stateMap' = {}
    BY <1>1, <2>1 DEF CloseWriters, Without, IsMap
  <2> QED
    BY <2>1, <2>2 DEF SweptInv, NoStaleStream
<1>10. ASSUME UNCHANGED vars PROVE SweptInv'
  BY <1>10 DEF vars, rtpVars, sipVars, loopVars, SweptInv, NoStaleStream, Ended
<1> QED
  BY <1>5, <1>6, <1>7, <1>8, <1>9, <1>10 DEF Next

(* No stream that should have fallen to the last sweep is open.  A capture *)
(* that starts at time zero is another matter: lastSeen zero reads as      *)
(* "never seen", and such a stream is never idle.                          *)
THEOREM StaleStreamsAreClosed == 0 \notin Times => (Spec => []NoStaleStream)
<1> SUFFICES ASSUME 0 \notin Times PROVE Spec => []NoStaleStream
  OBVIOUS
<1>1. Init => SweptInv
  BY DEF Init, RtpInit, SweptInv, NoStaleStream
<1>2. LoopInv /\ SweptInv /\ [Next]_vars => SweptInv'
  BY SweptStep
<1>3. SweptInv => NoStaleStream
  BY DEF SweptInv
<1> QED
  BY <1>1, <1>2, <1>3, LoopInvariant, PTL DEF Spec

-----------------------------------------------------------------------------
(* What can be said of the end of a run without fairness.                  *)

(* A run that has ended, by itself or by an error, holds nothing open.     *)
ReleasedAtEnd == pc \in {"done", "failed"} => Released

(* Only --two-pass has a second pass.                                      *)
PassOfMode == Mode = "single" => pass = 1

(* How far the loop is from its end: the packets of the pass that has yet  *)
(* to come, twice the packets left of this one, and what is due besides.   *)
Due == IF pc = "sweep" THEN 2 ELSE IF pc = "read" THEN 1 ELSE 0

Distance == (IF pass = 1 THEN 2 * MaxPkts + 1 ELSE 0) + 2 * left + Due

(* The deferred clean-up closes whatever is open.                          *)
LEMMA CleanupReleases ==
    ASSUME RtpTypeOK, Cleanup
    PROVE  Released'
<1>1. CloseWriters(rtpKey)
  BY DEF Cleanup
<1>2. /\ DOMAIN stateMap \subseteq rtpKey /\ DOMAIN pcapWriters \subseteq rtpKey
      /\ DOMAIN wavWriters \subseteq rtpKey
  BY DEF RtpTypeOK, IsMap
<1> QED
  BY <1>1, <1>2 DEF CloseWriters, ClosePcaps, Without, Released

(* However a run ends, no writer and no stream is left open: the safety    *)
(* part of EverythingReleased.                                             *)
THEOREM EndReleasesAll == Spec => []ReleasedAtEnd
<1>1. Init => ReleasedAtEnd
  BY DEF Init, ReleasedAtEnd
<1>2. ASSUME LoopInv, ReleasedAtEnd, [Next]_vars PROVE ReleasedAtEnd'
  <2>1. CASE Finish \/ ReadError
    BY <1>2, <2>1, CleanupReleases DEF Finish, ReadError, LoopInv, StreamInv, ReleasedAtEnd
  <2>2. CASE UNCHANGED vars
    BY <1>2, <2>2 DEF vars, rtpVars, loopVars, ReleasedAtEnd, Released
  <2>3. CASE Next /\ ~(Finish \/ ReadError)
    <3>1. pc' \notin {"done", "failed"}
      BY <2>3 DEF Next, ReadSip, ReadRtp, Sweep, StartSecondPass, NextPacket
    <3> QED
      BY <3>1 DEF ReleasedAtEnd
  <2> QED
    BY <1>2, <2>1, <2>2, <2>3
<1> QED
  BY <1>1, <1>2, LoopInvariant, PTL DEF Spec

(* Every step of the loop, sweeps, errors and the turn to the second pass  *)
(* among them, brings it nearer to the end of a finite capture, so that no *)
(* run takes more than finitely many steps: the termination argument.      *)
THEOREM EveryStepNearsEnd ==
    Spec => [](Distance \in Nat) /\ [][Distance' < Distance]_vars
<1>1. LoopInv => Distance \in Nat
  BY AnalyzerAssumption DEF LoopInv, TypeOK, Distance, Due
<1>2. Spec => []PassOfMode
  <2>1. Init => PassOfMode
    BY DEF Init, PassOfMode
  <2>2. PassOfMode /\ [Next]_vars => PassOfMode'
    BY DEF PassOfMode, Next, ReadSip, ReadRtp, NextPacket, Sweep, StartSecondPass,
           LastPass, Finish, ReadError, vars, loopVars
  <2> QED
    BY <2>1, <2>2, PTL DEF Spec
<1>3. ASSUME LoopInv, PassOfMode, Next PROVE Distance' < Distance
  <2>1. PICK n \in Nat : n = MaxPkts
    BY AnalyzerAssumption
  <2>2. left \in 0 .. n /\ pass \in {1, 2}
    BY <1>3, <2>1 DEF LoopInv, TypeOK
  <2>3. ASSUME NEW m \in SipMsgs, NEW ts \in Times, ReadSip(m, ts)
        PROVE  Distance' < Distance
    <3>1. left' = left - 1 /\ pass' = pass /\ pc' = pc
      BY <2>3 DEF ReadSip, NextPacket
    <3> QED
      BY <2>1, <2>2, <3>1 DEF Distance, Due
  <2>4. ASSUME NEW p \in RtpPkts, NEW ts \in Times, ReadRtp(p, ts)
        PROVE  Distance' < Distance
    <3>1. left' = left - 1 /\ pass' = pass /\ pc = "read" /\ pc' \in {"read", "sweep"}
      BY <2>4 DEF ReadRtp, NextPacket
    <3> QED
      BY <2>1, <2>2, <3>1 DEF Distance, Due
  <2>5. CASE Sweep
    <3>1. left' = left /\ pass' = pass /\ pc = "sweep" /\ pc' = "read"
      BY <2>5 DEF Sweep
    <3> QED
      BY <2>1, <2>2, <3>1 DEF Distance, Due
  <2>6. CASE StartSecondPass
    <3>1. pass = 1 /\ pass' = 2 /\ left' = n /\ pc' = pc
      BY <1>3, <2>1, <2>2, <2>6, AnalyzerAssumption
         DEF StartSecondPass, LastPass, PassOfMode
    <3> QED
      BY <2>1, <2>2, <3>1 DEF Distance, Due
  <2>7. CASE Finish \/ ReadError
    <3>1. left' = left /\ pass' = pass /\ pc = "read" /\ pc' \in {"done", "failed"}
      BY <2>7 DEF Finish, ReadError
    <3> QED
      BY <2>1, <2>2, <3>1 DEF Distance, Due
  <2> QED
    BY <1>3, <2>3, <2>4, <2>5, <2>6, <2>7 DEF Next
<1>4. LoopInv /\ PassOfMode /\ [Next]_vars => [Distance' < Distance]_vars
  BY <1>3
<1> QED
  BY <1>1, <1>2, <1>4, LoopInvariant, PTL DEF Spec

=============================================================================
