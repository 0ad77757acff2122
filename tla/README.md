# Formal verification of callfrompcap

`callfrompcap` reads capture files, follows the SIP dialogs in them, writes one
directory per dialog (SIP trace, one pcap and one audio file per RTP stream)
and an `index.csv` with one row per dialog.  This directory holds TLA+ models
of the program, the TLC configurations that check them on small instances and
proofs, checked by TLAPS, that some properties hold for every instance.

Contents: [inventory](#1-inventory), [modules](#2-modules-and-the-code),
[runs](#3-what-the-runs-check), [fairness](#4-fairness), [proofs](#5-proofs),
[where code and documents disagree](#6-where-code-and-documents-disagree),
[not modelled](#7-what-is-not-modelled), [plan](#8-plan).

## 1. Inventory

The program is one goroutine.  A packet is read, classified by its first
payload byte, handled to the end and then the next one is read; what is hard
is not parallelism but the order in which packets of many dialogs and streams
arrive (reordered, duplicated, lost, cut off), calls that fail half way through
a handler, and state that one half of the program (SIP) writes and the other
half (RTP) reads at some later packet.

| Component | Source | State | Operations |
|---|---|---|---|
| SIP call table | `sipextractor.go`, `model.go` | `calls`, `endpointMap`, `usedDirs`, `rejectedIDs` | `processSIPPkt`, `safeDirname`, `extractCalls` |
| SIP trace file cache | `sipextractor.go` | `handles`, `order`, the files | `write`, `closeAll` |
| RTP streams | `rtpextractor.go` | `pcapWriters`, `wavWriters`, `stateMap`, `closedStreams` | `processRTPPkt`, `sweepIdleStreams`, deferred clean-up |
| Operation modes, packet loop | `analyzer.go`, `rtpextractor.go`, `main.go` | position in the capture, packets counted | `analyze`, `extractCalls` then `extractRTP` |
| Capture file reader | `pcap.go` | file, bytes read | `Open`, `Next`, `IsTruncated`, loop over files |
| Capture file writer | `pcap.go` | buffered file | `NewPcapWriter`, `Write`, `Close` |
| Stream statistics | `rtpstats.go`, `model.go` | sequence numbers, jitter accumulator | `update`, `finalize`, `recordRTPStream` |
| SIP parser | `sipparser.go` | scanner of the SDP body | `parseSIP` |
| Frame parser | `parse.go` | none | `parseUDP`, `parseIPv4UDP` |
| Audio writers | `audio.go` | files, gap filler, segments | `makeWriter`, `WavWriter`, `FfmpegWriter` |
| Ring-tone trimming | `audio.go` | buffered frames | `RingDetector`, `findRingEnd` |
| Audio mixing | `audio.go` | files of the call's directory | `mixCallsAudio`, `mixCallAudio` |
| CSV export | `exporter.go`, `model.go` | buffered rows, aggregates of a Call | `writeCSV`, `RecordRTPStream` |
| Progress display, installers | `progress.go`, `scripts/` | none | terminal output, installation |

How they interact:

* The packet loop owns all maps and passes them to the handlers; there is no
  other shared state.  Handlers return errors that the loop logs and forgets:
  a handler that fails half way leaves whatever it had changed.
* SIP to RTP: `endpointMap` says which Call a packet belongs to,
  `CallerEndpoints` / `CalleeEndpoints` on which side its sender is, and
  `DisconnectedAt` when its streams are to be closed.
* RTP to the Call: media-flow flags when a stream opens, metrics when it closes;
  `writeCSV` reads both.
* SIP to audio: the payload map of the Call decides which decoder a stream gets
  and is looked up again with every G.711 packet; `ConnectedAt` tells the ring
  detector that the call has been answered.
* SIP to disk: `processSIPPkt` writes its trace through the cache, which has
  fewer handles than there may be dialogs.
* After the analysis, `main` mixes the audio files and writes `index.csv`, in
  this order and only if the analysis succeeded.

What makes each part correct:

* **Call table**: the three structures that route media agree; no two dialogs
  share a directory; a dialog that was turned away stays away; the row of a
  dialog says what its messages said, in whatever order and number they came.
* **Trace cache**: indistinguishable from plain append-only files, within its
  bound on descriptors.
* **RTP streams**: the maps of the loop stay in step; a stream has one file and
  its role does not change; its pcap writer and its statistics have been given
  the same packets, and all of them are on the disk once it is closed unless a
  flush failed; nothing written is truncated later; metrics count exactly once;
  streams that ended are closed.
* **Packet loop**: every run ends and releases everything.
* **Reader and parsers**: whole records are delivered, once, and a cut file is
  reported; a handler gets exactly the captured bytes of the datagrams meant for
  it; the media of a message is what its SDP announces.
* **Statistics**: the newest packet is tracked over wraps of the sequence
  number, loss is never overstated; the aggregates of a Call do not depend on
  the order in which its streams close.
* **Audio writers**: a file that claims to be complete lasts as long as the time
  it stands for, whatever is lost, late or wraps, as long as `ffmpeg` can decode
  what it is given.
* **Ring-tone trimming**: only runs that have the length of ringing are trimmed,
  nothing said after the answer is, and the buffer is bounded.
* **Mixing and CSV**: a mix is made of all finished files of its call; a run that
  reports success has counted one row for each call asked for, and each row that
  reached the disk tells what all streams of its call were.

The behaviours that tests hardly reach are listed line by line under `hazards`
in `PROJECT.json`, with the properties that cover them.

## 2. Modules and the code

| Module | Models | Composed from |
|---|---|---|
| `GoMaps` | Go maps as partial functions: `m[k] = v`, range-and-assign, `delete`, zero values | |
| `SipDialogs` | `processSIPPkt`, `safeDirname`, the loop of `extractCalls` (`SipSpec` is `--sip-only`) | `GoMaps` |
| `SipHistory` | the same with a log of the messages absorbed, and reference definitions over it | `SipDialogs` |
| `RtpStreams` | `processRTPPkt`, `sweepIdleStreams`, the deferred clean-up, as actions over the Call table | `SipDialogs` |
| `Analyzer` | `analyze` (single pass) and `--two-pass` | `RtpStreams` |
| `TraceLog` | abstract specification: append-only files with failing writes | `GoMaps` |
| `SipFileCache` | `_SipFileCache`; implements `TraceLog` | `GoMaps`, instance of `TraceLog` |
| `PcapReader` | `PcapReader.Next`, `IsTruncated`, and the loop over files | |
| `FrameParser` | `parseUDP`, `parseIPv4UDP`, the tests on the first payload byte | |
| `SipParser` | `parseSIP`: headers, and the scanner of the SDP body | `GoMaps` |
| `PacketFeed` | from the bytes on disk to the handlers, in each of the three loops | `PcapReader`, `FrameParser`, `SipParser` |
| `RtpStats` | sequence tracking and loss of one stream | |
| `TrimmedStream` | abstract specification: a stream delayed, without a prefix | |
| `RingTrim` | `RingDetector`, `findRingEnd`; implements `TrimmedStream` | instance of `TrimmedStream` |
| `AudioWriters` | `makeWriter`, `WavWriter`, `FfmpegWriter`, their gap filling and `Close` | |
| `CallResults` | `RecordRTPStream`, `mixCallsAudio`, `writeCSV`, and the end of `main` | |
| `MCSipHistory`, `MCAnalyzer`, `MCPcapReader`, `MCPacketFeed`, `MCAudioWriters`, `MCCallResults` | instances for TLC | |
| `SipDialogs_proofs`, `SipExtractor_proofs` | theorems about the table; about its history and the trace cache | the second rests on the first |
| `Analyzer_proofs` | theorems about the streams and the loop | `SipDialogs_proofs` |
| `PacketFeed_proofs` | theorems about reader, frame parser, SIP parser and their composition | `Arithmetic` |
| `AudioWriters_proofs`, `RingTrim_proofs` | theorems about the audio files; about what is trimmed of them | `Arithmetic` |
| `Results_proofs` | theorems about the results of the calls and the statistics of the streams | `Arithmetic` |
| `Arithmetic` | lemmas about counters that wrap, greatest and least elements, induction, sums over sets | |

### SipDialogs

`calls` and `endpointMap` are partial functions.  `endpointMap` holds Call-IDs
where the code holds pointers: a Call is never removed from `calls` and never
replaced, so the two are the same.  A message is the record `parseSIP` returns.
`processSIPPkt` is the disjunction of its five ways through: `IgnoreSip` (not
SIP, or rejected before), `RejectDialog` (method filter), `MkdirFails` (the name
stays in `usedDirs`, no Call is made), `OpenDialog` and `UpdateDialog`.  The last
two end in `Deliver`: fields, endpoints, routes, payload map and time stamps
(`Absorb`, `RoutesTaken`), then the trace entry, which may fail to be written
after everything else has changed.

A directory name is the sequence of its `_`-separated chunks, so that `a_2` can
be the counted name of `a` and the sanitised name of another Call-ID; `Base`
gives the sanitised, truncated name of every Call-ID and is any function.

Left out: reason phrases, addresses of the first packet, text of the trace.
The open handles are `SipFileCache`'s; here a trace is the set of dialogs with
entries in it.

### RtpStreams and Analyzer

A stream is keyed by Call-ID and SSRC, as in the code; its role is part of the
path of its files, fixed by the first packet.  Files are the number of packets
in them; creating a file sets it to zero first (`os.Create` truncates).
`processRTPPkt` has six ways through: `IgnoreRtp` (no route, short header,
closed stream), `RefuseStream` (the call has ended), `CreatePcapFails` (nothing
is stored, the next packet tries again), `OpenStream` (with or without an audio
writer), `StreamPacket`, and `PcapWriteFails`, which returns before audio and
statistics.  A pcap is written through a `bufio.Writer` of 64 KB: `pcapFiles`
counts the packets its writer took, `onDisk` the whole packets that have left
the buffer, and any number of them may at any packet.  What fails is a flush
(`FailedFlush`): some of the packets taken earlier, already counted and already
given to audio and statistics, are lost, and since the error of a `bufio.Writer`
is sticky the stream fails from then on (`broken`).  `Close` flushes once more
and its error is ignored (`ClosePcaps`).  Frames are taken to be smaller than
the buffer, so the packet that opened a file cannot fail.  What an audio writer
makes of the packets handed to it, a failing write included, is `AudioWriters`'.

`Analyzer` is the loop: one packet at a time, a sweep every `SweepInterval` RTP
packets as part of that packet, the second pass with a fresh clock over the
same table, and the end or an error at any packet, both through the deferred
clean-up.  The capture is an environment: any sequence of messages and packets
from the given sets, in timestamp order or (`Ordered = FALSE`) not.

### SipFileCache and TraceLog

`handles` leads from a path to an `*os.File`, `osFiles` from an open `*os.File`
to the file on the disk it is open on; an entry is written where the two lead,
so an entry of `handles` that eviction forgets, or a file it closes too early,
makes the entry go astray or the write fail.  One action per way through
`write`: a cached handle, a new one (after evicting the front of `order` if
full), a failing open (after the eviction); every `WriteString` may succeed,
fail without writing, or leave a torn entry.
`TraceLog` says what the caller may rely on: `ok` means appended whole, `error`
means nothing before it changed.

### PcapReader

A file is the lengths of its records and the number of bytes that reached the
disk, so it can end at any byte.  `ReadFull` is `io.ReadFull`'s contract,
`NextErr` the error with its wrapping, `EndOfFile` the comparison by value and
`IsTruncated` the comparison through the wrapping; the difference between the
two is what `AbortsOnlyFor` and `CutFilesNeverAbort` are about.

### FrameParser, SipParser and PacketFeed

A frame is the header fields the code looks at and the number of bytes that
were captured, a payload the set of its byte positions: what can go wrong is an
offset or a length, not a value.  Every length check of `parseUDP` is a conjunct
with the bound the code has.  The reference (`IsDatagram`, `CapturedBody`) is
written from the layout of the headers, without the parser's order of checks.

A line of a SIP message is what the string functions make of it.  `FirstValue`
and `LastValue` are the two ways `parseSIP` treats a repeated header; `scanLine`
is one turn of the loop over the body, `scanBody` its fold.  The reference reads
the body by quantifiers over its lines: the `c=` line in effect for an `m=` line
is the last usable one before it, a codec is the last `a=rtpmap` of the payload
type that belongs to an audio block.

`PacketFeed` refines the file loop of `PcapReader`: every record that is read
goes through the parser and to the handler its loop has for it (`handed`).

### RtpStats

`update` and the loss part of `finalize`, modulo `2^W` (16 in the code).  The
sender's true packet numbers are history variables, against which loss and the
newest packet are compared.  A packet is at most `MaxJump` ahead and `MaxLate`
behind the newest one: outside half a turn the sequence number itself does not
say which it is, and no receiver could.

### RingTrim and TrimmedStream

`buf`, `pass` and the frames written are the detector's; `connectedAt` is the
field of the Call that SIP sets between any two frames.  `writePacket` has the
four ways through it (passing, answered, buffered, cap reached), `close` decides
on what is left.  `AfterCycles` is the loop of `findRingEnd`, one burst and
pause after the other; durations are compared after multiplying with the
denominator of `FrameDur`, so the average frame duration is exact and not a
rounded float.  The reference `IsRingtone` says of a prefix that it is
alternating runs of sound and silence with lengths in range, without an order of
search, and `RingCycles` is the longest such prefix that ends with a pause, that
is, up to the last ring-off.  `arrived` is a history variable; `TrimmedStream`
maps to `arrived`, `out` and "not buffering".

### AudioWriters

One stream.  `makeWriter` chooses by payload type and map; `Remap` is SIP
redefining the payload type between two packets.  `WavPacket` fills the gap from
the wrapped timestamp difference (`Signed`, the `int32` cast), `FfmpegPacket`
keeps the payload.  `FfmpegWriter.Close` is a loop that calls an external
program, so it is one action per turn: `CloseStart`, `CloseFrame` (flushes the
segment at a gap), `CloseEnd`.  A segment is the number of bytes collected since
the last gap: the program appends the payloads and hands `ffmpeg` nothing but
the bytes (`Collect`).  `ffmpeg` is external: it decodes them to their length,
refuses them, or fails half way (`Decodings`).  `mishaps` is a history variable
that says what has gone wrong so far: a segment refused, one cut, or a payload
appended behind one that ended inside a frame, after which the frames are no
longer those of the stream.  `WavWriter.Close` is flush, seek and patch, each of
which may fail, with the header left in one of the states of `header`; writes of
samples fail in `Store`, for both writers.  The true send time of every packet
(`sent`) is a history variable.

### CallResults

The analysis is reduced to the streams it finalizes, in any order; then `main`:
mixing per Call, over its `.wav` files, with `ffmpeg` failing or not and a mix
of an earlier run lying there; the CSV with a buffered writer that flushes a
prefix when it is full and fails from the first error on; selection by
`--sip-code` (`codeFlag` is what the user listed, `codeFilter` the entries that
are left of it); the count that is reported, and the deferred flush behind it
that may lose rows.

## 3. What the runs check

Runs that must pass:

| Run | Bounds | Shows |
|---|---|---|
| `sip_history` | 3 dialogs named `a`, `a`, `a_2`; 2 endpoints, 8 messages, 2 timestamps, 4 messages absorbed; `--method INVITE,BYE` | `RoutingAgreement`, `DirectoriesDisjoint`, `RejectionIsFinal`, `RowMatchesCapture`, `RouteIsLatestNewcomer` |
| `single_pass` | 2 dialogs, 3 endpoints, 2 SSRCs, 5 packets, sweep every 2 RTP packets, idle and grace time 1 | the invariants of `RtpStreams` and `Analyzer`, `FilesOnlyGrowProp` |
| `two_pass` | the same dialogs, 4 packets per pass, no order of timestamps, `--no-rtp-pcap` | `FilesOnlyGrowProp` without order and without pcap files, `EverythingReleased` |
| `trace_cache` | 3 files, 2 handles, 2 entries, 5 writes | `OrderListsHandles`, `HandlesBounded`, refinement of `TraceLog` (`ImplementsTraceLog`) |
| `capture_files` | 1 or 2 files of up to 2 records of 0, 1 or 3 bytes, every cut; one frame of every kind, captured up to every byte; SDP bodies of up to 4 lines; three loops | `DeliversWholeRecords`, `WarnsIffCut`, `AbortsOnlyFor`, `HandlersSeeDatagrams`, `MediaAsAnnounced` |
| `packet_loss` | 3-bit sequence numbers, 13 sent, 7 captured, jumps and delays of up to 3 | `NewestTracked`, `LossNotOverstated`, `LossExact` |
| `ring_trim` | bursts of 1 to 2, pauses of 2 to 3, cap 7, steps 0 to 2, 6 frames, the answer known from the start or set between any two frames | `CyclesTrimmed`, `AnsweredAudioKept`, `BufferBounded`, refinement of `TrimmedStream` |
| `audio_timeline` | 4-bit timestamps that wrap, static and dynamic payload types, three codecs, gaps up to 2, late and overlapping packets, 4 packets | `NotAccelerated`, `InRealTime`, `SilenceBounded` |
| `results` | 3 calls, up to 4 streams, `--mix-audio` over directories with and without an old mix, `--sip-code` not given, with two codes and an invalid entry, and with invalid entries only | `AggregatesMatchStreams`, `RowsOfSelectedCalls`, `OnlyTheTailIsLost`, `MixesFinishedFiles` |

Why the bounds are enough to see the hard cases:

* Three dialogs are needed for a name clash of the second kind: `a`, its
  counted name `a_2`, and a dialog that is called `a_2`.  `MaxDirs = 3` names
  per dialog lets a name be lost to a failing `MkdirAll` as well.  Four absorbed
  messages hold an offer, an answer, a rejection and a retransmission in any
  order, the same with a BYE of each side and a response to one, or two
  announcements of each of two dialogs.
* Five packets in `single_pass` hold an INVITE, two packets of a stream (one
  metric), the sweep they trigger, and a late packet that must not reopen the
  stream; or an INVITE, a BYE, and packets before and after the grace period;
  or a port that changes hands between two packets.  One endpoint is announced
  by nobody, so routing by destination is exercised; one packet is short.
* Two handles over three files is the least cache that evicts while another
  handle stays, and reopens what it evicted.
* A record header of 4 bytes instead of 16 has the same cuts: none, inside the
  header, behind it, inside the body, behind the body.
* Frames have every datalink the code knows and one it does not, no, one and two
  VLAN tags, an IP header too short, the least and a longer one, UDP lengths
  below and above a header, and end behind padding or at any byte before: each
  length check has a frame on both sides of it.  Four SDP lines hold a session
  address, an audio block, an address of its own and a line behind a block that
  is not audio.
* Seven captured packets of thirteen sent pass one whole turn of eight
  sequence numbers, with gaps, duplicates and late packets.
* Six frames hold a burst, a pause and the start of the next burst, with a frame
  on each side of every limit; the cap is reached before the frames run out.
* The lists of `--sip-code` leave the filter empty for two reasons and non-empty
  beside an entry that is dropped; a call with one audio file and an old mix,
  and one with no file and an old mix, are on both sides of "fewer than two".
* Four packets hold a gap, a wrap, a late packet and one after it; jumps of 1
  and packets of 2 overlap, jumps of 3 leave a gap, and packets without audio
  between them make gaps longer than `MaxGap`.
* Three streams of one call with different metrics tell sums from maxima and
  minima apart, in all orders; a disk that takes any number of lines at any
  flush loses every suffix of the rows.

`MaxDirs`, `MaxLog`, `MaxPkts`, `MaxWrites`, `MaxIndex`, `MaxReceived`,
`MaxFrames`, `MaxPackets` and `MaxLines` are bounds of the models that the code
does not have.  A step that would exceed one is not taken, and a finished
program takes no step at all, which is why the runs switch the deadlock check
off.

Type correctness is run for `Analyzer`, `PcapReader` and `CallResults` and
proved for these and for `SipDialogs`, `SipFileCache`, `RtpStats`, `RingTrim` and
`AudioWriters`.

Every property of these runs is also run against a mutant of the model (the
operators named `<definition>_<what is wrong>`), which must violate it.

What the properties of `single_pass` and `audio_timeline` do and do not promise:

* `OutputsAgree` has two parts.  `SamePackets` compares what the pcap writer of an
  open stream took with its audio and its statistics; a packet whose pcap write
  failed is in none of them.  `FilesComplete`: what was taken is on the disk when
  the stream is closed, all of it, unless a flush failed.
* `NotAccelerated` and `InRealTime` speak of files whose decoding had no mishap:
  no refused or cut segment, and no short frame before the end of a segment.
* `CyclesTrimmed` leaves open what is trimmed of a buffer that ends with the
  ringing or has a run as long as a burst behind it, `RowMatchesCapture` the end
  of a call whose BYE was read behind its response, and `MixesFinishedFiles`
  admits an old mix as an input.  Section 6 says why.

Runs that must be violated, each showing that a sentence of the documentation or
a comment is not what the code does (section 6):

| Run | Bounds | Violated |
|---|---|---|
| `truncation_doc` | files cut at every byte | `CutFilesNeverAbort` |
| `loss_wrap_doc` | those of `packet_loss` | `LossExactOverWraps` |
| `bye_doc` | those of `sip_history` | `ResponseEndsCall` |

## 4. Fairness

`FairSpec` of `Analyzer` is weak fairness of the whole next-state relation.  The
program is one sequential loop over files of finite length; it never waits for
another process, so it takes its next step while it has one, and no more than
that is assumed.  In particular no error and no end of a file is assumed to
happen: a run ends because the capture does.  All other properties are safety
properties and use no fairness.

## 5. Proofs

TLAPS checks the theorems below for every value of the constants (any sets of
Call-IDs, endpoints, messages, timestamps, names, any capacity, any width of a
counter), from the named assumptions of the modules, which say what type the
constants have and that sentinels are not ordinary values.

**`SipDialogs_proofs`**: `SipTypeCorrect`, `RoutingAgrees`,
`DirectoriesAreDisjoint`, `RejectionsAreFinal`.  The inductive invariant is
`SipInv`, the conjunction of the four.  None of the routing facts is inductive
alone: that a route leads to a Call that announced the endpoint survives an
update only because the update keeps the endpoints of the Call it starts from,
and that Call is the one in the table; that endpoints have sides holds after a
message only if it held before.  That directories stay disjoint needs that every
directory in the table is in `usedDirs`, which is why a fresh name (`FreshName`)
differs from all of them even after a failed `MkdirAll`.  `AbsorbCall` says what
a message does to a Call, `DeliverInv` that delivering it keeps the invariant
(for a Call of the table or a fresh one), `SipStep` that every way through
`processSIPPkt` does.

**`SipExtractor_proofs`, the history**: `RoutesAreLatestNewcomers`,
`RowsMatchCaptures`, `HistoryImplementsTable`.  The log of `SipHistory` is
compared with the table by quantifiers over positions, so each message is one
new greatest position (`LogGrows`, `NewGreatest`): a last occurrence becomes the
new one, a first occurrence stays.  The invariant `HistInv` adds that the log
holds messages of known Calls only and that a Call has exactly the endpoints its
messages announced; without it "first announcement" could not be told from the
state.  `RowsMatchCaptures` assumes that no packet has timestamp 0, as
`StaleStreamsAreClosed` below does, since 0 is how the code says "not seen".

**`SipExtractor_proofs`, the trace cache**: `CacheTypeCorrect`, `OrderIsExact`,
`HandlesAreBounded`, `CacheImplementsTraceLog`.  The inductive invariant
`CacheInv` adds the types, finiteness, and `HandlesLead`: every cached handle is
open, on the file of its path, and no other is.  The bound on handles is not
inductive alone: eviction frees a handle only if the front of `order` is an open
file, which needs that `order` lists every open file and each once
(`AfterEviction`, `AfterOpening`).  The refinement maps the variables `files`
and `result` to themselves.  An entry goes where `handles` and `osFiles` lead,
so that a write maps to a logged or failed write of `TraceLog` (`WriteIsLogged`)
rests on `HandlesLead`, which eviction keeps only because the path it takes from
`order` is the handle it closes (`EvictionCloses`); `closeAll` maps to a
stutter.

**`Analyzer_proofs`**: `TypeCorrect`, `MapsStayInStep`, `RolesAreKnown`,
`StreamsHaveOneFile`, `FilesAreKept`, of the composition of SIP and RTP in both
modes.  The table's part comes from `SipStep`; an RTP handler changes nothing
of the table but the media-flow flags (`FlagsKeepSip`).  A role is always known
because a route leads to a Call that announced the endpoint and every announced
endpoint has a side (`RouteGivesRole`).  That `os.Create` never truncates a file
in use is not inductive alone: it needs that every file there is belongs to a
stream that is open or closed (`AllFilesHaveStreams`), that writers write the
files of their own stream (`WritersOwnFiles`), and that two streams have no
file in common (`FileOfOneStream`, from `DirectoriesDisjoint`).
`AllFilesHaveStreams` is claimed only while the loop runs, because the clean-up
forgets the open streams and leaves their files.  `LoopInv` puts these together
and is inductive (`LoopStep`).

**`Analyzer_proofs`, the outputs**: `OutputsAlwaysAgree`, made of
`SamePacketsTaken` and `FilesAreComplete`, `MediaFlowIsTrue`, `MetricsCountOnce`,
`StaleStreamsAreClosed`, all on top of `LoopInv`.  That a
packet counted for one stream leaves the files of the others alone is
`FileOfOneStream` again; that a new stream starts from empty files is
`NewStreamHasNoFile`.  `FilesAreComplete` adds that with pcap files every open
stream has one (`PcapsByMode`), so that closing it flushes it (`CloseCompletes`).
Metrics and media flow go through `CountedInv`, in which
a stream is open or closed and has been recorded exactly in the second case.
`NoStaleStream` holds streams against the time of the last sweep; `SweptInv`
adds that this time is not ahead of the clock.
`StaleStreamsAreClosed` assumes that no packet has timestamp 0, since 0 is how
the code says "never seen".

**`Analyzer_proofs`, the end**: liveness itself is out of the provers' reach,
its two halves are not.  `EndReleasesAll`: a run that has ended holds nothing
open.  `EveryStepNearsEnd`: every step lowers `Distance`, a natural number made
of the packets left, the pass to come and a sweep that is due.  What is left to
TLC is that a step is always possible before the end.

**`PacketFeed_proofs`, the reader**: `ReaderTypes`, `WholeRecordsDelivered`,
`WarningsAreTrue`, `AbortsHaveCause`, `FeedImplementsReader`.  The invariant
`ReadInv` adds `Position`: the reader stands behind the records delivered, which
are whole, and nothing of a later file has been read.  `ErrorMeans` says of the
error `Next` returns, value and wrapping, where in the file it can come up;
`WholeRecords` that the whole records are a prefix.  Offsets are sums over the
lengths (`EndStep`).

**`PacketFeed_proofs`, frames**: `PayloadIsCapturedBody` says that the parser,
for every frame however it was cut, returns the captured bytes of the body or
nothing.  With `HandledIffWanted` it gives `DatagramsReachHandlers`; `FeedInv`
adds that what has been handed over is the wanted records among those delivered,
each at its rank (`RankStep`, `TellOne`).

**`PacketFeed_proofs`, SDP**: `MediaFound`, for bodies of every length.  The
scanner is a recursive function, which has to be shown to exist before anything
can be said of it (`LineByLine`).  `Heard` is the invariant of the scan: after i
lines the state is what the reference says of the first i lines; one line keeps
it (`HeardStep`, one case per kind of line).

**`Results_proofs`, the calls**: `ResultsTypes`, `AggregatesAlwaysMatch`,
`MixesAreOfFinishedFiles`, `TailAlone`, `RowsAreOfSelectedCalls`.  `GatherInv`
says that the aggregates of a Call are sum, count and worst value over the set
of its streams, so their order cannot matter (`MeasuredSum`, from `SumAdd`).
`CsvInv` follows one row from the map to the buffer and to the disk: what is on
the disk and in the buffer together is the rows of the selected calls reached,
whatever prefix a flush took (`CutLines`, `WriteRowLines`), and after the first
error nothing is added.  `RowsAreOfSelectedCalls` is about the count returned and
the rows that reached the disk; how many did is `TailAlone`.  `SelectedIsWanted`
says that the filter selects the calls `--sip-code` asks for, `RowTellsStreams`
carries `GatherInv` over to the text of a row: all streams of the call are closed
when it is written.  `MixesAreOfFinishedFiles` needs that no audio file has the
name of the mix (`NamesAssumption`).

**`Results_proofs`, the statistics**: `StatsTypeCorrect`, `NewestIsTracked`,
`LossIsNotOverstated`, `LossIsExact`, for every width of the sequence numbers.
`CountersInv` adds to `NewestTracked` that `firstSeq` is the number of the first
packet and that none received is newer than the newest (`Followed`); that a
number is ahead or behind is a fact about differences modulo `2^W` inside half a
turn, which the lemmas of `Arithmetic` give.

**`RingTrim_proofs`**: `RingTypeCorrect`, `AnsweredAudioIsKept`,
`BufferIsBounded`, `RingCyclesAreTrimmed`, `RingImplementsTrimmedStream`.
`RingInv` says that before the
decision the buffer is all that has arrived and afterwards it is empty.  That
nothing said after the answer is trimmed is not inductive alone: what is in the
buffer must be from before the answer whenever it is read (`BufferIsEarly`), and
the answer is read after frames that are no later than the clock of the capture
(`PastIsPast`); both are claimed of an ordered capture.  The refinement needs of
`findRingEnd` only that it returns the length of a prefix (`RingEndInBuffer`).

`RingCyclesAreTrimmed` needs no invariant but the types: it is about
`findRingEnd` of any buffer.  `RunsBegin` and `RingtoneRuns` turn the reference
into a statement about the places where a run begins.  The loop over the cycles
is a recursive function that goes forward in the buffer; it exists and can be
followed cycle by cycle (`CycleByCycle`), and wherever it stops everything before
is ringing and no cycle begins (`CyclesRing`, by induction from the end of the
buffer).  `CutIsLongest` concludes: the place found is a ringtone, and a longer
one would have had one more cycle there; `CyclesAreTrimmed`, that it is the last
ring-off where nothing behind it could be one more burst.

**`AudioWriters_proofs`**: `AudioTypeCorrect`, `AudioIsNotAccelerated`,
`AudioInRealTime`, `SilenceStaysBounded`.  `AudioInv` is the types, `Remembered`
(the payloads kept are those of the packets sent, with wrapped timestamps),
`HeaderLast` and one statement per writer, `WavTimeline` and `FfmpegTimeline`:
what is in the file reaches to the end of every packet taken.  A wrapped
difference below half a turn is the true one (`Arithmetic`), so the silence
inserted is at least the time missing, which carries the statement from one
packet to the next whatever came late before.  `Punctual` adds that the file is
not longer either, for streams in order; both together are `InRealTime`.  In
`FfmpegWriter.Close` the bytes of a segment take the place of its packets: as
long as only the last payload of a segment ends inside a frame, the frames of
the bytes are those of the payloads (`PayloadsJoined`), for any frame size.
`Bounded` holds the file, and in `FfmpegWriter.Close` the part of it written so
far, against the sum over the packets taken (`Reach`), which one more packet
raises by its audio and one capped silence at most.

**`Arithmetic`**: division with remainder, differences of wrapped counters, for
any modulus; least and greatest elements; induction over the numbers, with the
statement as a set (`NumberInduction`), since the induction theorems of the
library take an operator, which the provers cannot instantiate; sums over finite
sets.  The folds of the library are recursive functions, that is, choices of a
function that satisfies an equation: `SumTableExists` shows by induction on the
size of the set that there is one, `SumTakeOut` that any element may be taken
out first, `SumAdd` what a further element adds.

The assumptions on constants, each with its reason:

* `SipDialogs`, `Analyzer`, `RingTrim`, `AudioWriters`, `RtpStats`, `CallResults`:
  types of the parameters, that sentinels are no ordinary values, that a request
  has no status code, and that the call table is finite.
* `CapturesAssumption`: a file is no longer than its records (what follows the
  last whole record is part of a record that was cut off).
* `FeedsAssumption`, `IsFrame`: header fields have their widths, a frame has the
  captured length of its record, and a raw IP packet has no VLAN tag.
* `AddressAssumption`: the value for "no address" is no address; a `c=` line has
  an address and an `m=` line is audio or is not.

Only model-checked: `EverythingReleased`, which is liveness, and with it that the
next-state relation is enabled until the run has ended.  Every invariant and
every action property of the runs that pass is a theorem.

## 6. Where code and documents disagree

With a run that exhibits it (`PROJECT.json` has the lines):

* `truncation_doc`: a capture that ends in the middle of a record is meant not
  to abort the run.  One that ends right behind a record header does.
* `loss_wrap_doc`: wraps of the sequence number are said to be handled.  A
  stream longer than one turn (65536 packets, 22 minutes at 20 ms) has its loss
  understated by whole turns.
* `bye_doc`: `DisconnectedAt` is documented as the time of the final response to
  BYE once there is one (`model.go:30`, `sipextractor.go:183`).  A BYE read after
  it, a retransmission or the other side's, moves the time.

Met while modelling, and modelled as the code does it:

* Everything after the last ring-off is documented to be written
  (`src/README.md:192`).  Sound of 0.3 to 3 s that follows it and is followed by a
  pause is trimmed as a burst (`audio.go:658`): the first words of a greeting,
  for example.  Frames of ring cycles are documented to be discarded; when the
  ringing goes on to the end of the buffer, all of it is written (`audio.go:665`).
* A segment `ffmpeg` cannot decode is said to be skipped because "gaps already kept
  alignment" (`audio.go:367`).  Its own time is missing, and what follows is early
  by it (mishap `refused`).
* A short G.729 frame is said to count as one more frame (`audio.go:306`).  It does
  for the gaps; the bytes given to `ffmpeg` do not show where it ends, so behind
  it frames are put together from two payloads and the file is too short (mishap
  `misaligned`).
* `loss_pct` is documented to be empty without RTP (`src/README.md:41`).  It is also
  empty when nothing was lost (`exporter.go:82`).  A `MOSMin` of 0 is documented to
  mean that no RTP was seen (`model.go:33`); it is also 0, and `mos` empty, when no
  stream had two packets (`rtpstats.go:67`).
* `--sip-code` is documented to exclude calls with no final response
  (`src/README.md:169`).  If no entry is a positive number there is no filter, and
  every call has its row (`main.go:114`, `exporter.go:32`).
* `writeCSV` is documented to return the number of rows written
  (`exporter.go:13`).  It asks for the writer's error before the deferred flush
  (`exporter.go:58`), so rows lost in that flush are in the count, and the program
  reports success.
* `--mix-audio` is documented to have no effect below two WAV streams
  (`src/README.md:180`).  The mix an earlier run left counts as one (`audio.go:500`),
  so `ffmpeg` is run for a call with a single stream, with the old mix as an input
  and as the output.  What it does then is its own affair (`RunFfmpeg`).
* `--method` is documented to look at the first request of a Call-ID
  (`README.md:149`).  A dialog whose first captured message is a response is
  kept whatever its first request is (`sipextractor.go:126`).
* The trace cache is called LRU (`README.md:335`, `sipextractor.go:21`); it
  evicts the file opened first, also when that file has just been used
  (`sipextractor.go:43`).
* An audio line gets the last usable `c=` address before it, so the address of
  a media block behind its `m=` line counts for the next block only
  (`sipparser.go:132`).  The reference of `MediaAsAnnounced` reads the body the
  same way.
* Files named out of time order are read as they come (`main.go:90`): streams
  are swept early or late then.  `two_pass` checks that no file suffers from it;
  `NoStaleStream` is stated for ordered captures.

## 7. What is not modelled

* Jitter and MOS of one stream: floating point.  Their aggregates are modelled,
  over integers.
* Whether a burst is loud enough (`active`): an input of `RingTrim`.
* The content of decoded audio.  `ffmpeg` is external and decodes the bytes it is
  given to the length of their frames, or fails.
* IP fragments, which the parser takes for datagrams of their own.
* The part of a record that a failed flush of a pcap file may leave behind.
* A WAV file of 4 GB, whose 32-bit length would wrap.
* A packet with timestamp 0, which the code cannot tell from "not seen".
* Runs into an output directory that an earlier run has used, but for its mixes.
* Command line and globbing, progress display, installers.

Routing all RTP by the final table in `--two-pass` is how that mode is
documented; `Analyzer` has it, no property calls it wrong.

## 8. Plan

Done, in this order: `SipDialogs` (the table everything else reads), `SipHistory`,
`RtpStreams` and `Analyzer` (the composition), `TraceLog` and `SipFileCache`,
`PcapReader`, `RtpStats`, and the proofs for the table, the composition and the
cache; then `FrameParser`, `SipParser` and `PacketFeed`, `TrimmedStream` and
`RingTrim`, `AudioWriters`, `CallResults`, and the proofs for the statistics, the
ring detector, the audio writers and the outputs of the streams; then the proofs
for the history of the table, reader, parsers, ring cadence, silence and results.

Next:

1. The trace of `SipDialogs` written through `SipFileCache`, with the names of
   an output directory that is used a second time.
2. Jitter and MOS as scaled integers.
3. `WavWriter` behind `RingTrim`: the timeline of a stream whose beginning was
   trimmed.
4. Abstract specifications for the call table and for the loop over the files,
   with the detailed modules shown to implement them by theorem.
