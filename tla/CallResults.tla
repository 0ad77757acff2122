---------------------------- MODULE CallResults ----------------------------
(***************************************************************************)
(* What the program makes of a finished analysis (main.go): the metrics of *)
(* the streams gathered per Call (model.go), the mix of the audio of every *)
(* Call (audio.go) and index.csv (exporter.go).                            *)
(*                                                                         *)
(* Metrics are integers, MOS from 1 up; an average is kept as a sum and a  *)
(* count.  A row counts as written to the disk with its last byte.  The    *)
(* columns that are copied from the Call are left out; Go iterates over a  *)
(* map in any order.                                                       *)
(***************************************************************************)
EXTENDS Integers, Sequences, FiniteSets, SequencesExt, FiniteSetsExt

CONSTANTS
    CallIds,
    Streams,
    Captures,   \* what the capture held: [calls, streams], see below
    CodeFlags,  \* what --sip-code may list; Atoi failed on the negative ones
    MixFlag,    \* --mix-audio
    NoMetrics,  \* a stream of one packet
    NoFile,     \* there is no rtp_mixed.wav
    Mixed,      \* the name rtp_mixed.wav
    Header      \* the first line of index.csv

Metrics == [jitter : Nat, loss : Nat, mos : Nat \ {0}]

(* A dialog as SIP left it, and a stream at the end of its packets.        *)
Dialog  == [FinalCode : Nat, ConnectedAt : Nat, DisconnectedAt : Nat]
Stream  == [call : CallIds, role : {"caller", "callee"}, wav : BOOLEAN,
            metrics : Metrics \cup {NoMetrics}]

ASSUME CapturesAssumption ==
    \A c \in Captures :
        /\ c.calls \in [CallIds -> Dialog]
        /\ DOMAIN c.streams \subseteq Streams /\ c.streams \in [DOMAIN c.streams -> Stream]

(* The name of a stream's file is rtp_ and eight hexadecimal digits.       *)
ASSUME NamesAssumption == Mixed \notin Streams

ASSUME CodeFlagsAssumption == CodeFlags \subseteq SUBSET Int

(* The call table is a map in memory.                                      *)
ASSUME FiniteAssumption == IsFiniteSet(CallIds)

VARIABLES
    codeFlag,  \* the entries of --sip-code
    dialogs,   \* call -> Dialog
    streams,   \* stream -> Stream
    call,      \* call -> the accumulators and metrics of Call
    open,      \* streams that are not finalized yet
    pc,        \* "analyze", "mix", "csv", "done", "failed"
    mixes,     \* call -> names in the mix rtp_mixed.wav holds, or NoFile
    mixed,     \* calls ffmpeg was run for
    todo,      \* calls the current loop over the table has still to visit
    buffer,    \* lines in the csv.Writer, in order
    disk,      \* lines in index.csv
    written    \* the row count writeCSV returns

inputVars == <<codeFlag, dialogs, streams>>
mixVars == <<mixes, mixed>>
csvVars == <<buffer, disk, written>>
vars == <<inputVars, call, open, pc, mixVars, todo, csvVars>>

NoAggregates ==
    [rtpCount |-> 0, rtpJSum |-> 0, rtpLSum |-> 0, rtpMOSMin |-> 0,
     HadCallerRTP |-> FALSE, HadCalleeRTP |-> FALSE]

(* The media flags were set as the streams opened.                         *)
Sent(c, role) == \E s \in DOMAIN streams : streams[s].call = c /\ streams[s].role = role

(* An earlier run may have left a mix in the directory of the call; {} is  *)
(* a mix of nothing this run knows of.                                     *)
Init ==
    /\ codeFlag \in CodeFlags
    /\ \E c \in Captures : dialogs = c.calls /\ streams = c.streams
    /\ call = [c \in CallIds |-> [NoAggregates EXCEPT !.HadCallerRTP = Sent(c, "caller"),
                                                      !.HadCalleeRTP = Sent(c, "callee")]]
    /\ open = DOMAIN streams
    /\ pc = "analyze" /\ todo = {}
    /\ mixes \in [CallIds -> {NoFile, {}}] /\ mixed = {}
    /\ buffer = << >> /\ disk = << >> /\ written = 0

-----------------------------------------------------------------------------
(* Mutant of RecordRTPStream: a minimum that starts at 0.                  *)
RecordRTPStream_zero(c, m) ==
    [c EXCEPT !.rtpCount = @ + 1, !.rtpJSum = @ + m.jitter, !.rtpLSum = @ + m.loss,
              !.rtpMOSMin = IF m.mos < @ THEN m.mos ELSE @]

(* The first stream sets the minimum.                                      *)
RecordRTPStream(c, m) ==
    [c EXCEPT !.rtpCount = @ + 1, !.rtpJSum = @ + m.jitter, !.rtpLSum = @ + m.loss,
              !.rtpMOSMin = IF c.rtpCount = 0 \/ m.mos < @ THEN m.mos ELSE @]

(* By a sweep or by the clean-up at the end.                               *)
FinalizeStream(s) ==
    /\ pc = "analyze" /\ s \in open
    /\ open' = open \ {s}
    /\ call' = IF streams[s].metrics = NoMetrics THEN call
               ELSE [call EXCEPT ![streams[s].call] =
                                    RecordRTPStream(@, streams[s].metrics)]
    /\ UNCHANGED <<inputVars, pc, mixVars, todo, csvVars>>

(* The analysis returned an error: main exits before mixing and the CSV.   *)
AnalysisFails ==
    /\ pc = "analyze" /\ open = {}
    /\ pc' = "failed"
    /\ UNCHANGED <<inputVars, call, open, mixVars, todo, csvVars>>

(* Mutant of AnalysisEnds: mixing starts while streams are open.           *)
AnalysisEnds_early ==
    /\ pc = "analyze"
    /\ pc' = "mix"
    /\ todo' = IF MixFlag THEN CallIds ELSE {}
    /\ UNCHANGED <<inputVars, call, open, mixVars, csvVars>>

(* The deferred clean-up has closed every writer when the call returns.    *)
AnalysisEnds ==
    /\ pc = "analyze" /\ open = {}
    /\ pc' = "mix"
    /\ todo' = IF MixFlag THEN CallIds ELSE {}
    /\ UNCHANGED <<inputVars, call, open, mixVars, csvVars>>

-----------------------------------------------------------------------------
(* mixCallsAudio and mixCallAudio.                                         *)

WavsOf(c) == {s \in DOMAIN streams : streams[s].call = c /\ streams[s].wav}

(* os.ReadDir: every rtp_*.wav, an earlier rtp_mixed.wav too.              *)
wavFiles(c) == WavsOf(c) \cup (IF mixes[c] = NoFile THEN {} ELSE {Mixed})

Mixable(c) == Cardinality(wavFiles(c)) >= 2

(* ffmpeg (external) overwrites the mix, or fails and leaves it alone, or  *)
(* fails and leaves nothing that can be used.                              *)
RunFfmpeg(c) ==
    /\ mixed' = mixed \cup {c}
    /\ mixes' \in {[mixes EXCEPT ![c] = wavFiles(c)], [mixes EXCEPT ![c] = {}], mixes}

(* An error, a directory that cannot be read or ffmpeg not being there for *)
(* one, is logged and the loop goes on.                                    *)
MixCall(c) ==
    /\ pc = "mix" /\ c \in todo
    /\ todo' = todo \ {c}
    /\ \/ Mixable(c) /\ RunFfmpeg(c)
       \/ UNCHANGED mixVars
    /\ UNCHANGED <<inputVars, call, open, pc, csvVars>>

-----------------------------------------------------------------------------
(* writeCSV.                                                               *)

(* Mutant of codeFilter: an entry of 0 stays.                              *)
codeFilter_zero == {e \in codeFlag : e >= 0}

(* An entry that is no positive number is dropped with a warning.          *)
codeFilter == {e \in codeFlag : e > 0}

Selected(c) == codeFilter = {} \/ dialogs[c].FinalCode \in codeFilter

mediaFlow(c) ==
    IF call[c].HadCallerRTP /\ call[c].HadCalleeRTP THEN "both"
    ELSE IF call[c].HadCallerRTP THEN "caller-only"
    ELSE IF call[c].HadCalleeRTP THEN "callee-only" ELSE ""

(* Empty unless both ends were seen, in this order.                        *)
callDuration(c) ==
    LET d == dialogs[c]
    IN  IF d.ConnectedAt = 0 \/ d.DisconnectedAt = 0 \/ d.DisconnectedAt < d.ConnectedAt
        THEN {} ELSE {d.DisconnectedAt - d.ConnectedAt}

(* Empty at 0; an average is 0 iff its sum is.                             *)
formatRTPFloat(sum, n) == IF sum = 0 THEN {} ELSE {<<sum, n>>}

Row(c) ==
    [call     |-> c,
     duration |-> callDuration(c),
     mos      |-> formatRTPFloat(call[c].rtpMOSMin, 1),
     jitter   |-> formatRTPFloat(call[c].rtpJSum, call[c].rtpCount),
     loss     |-> formatRTPFloat(call[c].rtpLSum, call[c].rtpCount),
     flow     |-> mediaFlow(c)]

(* A mix that failed does not keep the CSV from being written.             *)
CreateIndex ==
    /\ pc = "mix" /\ todo = {}
    /\ pc' = "csv" /\ todo' = CallIds
    /\ buffer' = <<Header>>
    /\ UNCHANGED <<inputVars, call, open, mixVars, disk, written>>

CreateFails ==
    /\ pc = "mix" /\ todo = {}
    /\ pc' = "failed"
    /\ UNCHANGED <<inputVars, call, open, mixVars, todo, csvVars>>

(* The first k of the lines reach the disk.                                *)
Flushed(lines, k) == disk' = disk \o SubSeq(lines, 1, k)

(* Mutant of WriteRow: the call is visited again.                          *)
WriteRow_again(c) ==
    /\ pc = "csv" /\ c \in todo /\ Selected(c)
    /\ written' = written + 1
    /\ buffer' = Append(buffer, Row(c))
    /\ UNCHANGED <<inputVars, call, open, pc, mixVars, todo, disk>>

(* The row fits into the buffer, or the buffer is written to make room.    *)
WriteRow(c) ==
    /\ pc = "csv" /\ c \in todo /\ Selected(c)
    /\ todo' = todo \ {c}
    /\ written' = written + 1
    /\ LET lines == Append(buffer, Row(c))
       IN  \E k \in 0 .. Len(lines) :
             /\ Flushed(lines, k)
             /\ buffer' = SubSeq(lines, k + 1, Len(lines))
    /\ UNCHANGED <<inputVars, call, open, pc, mixVars>>

(* Mutant of RowFails: the error is not returned, the rows in the buffer   *)
(* are lost.                                                               *)
RowFails_ignored(c) ==
    /\ pc = "csv" /\ c \in todo /\ Selected(c)
    /\ todo' = todo \ {c}
    /\ written' = written + 1
    /\ buffer' = << >>
    /\ UNCHANGED <<inputVars, call, open, pc, mixVars, disk>>

(* The disk is full: part of the buffer is written, Write returns the      *)
(* error, and the deferred Flush finds it sticking.                        *)
RowFails(c) ==
    /\ pc = "csv" /\ c \in todo /\ Selected(c)
    /\ pc' = "failed"
    /\ \E k \in 0 .. Len(buffer) : Flushed(buffer, k)
    /\ UNCHANGED <<inputVars, call, open, mixVars, todo, buffer, written>>

SkipRow(c) ==
    /\ pc = "csv" /\ c \in todo /\ ~Selected(c)
    /\ todo' = todo \ {c}
    /\ UNCHANGED <<inputVars, call, open, pc, mixVars, csvVars>>

(* w.Error() is asked first and finds nothing; the deferred Flush writes   *)
(* what is in the buffer, or fails with nobody to tell.                    *)
ReturnCount ==
    /\ pc = "csv" /\ todo = {}
    /\ pc' = "done"
    /\ \E k \in 0 .. Len(buffer) : Flushed(buffer, k)
    /\ UNCHANGED <<inputVars, call, open, mixVars, todo, buffer, written>>

Next ==
    \/ \E s \in Streams : FinalizeStream(s)
    \/ AnalysisFails \/ AnalysisEnds
    \/ \E c \in CallIds : MixCall(c)
    \/ CreateIndex \/ CreateFails
    \/ \E c \in CallIds : WriteRow(c) \/ RowFails(c) \/ SkipRow(c)
    \/ ReturnCount

Spec == Init /\ [][Next]_vars

-----------------------------------------------------------------------------
(* Types.                                                                  *)
Aggregates ==
    [rtpCount : Nat, rtpJSum : Nat, rtpLSum : Nat, rtpMOSMin : Nat,
     HadCallerRTP : BOOLEAN, HadCalleeRTP : BOOLEAN]

TypeOK ==
    /\ codeFlag \in CodeFlags
    /\ dialogs \in [CallIds -> Dialog]
    /\ call \in [CallIds -> Aggregates]
    /\ open \subseteq DOMAIN streams /\ todo \subseteq CallIds
    /\ pc \in {"analyze", "mix", "csv", "done", "failed"}
    /\ mixes \in [CallIds -> {NoFile} \cup SUBSET (Streams \cup {Mixed})]
    /\ mixed \subseteq CallIds
    /\ written \in 0 .. Cardinality(CallIds)

(* The streams of a call with metrics, and those of them finalized so far. *)
Measurable(c) ==
    {s \in DOMAIN streams : streams[s].call = c /\ streams[s].metrics # NoMetrics}

Measured(c) == Measurable(c) \ open

JitterOf(M) == SumFunction([s \in M |-> streams[s].metrics.jitter])
LossOf(M)   == SumFunction([s \in M |-> streams[s].metrics.loss])
WorstMos(M) == Min({streams[s].metrics.mos : s \in M})

(* The aggregates of a Call are those of the streams finalized so far, in  *)
(* whatever order sweeps and the clean-up took them: the sums, and the     *)
(* worst MOS.                                                              *)
AggregatesMatchStreams ==
    \A c \in CallIds :
        /\ call[c].rtpCount = Cardinality(Measured(c))
        /\ call[c].rtpJSum = JitterOf(Measured(c))
        /\ call[c].rtpLSum = LossOf(Measured(c))
        /\ Measured(c) # {} => call[c].rtpMOSMin = WorstMos(Measured(c))

Rows(lines) == {lines[i].call : i \in 2 .. Len(lines)}

FlowOf(roles) ==
    IF roles = {} THEN "" ELSE IF roles = {"caller"} THEN "caller-only"
    ELSE IF roles = {"callee"} THEN "callee-only" ELSE "both"

(* The calls --sip-code asks for: all, if it has no valid entry.           *)
Wanted(c) ==
    (\E e \in codeFlag : e > 0) =>
        dialogs[c].FinalCode > 0 /\ dialogs[c].FinalCode \in codeFlag

(* When the run reports success the count it returns is that of the calls  *)
(* --sip-code asks for, and each row that reached the disk is of one of    *)
(* them: its worst MOS, its averages and its sides are those of all        *)
(* streams of the call, whenever they were finalized.  A column is empty   *)
(* where there is no stream of two packets or the value is 0.              *)
RowsOfSelectedCalls ==
    pc = "done" =>
        /\ written = Cardinality({c \in CallIds : Wanted(c)})
        /\ \A i \in DOMAIN disk : disk[i] # Header =>
              LET row == disk[i]
                  M   == Measurable(row.call)
              IN  /\ Wanted(row.call)
                  /\ row.mos = IF M = {} THEN {} ELSE {<<WorstMos(M), 1>>}
                  /\ row.jitter = formatRTPFloat(JitterOf(M), Cardinality(M))
                  /\ row.loss = formatRTPFloat(LossOf(M), Cardinality(M))
                  /\ row.flow = FlowOf({streams[s].role : s \in
                         {t \in DOMAIN streams : streams[t].call = row.call}})

(* Whichever writes of the buffer fail unnoticed: a run that reports       *)
(* success lost at most the lines in the buffer at the end, and index.csv  *)
(* has no hole and no row twice.                                           *)
OnlyTheTailIsLost ==
    pc = "done" =>
        \E k \in 0 .. Len(buffer) :
            LET all == disk \o SubSeq(buffer, k + 1, Len(buffer))
            IN  /\ Len(all) = written + 1
                /\ all[1] = Header
                /\ Rows(all) = {c \in CallIds : Wanted(c)}

(* mixCallAudio: a mix this run made holds every audio file of its call,   *)
(* all of them finished, and no file of another call; beside them at most  *)
(* the mix an earlier run left, which takes the place of a second file.    *)
MixesFinishedFiles ==
    \A c \in CallIds :
        mixes[c] \notin {NoFile, {}} =>
            /\ c \in mixed /\ WavsOf(c) \cap open = {}
            /\ mixes[c] \ {Mixed} = WavsOf(c)
            /\ WavsOf(c) # {} /\ Cardinality(mixes[c]) >= 2

=============================================================================
