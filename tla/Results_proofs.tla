--------------------------- MODULE Results_proofs ---------------------------
(***************************************************************************)
(* What the program reports at the end is what its streams were: for every *)
(* capture, every order of finalisation, every pattern of failures of the  *)
(* mix and every way the buffer of index.csv reaches the disk              *)
(* (CallResults); and the packet loss it reports is what was lost, for     *)
(* every width of the sequence numbers and every start (RtpStats).         *)
(***************************************************************************)
EXTENDS CallResults, RtpStats, Arithmetic, SequenceTheorems

(* Aggregates start at 0 and nothing is measured twice.                    *)
Gathered ==
    \A c \in CallIds :
        /\ IsFiniteSet(Measured(c))
        /\ Measured(c) = {} <=> call[c].rtpMOSMin = 0
        /\ call[c].HadCallerRTP <=> "caller" \in
              {streams[s].role : s \in {t \in DOMAIN streams : streams[t].call = c}}
        /\ call[c].HadCalleeRTP <=> "callee" \in
              {streams[s].role : s \in {t \in DOMAIN streams : streams[t].call = c}}

StreamsKnown == DOMAIN streams \subseteq Streams /\ streams \in [DOMAIN streams -> Stream]

(* The analysis is over before anything is made of it.                     *)
FinishedFirst == pc # "analyze" => open = {}

GatherInv ==
    TypeOK /\ StreamsKnown /\ FinishedFirst /\ Gathered /\ AggregatesMatchStreams

-----------------------------------------------------------------------------
(* The aggregates of one call match the streams in M.                      *)
Matches(agg, M) ==
    /\ agg.rtpCount = Cardinality(M)
    /\ agg.rtpJSum = JitterOf(M)
    /\ agg.rtpLSum = LossOf(M)
    /\ M # {} => agg.rtpMOSMin = WorstMos(M)

(* AggregatesMatchStreams is Matches of every call.                        *)
LEMMA AggregatesAreMatches ==
    AggregatesMatchStreams <=> \A c \in CallIds : Matches(call[c], Measured(c))
    BY DEF AggregatesMatchStreams, Matches

(* What finalizing a stream does to the streams measured for a call.       *)
LEMMA MeasuredGrows ==
    ASSUME GatherInv, NEW s \in Streams, FinalizeStream(s), NEW c \in CallIds
    PROVE  Measured(c)' = IF c = streams[s].call /\ streams[s].metrics # NoMetrics
                          THEN Measured(c) \cup {s} ELSE Measured(c)
<1>1. /\ s \in open /\ open' = open \ {s} /\ streams' = streams
      /\ open \subseteq DOMAIN streams
  BY DEF FinalizeStream, GatherInv, TypeOK, inputVars, mixVars
<1> QED
  BY <1>1 DEF Measured, Measurable

(* A sum over the streams measured, with one more of them.                 *)
LEMMA MeasuredSum ==
    ASSUME NEW M, IsFiniteSet(M), NEW s, s \notin M,
           NEW f, \A t \in M \cup {s} : f[t] \in Nat
    PROVE  /\ SumFunction([t \in M |-> f[t]]) \in Nat
           /\ SumFunction([t \in M \cup {s} |-> f[t]])
                = SumFunction([t \in M |-> f[t]]) + f[s]
<1> DEFINE g == [t \in M |-> f[t]]
           h == [t \in M \cup {s} |-> f[t]]
<1>1. IsFiniteSet(M \cup {s})
  BY FS_AddElement
<1>2. SumFunctionOnSet(g, M) = SumFunctionOnSet(h, M)
  <2>1. \A t \in M : g[t] = h[t]
    OBVIOUS
  <2> HIDE DEF g, h
  <2> QED
    BY <2>1, SumSame
<1>3. SumFunctionOnSet(h, M \cup {s}) = SumFunctionOnSet(h, M) + h[s]
  <2>1. \A t \in M \cup {s} : h[t] \in Int
    OBVIOUS
  <2> HIDE DEF h
  <2> QED
    BY <2>1, SumAdd
<1>4. SumFunctionOnSet(g, M) \in Nat
  <2>1. \A t \in M : g[t] \in Nat
    OBVIOUS
  <2> HIDE DEF g
  <2> QED
    BY <2>1, SumType
<1>5. SumFunction(g) = SumFunctionOnSet(g, M) /\ SumFunction(h) = SumFunctionOnSet(h, M \cup {s})
  BY DEF SumFunction
<1> QED
  BY <1>2, <1>3, <1>4, <1>5

(* Finalizing a stream keeps the aggregates those of the streams.          *)
LEMMA FinalizeGathers ==
    ASSUME GatherInv, NEW s \in Streams, FinalizeStream(s)
    PROVE  GatherInv'
<1> DEFINE c0 == streams[s].call
           m  == streams[s].metrics
<1>1. /\ s \in open /\ s \in DOMAIN streams /\ open' = open \ {s} /\ pc = "analyze"
      /\ UNCHANGED <<codeFlag, dialogs, streams, pc, mixes, mixed, todo, written>>
      /\ call' = IF m = NoMetrics THEN call
                 ELSE [call EXCEPT ![c0] = RecordRTPStream(@, m)]
  BY DEF FinalizeStream, csvVars, GatherInv, TypeOK, inputVars, mixVars
<1>2. c0 \in CallIds /\ m \in Metrics \cup {NoMetrics}
  BY <1>1 DEF GatherInv, StreamsKnown, Stream
<1>3. \A c \in CallIds : call[c] \in Aggregates
  BY DEF GatherInv, TypeOK
<1>4. TypeOK' /\ StreamsKnown' /\ FinishedFirst'
  <2>1. call' \in [CallIds -> Aggregates]
    <3>1. CASE m = NoMetrics
      BY <1>1, <3>1 DEF GatherInv, TypeOK
    <3>2. CASE m # NoMetrics
      <4>1. call[c0] \in Aggregates /\ m \in Metrics
        BY <1>2, <1>3, <3>2
      <4>2. RecordRTPStream(call[c0], m) \in Aggregates
        <5> DEFINE old == call[c0]
        <5>1. /\ old.rtpCount + 1 \in Nat /\ old.rtpJSum + m.jitter \in Nat
              /\ old.rtpLSum + m.loss \in Nat
              /\ (IF old.rtpCount = 0 \/ m.mos < old.rtpMOSMin
                  THEN m.mos ELSE old.rtpMOSMin) \in Nat
          BY <4>1 DEF Aggregates, Metrics
        <5>2. old \in Aggregates
          BY <4>1
        <5> HIDE DEF old, m
        <5>3. RecordRTPStream(old, m) \in Aggregates
          BY <5>1, <5>2 DEF RecordRTPStream, Aggregates
        <5> QED
          BY <5>3 DEF old
      <4> QED
        BY <1>1, <3>2, <4>2 DEF GatherInv, TypeOK
    <3> QED
      BY <3>1, <3>2
  <2> QED
    BY <1>1, <2>1 DEF GatherInv, TypeOK, StreamsKnown, FinishedFirst
<1>5. ASSUME NEW c \in CallIds,
             Measured(c)' = Measured(c), call'[c] = call[c]
      PROVE  /\ Matches(call[c], Measured(c))'
             /\ IsFiniteSet(Measured(c))'
             /\ (Measured(c) = {} <=> call[c].rtpMOSMin = 0)'
  <2>1. Matches(call[c], Measured(c))
    BY AggregatesAreMatches DEF GatherInv
  <2>2. IsFiniteSet(Measured(c)) /\ (Measured(c) = {} <=> call[c].rtpMOSMin = 0)
    BY DEF GatherInv, Gathered
  <2>3. Matches(call[c], Measured(c))'
    BY <1>1, <1>5, <2>1 DEF Matches, JitterOf, LossOf, WorstMos
  <2> QED
    BY <1>5, <2>2, <2>3
<1>6. ASSUME m # NoMetrics
      PROVE  /\ Matches(call[c0], Measured(c0))'
             /\ IsFiniteSet(Measured(c0))'
             /\ (Measured(c0) = {} <=> call[c0].rtpMOSMin = 0)'
  <2> DEFINE old == call[c0]
             M   == Measured(c0)
             mos == {streams[t].metrics.mos : t \in M}
             jit == [t \in DOMAIN streams |-> streams[t].metrics.jitter]
             los == [t \in DOMAIN streams |-> streams[t].metrics.loss]
  <2>1. /\ Measured(c0)' = M \cup {s}
        /\ call'[c0] = RecordRTPStream(old, m)
    BY <1>1, <1>2, <1>6, MeasuredGrows DEF GatherInv, TypeOK
  <2>2. /\ old \in Aggregates /\ IsFiniteSet(M) /\ s \notin M
        /\ M \subseteq DOMAIN streams
        /\ \A t \in M \cup {s} : streams[t].metrics \in Metrics
        /\ Matches(old, M) /\ (M = {} <=> old.rtpMOSMin = 0)
    BY <1>1, <1>2, <1>3, <1>6, AggregatesAreMatches
       DEF GatherInv, Gathered, Measured, Measurable, StreamsKnown, Stream
  <2>3. /\ call'[c0].rtpCount = old.rtpCount + 1
        /\ call'[c0].rtpJSum = old.rtpJSum + m.jitter
        /\ call'[c0].rtpLSum = old.rtpLSum + m.loss
        /\ call'[c0].rtpMOSMin = IF old.rtpCount = 0 \/ m.mos < old.rtpMOSMin
                                 THEN m.mos ELSE old.rtpMOSMin
    BY <2>1, <2>2 DEF RecordRTPStream, Aggregates
  <2>4. IsFiniteSet(M \cup {s}) /\ Cardinality(M \cup {s}) = Cardinality(M) + 1
    BY <2>2, FS_AddElement
  <2> HIDE DEF old, M
  <2>5. SumFunction([t \in M \cup {s} |-> streams[t].metrics.jitter])
          = SumFunction([t \in M |-> streams[t].metrics.jitter]) + m.jitter
    <3>1. \A t \in M \cup {s} : jit[t] = streams[t].metrics.jitter /\ jit[t] \in Nat
      BY <1>1, <2>2 DEF Metrics
    <3>2. /\ [t \in M \cup {s} |-> streams[t].metrics.jitter] = [t \in M \cup {s} |-> jit[t]]
          /\ [t \in M |-> streams[t].metrics.jitter] = [t \in M |-> jit[t]]
      BY <3>1
    <3>3. m = streams[s].metrics /\ s \in M \cup {s}
      OBVIOUS
    <3> HIDE DEF jit, m
    <3>4. SumFunction([t \in M \cup {s} |-> jit[t]])
            = SumFunction([t \in M |-> jit[t]]) + jit[s]
      BY <2>2, <3>1, MeasuredSum
    <3> QED
      BY <3>1, <3>2, <3>3, <3>4
  <2>6. SumFunction([t \in M \cup {s} |-> streams[t].metrics.loss])
          = SumFunction([t \in M |-> streams[t].metrics.loss]) + m.loss
    <3>1. \A t \in M \cup {s} : los[t] = streams[t].metrics.loss /\ los[t] \in Nat
      BY <1>1, <2>2 DEF Metrics
    <3>2. /\ [t \in M \cup {s} |-> streams[t].metrics.loss] = [t \in M \cup {s} |-> los[t]]
          /\ [t \in M |-> streams[t].metrics.loss] = [t \in M |-> los[t]]
      BY <3>1
    <3>3. m = streams[s].metrics /\ s \in M \cup {s}
      OBVIOUS
    <3> HIDE DEF los, m
    <3>4. SumFunction([t \in M \cup {s} |-> los[t]])
            = SumFunction([t \in M |-> los[t]]) + los[s]
      BY <2>2, <3>1, MeasuredSum
    <3> QED
      BY <3>1, <3>2, <3>3, <3>4
  <2>7. /\ mos \in SUBSET Nat /\ m.mos \in Nat \ {0}
        /\ mos = {} <=> M = {}
        /\ {streams[t].metrics.mos : t \in M \cup {s}} = mos \cup {m.mos}
    BY <1>2, <1>6, <2>2 DEF Metrics
  <2>8. M # {} => old.rtpMOSMin = Min(mos)
    BY <2>2 DEF Matches, WorstMos
  <2> HIDE DEF mos
  <2>9. old.rtpCount = 0 <=> M = {}
    BY <2>2, FS_EmptySet DEF Matches
  <2>10. Min(mos \cup {m.mos}) = IF mos = {} \/ m.mos < Min(mos) THEN m.mos ELSE Min(mos)
    BY <2>7, MinAdd
  <2>11. call'[c0].rtpMOSMin = Min({streams[t].metrics.mos : t \in M \cup {s}})
    BY <2>3, <2>7, <2>8, <2>9, <2>10
  <2>12. call'[c0].rtpMOSMin # 0
    BY <2>2, <2>3, <2>7, <2>9
  <2>13. /\ old.rtpCount = Cardinality(M)
         /\ old.rtpJSum = SumFunction([t \in M |-> streams[t].metrics.jitter])
         /\ old.rtpLSum = SumFunction([t \in M |-> streams[t].metrics.loss])
    BY <2>2 DEF Matches, JitterOf, LossOf, WorstMos
  <2>14. M \cup {s} # {} /\ streams' = streams /\ c0' = c0
    BY <1>1
  <2>15. Matches(call[c0], Measured(c0))'
    BY <2>1, <2>3, <2>4, <2>5, <2>6, <2>11, <2>13, <2>14 DEF Matches, JitterOf, LossOf, WorstMos
  <2> QED
    BY <2>1, <2>4, <2>12, <2>14, <2>15
<1>7. \A c \in CallIds : m = NoMetrics \/ c # c0 =>
        Measured(c)' = Measured(c) /\ call'[c] = call[c]
  BY <1>1, <1>2, MeasuredGrows DEF GatherInv, TypeOK
<1>8. \A c \in CallIds :
        /\ Matches(call[c], Measured(c))'
        /\ IsFiniteSet(Measured(c))'
        /\ (Measured(c) = {} <=> call[c].rtpMOSMin = 0)'
  <2> SUFFICES ASSUME NEW c \in CallIds
               PROVE  /\ Matches(call[c], Measured(c))'
                      /\ IsFiniteSet(Measured(c))'
                      /\ (Measured(c) = {} <=> call[c].rtpMOSMin = 0)'
    OBVIOUS
  <2>1. CASE m = NoMetrics \/ c # c0
    BY <1>5, <1>7, <2>1
  <2>2. CASE m # NoMetrics /\ c = c0
    BY <1>1, <1>6, <2>2
  <2> QED
    BY <2>1, <2>2
<1>9. AggregatesMatchStreams'
  BY <1>8 DEF AggregatesMatchStreams, Matches
<1>10. \A c \in CallIds : /\ call'[c].HadCallerRTP = call[c].HadCallerRTP
                          /\ call'[c].HadCalleeRTP = call[c].HadCalleeRTP
  BY <1>1, <1>2, <1>3 DEF GatherInv, TypeOK, RecordRTPStream, Aggregates
<1>11. Gathered'
  BY <1>1, <1>8, <1>10 DEF GatherInv, Gathered
<1> QED
  BY <1>4, <1>9, <1>11 DEF GatherInv

(* What comes after the analysis leaves the aggregates alone.              *)
LEMMA OthersKeepGathered ==
    ASSUME GatherInv, UNCHANGED <<codeFlag, dialogs, streams, call, open>>, TypeOK', FinishedFirst'
    PROVE  GatherInv'
<1>1. \A c \in CallIds : Measured(c)' = Measured(c)
  BY DEF Measured, Measurable
<1>2. Gathered'
  BY <1>1 DEF GatherInv, Gathered
<1>3. \A c \in CallIds : Matches(call[c], Measured(c))'
  <2> SUFFICES ASSUME NEW c \in CallIds
               PROVE  Matches(call[c], Measured(c))'
    OBVIOUS
  <2>1. PICK agg, M : agg = call[c] /\ M = Measured(c)
    OBVIOUS
  <2>2. Matches(agg, M)
    BY <2>1, AggregatesAreMatches DEF GatherInv
  <2>3. Matches(agg, M)'
    BY <2>2 DEF Matches, JitterOf, LossOf, WorstMos
  <2>4. agg = call'[c] /\ M = Measured(c)'
    BY <1>1, <2>1
  <2> QED
    BY <2>3, <2>4 DEF Matches
<1>4. AggregatesMatchStreams'
  BY <1>3 DEF AggregatesMatchStreams, Matches
<1> QED
  BY <1>2, <1>4 DEF GatherInv, StreamsKnown

-----------------------------------------------------------------------------
(* The lines of index.csv.                                                 *)

Lines == {Header} \cup {Row(c) : c \in CallIds}

(* The selected calls the loop over the table has left behind.             *)
Seen == {c \in CallIds \ todo : Selected(c)}

(* A header and the rows of these calls.                                   *)
HasRows(lines, seen) ==
    /\ Len(lines) = written + 1 /\ lines[1] = Header
    /\ \A i \in 2 .. Len(lines) : \E c \in seen : lines[i] = Row(c)
    /\ \A c \in seen : \E i \in 2 .. Len(lines) : lines[i] = Row(c)

(* Nothing is lost between the buffer and the disk.                        *)
CsvInv ==
    /\ pc \in {"analyze", "mix"} => written = 0 /\ buffer = << >> /\ disk = << >>
    /\ pc \in {"csv", "done"} =>
          buffer \in Seq(Lines) /\ disk \in Seq(Lines) /\ written = Cardinality(Seen)
    /\ pc = "csv" => HasRows(disk \o buffer, Seen)
    /\ pc = "done" =>
          /\ todo = {}
          /\ \E k \in 0 .. Len(buffer) :
                HasRows(disk \o SubSeq(buffer, k + 1, Len(buffer)), Seen)

ResultsInv == GatherInv /\ CsvInv /\ MixesFinishedFiles

(* Lines cut after the first k of them, the first part behind those of d.  *)
Before(d, l, k) == d \o SubSeq(l, 1, k)
After(l, k)     == SubSeq(l, k + 1, Len(l))
IsCut(S, d, l, k) ==
    /\ Before(d, l, k) \in Seq(S) /\ After(l, k) \in Seq(S)
    /\ Before(d, l, k) \o After(l, k) = d \o l

(* Wherever lines are cut, both parts together are the lines.              *)
LEMMA CutLines ==
    ASSUME NEW S, NEW d \in Seq(S), NEW l \in Seq(S), NEW k \in 0 .. Len(l)
    PROVE  IsCut(S, d, l, k)
<1> DEFINE a == SubSeq(l, 1, k)
           b == SubSeq(l, k + 1, Len(l))
<1>1. 1 \in 1 .. Len(l) + 1 /\ k \in 1 - 1 .. Len(l) /\ Len(l) \in k .. Len(l)
  OBVIOUS
<1>2. a \in Seq(S) /\ b \in Seq(S)
  OBVIOUS
<1>3. a \o b = l
  <2>1. SubSeq(l, 1, k) \o SubSeq(l, k + 1, Len(l)) = SubSeq(l, 1, Len(l))
    BY <1>1, ConcatAdjacentSubSeq
  <2> QED
    BY <2>1, SubSeqFull
<1> HIDE DEF a, b
<1>4. d \o a \in Seq(S) /\ (d \o a) \o b = d \o (a \o b)
  BY <1>2, ConcatProperties, ConcatAssociative
<1> QED
  BY <1>2, <1>3, <1>4 DEF a, b, IsCut, Before, After

(* One more row.                                                           *)
LEMMA RowAdded ==
    ASSUME NEW lines \in Seq(Lines), NEW seen, HasRows(lines, seen), NEW c,
           written \in Nat, written' = written + 1, UNCHANGED <<dialogs, call>>
    PROVE  \A l, t : l = Append(lines, Row(c)) /\ t = seen \cup {c} => HasRows(l, t)'
<1> DEFINE more == Append(lines, Row(c))
<1>1. \A d : Row(d)' = Row(d)
  BY DEF Row, callDuration, formatRTPFloat, mediaFlow
<1>2. /\ Len(more) = Len(lines) + 1 /\ Len(lines) \in Nat \ {0}
      /\ more[Len(lines) + 1] = Row(c)
      /\ \A i \in 1 .. Len(lines) : more[i] = lines[i]
  BY DEF HasRows
<1> HIDE DEF more
<1>3. 2 .. Len(more) = (2 .. Len(lines)) \cup {Len(lines) + 1} /\ 1 \in 1 .. Len(lines)
      /\ 2 .. Len(lines) \subseteq 1 .. Len(lines)
  BY <1>2
<1>4. Len(more) = written' + 1 /\ more[1] = Header
  BY <1>2, <1>3 DEF HasRows
<1>5. \A i \in 2 .. Len(more) : \E d \in seen \cup {c} : more[i] = Row(d)
  BY <1>2, <1>3 DEF HasRows
<1>6. \A d \in seen \cup {c} : \E i \in 2 .. Len(more) : more[i] = Row(d)
  BY <1>2, <1>3 DEF HasRows
<1>7. Append(lines, Row(c)) = more
  BY DEF more
<1> SUFFICES ASSUME NEW l, NEW t, l = more, t = seen \cup {c}
             PROVE  HasRows(l, t)'
  BY <1>7
<1> QED
  BY <1>1, <1>4, <1>5, <1>6 DEF HasRows

(* Rows depend on the calls alone.                                         *)
LEMMA RowsStay ==
    ASSUME UNCHANGED <<dialogs, call, written>>, NEW lines, NEW seen, HasRows(lines, seen)
    PROVE  HasRows(lines, seen)'
<1>1. \A d : Row(d)' = Row(d)
  BY DEF Row, callDuration, formatRTPFloat, mediaFlow
<1> QED
  BY <1>1 DEF HasRows

(* What is selected, and the lines there may be, depend on nothing else.   *)
LEMMA LinesStay ==
    ASSUME UNCHANGED <<codeFlag, dialogs, call>>
    PROVE  Lines' = Lines /\ (todo' = todo => Seen' = Seen)
           /\ \A c \in CallIds : Selected(c)' = Selected(c)
BY DEF Lines, Seen, Selected, codeFilter, Row, callDuration, formatRTPFloat, mediaFlow

(* A row written keeps all lines in the buffer or on the disk.             *)
LEMMA WriteRowLines ==
    ASSUME ResultsInv, NEW c \in CallIds, WriteRow(c)
    PROVE  CsvInv' /\ written' \in 0 .. Cardinality(CallIds)
<1> DEFINE more == Append(buffer, Row(c))
<1>1. /\ pc = "csv" /\ pc' = "csv" /\ c \in todo /\ Selected(c)
      /\ todo' = todo \ {c} /\ written' = written + 1
      /\ UNCHANGED <<codeFlag, dialogs, streams, call>>
  BY DEF WriteRow, inputVars, mixVars
<1>2. PICK k \in 0 .. Len(more) :
         disk' = disk \o SubSeq(more, 1, k) /\ buffer' = SubSeq(more, k + 1, Len(more))
  BY DEF WriteRow, Flushed, inputVars, mixVars
<1>3. /\ buffer \in Seq(Lines) /\ disk \in Seq(Lines) /\ written = Cardinality(Seen)
      /\ HasRows(disk \o buffer, Seen)
  BY <1>1 DEF ResultsInv, CsvInv
<1>4. Row(c) \in Lines /\ more \in Seq(Lines)
  <2>1. Row(c) \in Lines
    BY DEF Lines
  <2> QED
    BY <1>3, <2>1
<1>5. Lines' = Lines
  BY <1>1, LinesStay
<1>6. /\ disk' \in Seq(Lines) /\ buffer' \in Seq(Lines)
      /\ disk' \o buffer' = disk \o more
  <2>1. PICK S : S = Lines
    OBVIOUS
  <2>2. disk \in Seq(S) /\ more \in Seq(S)
    BY <1>3, <1>4, <2>1
  <2> HIDE DEF more
  <2>3. IsCut(S, disk, more, k)
    BY <2>2, CutLines
  <2>4. disk' = Before(disk, more, k) /\ buffer' = After(more, k)
    BY <1>2 DEF Before, After
  <2> QED
    BY <2>1, <2>3, <2>4 DEF IsCut
<1>7. disk \o more = Append(disk \o buffer, Row(c)) /\ disk \o buffer \in Seq(Lines)
  BY <1>3, <1>4
<1>8. Seen' = Seen \cup {c} /\ c \notin Seen
  BY <1>1 DEF Seen, Selected, codeFilter
<1>9. /\ IsFiniteSet(Seen) /\ Cardinality(Seen) \in Nat
      /\ Cardinality(Seen') = Cardinality(Seen) + 1
      /\ Cardinality(Seen') <= Cardinality(CallIds) /\ Cardinality(CallIds) \in Nat
  <2>1. Seen \in SUBSET CallIds /\ Seen \cup {c} \in SUBSET CallIds
    BY DEF Seen
  <2>2. IsFiniteSet(Seen)
    BY <2>1, FiniteAssumption, FS_Subset
  <2>3. Cardinality(Seen \cup {c}) <= Cardinality(CallIds)
    BY <2>1, FiniteAssumption, FS_Subset
  <2>4. Cardinality(Seen \cup {c}) = Cardinality(Seen) + 1
    BY <1>8, <2>2, FS_AddElement
  <2> QED
    BY <1>8, <2>2, <2>3, <2>4, FiniteAssumption, FS_CardinalityType
<1>10. HasRows(disk \o buffer, Seen)'
  <2>1. written \in Nat
    BY <1>3, <1>9
  <2>2. PICK lines, seen : lines = disk \o buffer /\ seen = Seen
    OBVIOUS
  <2>3. PICK more2, seen2 : more2 = Append(lines, Row(c)) /\ seen2 = seen \cup {c}
    OBVIOUS
  <2>4. HasRows(more2, seen2)'
    BY <1>1, <1>3, <1>7, <2>1, <2>2, <2>3, RowAdded
  <2>5. (disk \o buffer)' = more2 /\ Seen' = seen2
    BY <1>6, <1>7, <1>8, <2>2, <2>3
  <2> QED
    BY <2>4, <2>5 DEF HasRows
<1> QED
  BY <1>1, <1>3, <1>5, <1>6, <1>8, <1>9, <1>10 DEF CsvInv

(* Returning leaves the rest of the buffer where it can still be read.     *)
LEMMA ReturnCountLines ==
    ASSUME ResultsInv, ReturnCount
    PROVE  CsvInv'
<1>1. /\ pc = "csv" /\ todo = {} /\ pc' = "done"
      /\ UNCHANGED <<codeFlag, dialogs, streams, call, todo, buffer, written>>
  BY DEF ReturnCount, inputVars, mixVars
<1>2. PICK k \in 0 .. Len(buffer) : disk' = disk \o SubSeq(buffer, 1, k)
  BY DEF ReturnCount, Flushed, inputVars, mixVars
<1>3. /\ buffer \in Seq(Lines) /\ disk \in Seq(Lines) /\ written = Cardinality(Seen)
      /\ HasRows(disk \o buffer, Seen)
  BY <1>1 DEF ResultsInv, CsvInv
<1>4. Lines' = Lines /\ Seen' = Seen
  BY <1>1, LinesStay
<1>5. disk' \in Seq(Lines) /\ disk' \o SubSeq(buffer, k + 1, Len(buffer)) = disk \o buffer
  <2>1. PICK S : S = Lines
    OBVIOUS
  <2>2. IsCut(S, disk, buffer, k)
    BY <1>3, <2>1, CutLines
  <2>3. disk' = Before(disk, buffer, k) /\ SubSeq(buffer, k + 1, Len(buffer)) = After(buffer, k)
    BY <1>2 DEF Before, After
  <2> QED
    BY <2>1, <2>2, <2>3 DEF IsCut
<1>6. (disk \o SubSeq(buffer, k + 1, Len(buffer)))' = disk \o buffer
  BY <1>1, <1>5
<1>7. HasRows(disk \o SubSeq(buffer, k + 1, Len(buffer)), Seen)'
  <2>1. PICK lines, seen : lines = disk \o buffer /\ seen = Seen
    OBVIOUS
  <2>2. HasRows(lines, seen)'
    BY <1>1, <1>3, <2>1, RowsStay
  <2>3. (disk \o SubSeq(buffer, k + 1, Len(buffer)))' = lines /\ Seen' = seen
    BY <1>4, <1>6, <2>1
  <2> QED
    BY <2>2, <2>3 DEF HasRows
<1>8. k \in 0 .. Len(buffer')
  BY <1>1
<1>9. (\E j \in 0 .. Len(buffer) :
          HasRows(disk \o SubSeq(buffer, j + 1, Len(buffer)), Seen))'
  BY <1>7, <1>8
<1> QED
  BY <1>1, <1>3, <1>4, <1>5, <1>9 DEF CsvInv

(* A file of its own is made before the first row.                         *)
LEMMA CreateIndexLines ==
    ASSUME ResultsInv, CreateIndex
    PROVE  CsvInv'
<1>1. /\ pc = "mix" /\ pc' = "csv" /\ todo' = CallIds /\ buffer' = <<Header>>
      /\ UNCHANGED <<disk, written>>
  BY DEF CreateIndex, inputVars, mixVars
<1>2. written' = 0 /\ disk' = << >>
  BY <1>1 DEF ResultsInv, CsvInv
<1>3. Seen' = {}
  BY <1>1 DEF Seen
<1>4. <<Header>> \in Seq(Lines') /\ << >> \in Seq(Lines')
  <2>1. Header \in Lines'
    BY DEF Lines
  <2> QED
    BY <2>1
<1>5. << >> \o <<Header>> = <<Header>> /\ Len(<<Header>>) = 1
  OBVIOUS
<1>6. HasRows(disk \o buffer, Seen)'
  BY <1>1, <1>2, <1>3, <1>5 DEF HasRows
<1> QED
  BY <1>1, <1>2, <1>3, <1>4, <1>6, FS_EmptySet DEF CsvInv

(* A call the filter does not select leaves no trace.                      *)
LEMMA SkipRowLines ==
    ASSUME ResultsInv, NEW c \in CallIds, SkipRow(c)
    PROVE  CsvInv'
<1>1. /\ pc = "csv" /\ pc' = "csv" /\ ~Selected(c) /\ todo' = todo \ {c}
      /\ UNCHANGED <<codeFlag, dialogs, streams, call, buffer, disk, written>>
  BY DEF SkipRow, csvVars, inputVars, mixVars
<1>2. Lines' = Lines /\ Seen' = Seen
  BY <1>1, LinesStay DEF Seen
<1>3. HasRows(disk \o buffer, Seen)'
  <2>1. PICK lines, seen : lines = disk \o buffer /\ seen = Seen
    OBVIOUS
  <2>2. HasRows(lines, seen)'
    BY <1>1, <2>1, RowsStay DEF ResultsInv, CsvInv
  <2>3. (disk \o buffer)' = lines /\ Seen' = seen
    BY <1>1, <1>2, <2>1
  <2> QED
    BY <2>2, <2>3 DEF HasRows
<1> QED
  BY <1>1, <1>2, <1>3 DEF ResultsInv, CsvInv

-----------------------------------------------------------------------------
(* ffmpeg reads the files of finished streams, and leaves nothing else.    *)
LEMMA MixCallMixes ==
    ASSUME ResultsInv, NEW c \in CallIds, MixCall(c)
    PROVE  /\ mixes' \in [CallIds -> {NoFile} \cup SUBSET (Streams \cup {Mixed})]
           /\ mixed' \subseteq CallIds
           /\ MixesFinishedFiles'
<1> DEFINE Made(d, m) == WavsOf(d) # {} /\ m \ {Mixed} = WavsOf(d) /\ Cardinality(m) >= 2
<1>1. pc = "mix" /\ UNCHANGED <<codeFlag, dialogs, streams, call, open, pc>> /\ open = {}
  BY DEF MixCall, ResultsInv, GatherInv, FinishedFirst, inputVars
<1>2. \/ mixes' = mixes /\ mixed' \in {mixed, mixed \cup {c}}
      \/ mixes' = [mixes EXCEPT ![c] = {}] /\ mixed' = mixed \cup {c}
      \/ /\ Mixable(c) /\ mixes' = [mixes EXCEPT ![c] = wavFiles(c)]
         /\ mixed' = mixed \cup {c}
  BY DEF MixCall, RunFfmpeg, mixVars
<1>3. /\ mixes \in [CallIds -> {NoFile} \cup SUBSET (Streams \cup {Mixed})]
      /\ mixed \subseteq CallIds
  BY DEF ResultsInv, GatherInv, TypeOK
<1>4. WavsOf(c) \subseteq Streams /\ wavFiles(c) \in SUBSET (Streams \cup {Mixed})
  BY DEF wavFiles, WavsOf, ResultsInv, GatherInv, StreamsKnown
<1>5. \A d \in CallIds : WavsOf(d)' = WavsOf(d)
  BY <1>1 DEF WavsOf
<1>6. wavFiles(c) \in {WavsOf(c), WavsOf(c) \cup {Mixed}}
  BY DEF wavFiles
<1>7. Mixable(c) => Made(c, wavFiles(c))
  <2>1. wavFiles(c) \ {Mixed} = WavsOf(c)
    BY <1>4, <1>6, NamesAssumption
  <2>2. Cardinality({}) = 0 /\ Cardinality({Mixed}) = 1
    BY FS_EmptySet, FS_Singleton
  <2>3. WavsOf(c) = {} => wavFiles(c) \in {{}, {Mixed}}
    BY <1>6
  <2> HIDE DEF wavFiles, WavsOf
  <2>4. Cardinality(wavFiles(c)) >= 2 => WavsOf(c) # {}
    BY <2>2, <2>3
  <2> QED
    BY <2>1, <2>4 DEF Mixable
<1>8. \A d \in CallIds : mixes[d] \notin {NoFile, {}} => d \in mixed /\ Made(d, mixes[d])
  BY DEF ResultsInv, MixesFinishedFiles
<1> HIDE DEF Made
<1>9. \A d \in CallIds : mixes'[d] \notin {NoFile, {}} => d \in mixed' /\ Made(d, mixes'[d])
  BY <1>2, <1>3, <1>7, <1>8
<1>10. MixesFinishedFiles'
  BY <1>1, <1>5, <1>9 DEF MixesFinishedFiles, Made
<1>11. mixes' \in [CallIds -> {NoFile} \cup SUBSET (Streams \cup {Mixed})]
  BY <1>2, <1>3, <1>4
<1>12. mixed' \subseteq CallIds
  BY <1>2, <1>3
<1> QED
  BY <1>10, <1>11, <1>12

-----------------------------------------------------------------------------
(* A capture none of whose streams is finalized has no aggregates.         *)
LEMMA InitResults ==
    Init => ResultsInv
<1> SUFFICES ASSUME Init
             PROVE  ResultsInv
  OBVIOUS
<1>1. PICK cap \in Captures : dialogs = cap.calls /\ streams = cap.streams
  BY DEF Init
<1>2. /\ dialogs \in [CallIds -> Dialog] /\ DOMAIN streams \subseteq Streams
      /\ streams \in [DOMAIN streams -> Stream]
  BY <1>1, CapturesAssumption
<1>3. \A c \in CallIds : Measured(c) = {}
  <2>1. open = DOMAIN streams
    BY Zenon DEF Init
  <2> QED
    BY <2>1 DEF Measured, Measurable
<1>4. /\ call \in [CallIds -> Aggregates]
      /\ \A c \in CallIds :
           /\ call[c].rtpCount = 0 /\ call[c].rtpJSum = 0 /\ call[c].rtpLSum = 0
           /\ call[c].rtpMOSMin = 0
           /\ call[c].HadCallerRTP <=> Sent(c, "caller")
           /\ call[c].HadCalleeRTP <=> Sent(c, "callee")
  <2>1. call = [c \in CallIds |-> [NoAggregates EXCEPT !.HadCallerRTP = Sent(c, "caller"),
                                                      !.HadCalleeRTP = Sent(c, "callee")]]
    BY Zenon DEF Init
  <2>2. \A c, role : Sent(c, role) \in BOOLEAN
    BY DEF Sent
  <2> QED
    BY <2>1, <2>2 DEF NoAggregates, Aggregates
<1>5. Cardinality(CallIds) \in Nat
  BY FiniteAssumption, FS_CardinalityType
<1>6. TypeOK
  <2>1. mixes \in [CallIds -> {NoFile} \cup SUBSET (Streams \cup {Mixed})]
    <3>1. mixes \in [CallIds -> {NoFile, {}}]
      BY DEF Init
    <3>2. \A x \in {NoFile, {}} : x \in {NoFile} \cup SUBSET (Streams \cup {Mixed})
      OBVIOUS
    <3> DEFINE Old == {NoFile, {}}
               Mixes == {NoFile} \cup SUBSET (Streams \cup {Mixed})
    <3>3. mixes \in [CallIds -> Old] /\ \A x \in Old : x \in Mixes
      BY <3>1, <3>2
    <3> HIDE DEF Old, Mixes
    <3>4. mixes \in [CallIds -> Mixes]
      BY <3>3
    <3> QED
      BY <3>4 DEF Mixes
  <2>2. /\ open \subseteq DOMAIN streams /\ todo \subseteq CallIds /\ pc = "analyze"
        /\ written \in 0 .. Cardinality(CallIds) /\ mixed \subseteq CallIds
        /\ codeFlag \in CodeFlags
    <3>1. /\ open = DOMAIN streams /\ todo = {} /\ pc = "analyze" /\ written = 0
          /\ mixed = {} /\ codeFlag \in CodeFlags
      BY Zenon DEF Init
    <3> QED
      BY <1>5, <3>1
  <2> QED
    BY <1>2, <1>4, <2>1, <2>2 DEF TypeOK
<1>7. Gathered
  <2>1. \A c \in CallIds : IsFiniteSet(Measured(c))
    BY <1>3, FS_EmptySet
  <2> QED
    BY <1>3, <1>4, <2>1 DEF Gathered, Sent
<1>8. AggregatesMatchStreams
  <2>1. ASSUME NEW f, DOMAIN f = {}
        PROVE  SumFunction(f) = 0
    BY <2>1, SumEmpty DEF SumFunction
  <2>2. Cardinality({}) = 0
    BY FS_EmptySet
  <2>3. SUFFICES ASSUME NEW c \in CallIds
                 PROVE  Matches(call[c], Measured(c))
    BY AggregatesAreMatches
  <2>4. /\ SumFunction([t \in Measured(c) |-> streams[t].metrics.jitter]) = 0
        /\ SumFunction([t \in Measured(c) |-> streams[t].metrics.loss]) = 0
    BY <1>3, <2>1
  <2> QED
    BY <1>3, <1>4, <2>2, <2>4 DEF Matches, JitterOf, LossOf, WorstMos
<1>9. StreamsKnown /\ FinishedFirst /\ CsvInv /\ MixesFinishedFiles
  BY <1>2 DEF Init, StreamsKnown, FinishedFirst, CsvInv, MixesFinishedFiles
<1> QED
  BY <1>6, <1>7, <1>8, <1>9 DEF ResultsInv, GatherInv

(* Every step keeps it.                                                    *)
LEMMA NextResults ==
    ResultsInv /\ [Next]_vars => ResultsInv'
<1> SUFFICES ASSUME ResultsInv, [Next]_vars
             PROVE  ResultsInv'
  OBVIOUS
<1>1. GatherInv /\ TypeOK /\ FinishedFirst /\ CsvInv /\ MixesFinishedFiles
  BY DEF ResultsInv, GatherInv
<1>2. ASSUME UNCHANGED <<streams, open, mixes, mixed>>
      PROVE  MixesFinishedFiles'
  BY <1>1, <1>2 DEF MixesFinishedFiles, WavsOf
<1>3. ASSUME NEW s \in Streams, FinalizeStream(s)
      PROVE  ResultsInv'
  <2>1. GatherInv'
    BY <1>1, <1>3, FinalizeGathers
  <2>2. CsvInv'
    BY <1>1, <1>3 DEF FinalizeStream, CsvInv, csvVars, inputVars, mixVars
  <2>3. MixesFinishedFiles'
    BY <1>1, <1>3 DEF FinalizeStream, MixesFinishedFiles, WavsOf, inputVars, mixVars
  <2> QED
    BY <2>1, <2>2, <2>3 DEF ResultsInv
<1>4. ASSUME AnalysisFails \/ AnalysisEnds
      PROVE  ResultsInv'
  <2>1. /\ UNCHANGED <<codeFlag, dialogs, streams, call, open, mixes, mixed, csvVars>>
        /\ open = {} /\ todo' \in {todo, CallIds, {}} /\ pc = "analyze"
        /\ pc' \in {"failed", "mix"}
    BY <1>4 DEF AnalysisFails, AnalysisEnds, inputVars, mixVars
  <2>2. TypeOK' /\ FinishedFirst'
    BY <1>1, <2>1 DEF TypeOK, FinishedFirst, csvVars
  <2>3. CsvInv'
    BY <1>1, <2>1 DEF CsvInv, csvVars
  <2> QED
    BY <1>1, <1>2, <2>1, <2>2, <2>3, OthersKeepGathered DEF ResultsInv
<1>5. ASSUME NEW c \in CallIds, MixCall(c)
      PROVE  ResultsInv'
  <2>1. /\ UNCHANGED <<codeFlag, dialogs, streams, call, open, pc, csvVars>>
        /\ pc = "mix" /\ todo' = todo \ {c}
    BY <1>5 DEF MixCall, inputVars, mixVars
  <2>2. /\ mixes' \in [CallIds -> {NoFile} \cup SUBSET (Streams \cup {Mixed})]
        /\ mixed' \subseteq CallIds /\ MixesFinishedFiles'
    BY <1>5, MixCallMixes
  <2>3. TypeOK' /\ FinishedFirst'
    BY <1>1, <2>1, <2>2 DEF TypeOK, FinishedFirst, csvVars
  <2>4. CsvInv'
    BY <1>1, <2>1 DEF CsvInv, csvVars
  <2> QED
    BY <1>1, <2>1, <2>2, <2>3, <2>4, OthersKeepGathered DEF ResultsInv
<1>6. ASSUME CreateIndex
      PROVE  ResultsInv'
  <2>1. /\ UNCHANGED <<codeFlag, dialogs, streams, call, open, mixes, mixed, disk, written>>
        /\ pc = "mix" /\ pc' = "csv" /\ todo' = CallIds
    BY <1>6 DEF CreateIndex, inputVars, mixVars
  <2>2. TypeOK' /\ FinishedFirst'
    BY <1>1, <2>1 DEF TypeOK, FinishedFirst
  <2> QED
    BY <1>1, <1>2, <1>6, <2>1, <2>2, CreateIndexLines, OthersKeepGathered DEF ResultsInv
<1>7. ASSUME CreateFails \/ \E c \in CallIds : RowFails(c)
      PROVE  ResultsInv'
  <2>1. /\ UNCHANGED <<codeFlag, dialogs, streams, call, open, mixes, mixed, todo, written>>
        /\ pc \in {"mix", "csv"} /\ pc' = "failed"
    BY <1>7 DEF CreateFails, RowFails, csvVars, inputVars, mixVars
  <2>2. TypeOK' /\ FinishedFirst'
    BY <1>1, <2>1 DEF TypeOK, FinishedFirst
  <2>3. CsvInv'
    BY <2>1 DEF CsvInv
  <2> QED
    BY <1>1, <1>2, <2>1, <2>2, <2>3, OthersKeepGathered DEF ResultsInv
<1>8. ASSUME NEW c \in CallIds, WriteRow(c)
      PROVE  ResultsInv'
  <2>1. /\ UNCHANGED <<codeFlag, dialogs, streams, call, open, pc, mixes, mixed>>
        /\ todo' = todo \ {c}
    BY <1>8 DEF WriteRow, inputVars, mixVars
  <2>2. CsvInv' /\ written' \in 0 .. Cardinality(CallIds)
    BY <1>8, WriteRowLines
  <2>3. TypeOK' /\ FinishedFirst'
    BY <1>1, <2>1, <2>2 DEF TypeOK, FinishedFirst
  <2> QED
    BY <1>1, <1>2, <2>1, <2>2, <2>3, OthersKeepGathered DEF ResultsInv
<1>9. ASSUME NEW c \in CallIds, SkipRow(c)
      PROVE  ResultsInv'
  <2>1. /\ UNCHANGED <<codeFlag, dialogs, streams, call, open, pc, mixes, mixed, written>>
        /\ todo' = todo \ {c}
    BY <1>9 DEF SkipRow, csvVars, inputVars, mixVars
  <2>2. TypeOK' /\ FinishedFirst'
    BY <1>1, <2>1 DEF TypeOK, FinishedFirst
  <2> QED
    BY <1>1, <1>2, <1>9, <2>1, <2>2, SkipRowLines, OthersKeepGathered DEF ResultsInv
<1>10. ASSUME ReturnCount
       PROVE  ResultsInv'
  <2>1. /\ UNCHANGED <<codeFlag, dialogs, streams, call, open, mixes, mixed, todo, written>>
        /\ pc = "csv" /\ pc' = "done"
    BY <1>10 DEF ReturnCount, inputVars, mixVars
  <2>2. TypeOK' /\ FinishedFirst'
    BY <1>1, <2>1 DEF TypeOK, FinishedFirst
  <2> QED
    BY <1>1, <1>2, <1>10, <2>1, <2>2, ReturnCountLines, OthersKeepGathered DEF ResultsInv
<1>11. ASSUME UNCHANGED vars
       PROVE  ResultsInv'
  <2>1. /\ UNCHANGED <<codeFlag, dialogs, streams, call, open, pc, mixes, mixed, todo>>
        /\ UNCHANGED <<buffer, disk, written>>
    BY <1>11 DEF vars, csvVars, inputVars, mixVars
  <2>2. TypeOK' /\ FinishedFirst'
    BY <1>1, <2>1 DEF TypeOK, FinishedFirst
  <2>3. Lines' = Lines /\ Seen' = Seen
    BY <2>1, LinesStay
  <2>4. \A d : Row(d)' = Row(d)
    BY <2>1 DEF Row, callDuration, formatRTPFloat, mediaFlow
  <2>5. CsvInv'
    <3>1. (pc = "csv" => HasRows(disk \o buffer, Seen))'
      <4>1. PICK lines : lines = disk \o buffer
        OBVIOUS
      <4>2. (disk \o buffer)' = lines
        BY <2>1, <4>1
      <4>3. pc = "csv" => HasRows(lines, Seen)
        BY <1>1, <4>1 DEF CsvInv
      <4> QED
        BY <2>1, <2>3, <2>4, <4>2, <4>3 DEF HasRows
    <3>2. ASSUME pc = "done"
          PROVE  (\E k \in 0 .. Len(buffer) :
                     HasRows(disk \o SubSeq(buffer, k + 1, Len(buffer)), Seen))'
      <4>1. PICK k \in 0 .. Len(buffer) :
                HasRows(disk \o SubSeq(buffer, k + 1, Len(buffer)), Seen)
        BY <1>1, <3>2 DEF CsvInv
      <4>2. PICK lines : lines = disk \o SubSeq(buffer, k + 1, Len(buffer))
        OBVIOUS
      <4>3. HasRows(lines, Seen)'
        BY <2>1, <2>3, <2>4, <4>1, <4>2 DEF HasRows
      <4>4. (disk \o SubSeq(buffer, k + 1, Len(buffer)))' = lines /\ k \in 0 .. Len(buffer')
        BY <2>1, <4>2
      <4> QED
        BY <4>3, <4>4 DEF HasRows
    <3> QED
      BY <1>1, <2>1, <2>3, <3>1, <3>2 DEF CsvInv
  <2> QED
    BY <1>1, <1>2, <2>1, <2>2, <2>5, OthersKeepGathered DEF ResultsInv
<1> QED
  BY <1>3, <1>4, <1>5, <1>6, <1>7, <1>8, <1>9, <1>10, <1>11 DEF Next

(* The inductive invariant of the results.                                 *)
THEOREM ResultsInvariant ==
    Spec => []ResultsInv
<1> QED
  BY InitResults, NextResults, PTL DEF Spec

(* Types.                                                                  *)
THEOREM ResultsTypes ==
    Spec => []TypeOK
<1>1. ResultsInv => TypeOK
  BY DEF ResultsInv, GatherInv
<1> QED
  BY <1>1, ResultsInvariant, PTL

(* However sweeps and the clean-up order the streams, RecordRTPStream      *)
(* leaves the sums and the worst MOS of those finalized.                   *)
THEOREM AggregatesAlwaysMatch ==
    Spec => []AggregatesMatchStreams
<1>1. ResultsInv => AggregatesMatchStreams
  BY DEF ResultsInv, GatherInv
<1> QED
  BY <1>1, ResultsInvariant, PTL

(* mixCallsAudio never mixes the file of an open stream or of another      *)
(* call, and leaves none of the call out.                                  *)
THEOREM MixesAreOfFinishedFiles ==
    Spec => []MixesFinishedFiles
<1>1. ResultsInv => MixesFinishedFiles
  BY DEF ResultsInv
<1> QED
  BY <1>1, ResultsInvariant, PTL

-----------------------------------------------------------------------------
(* What the columns of a row say of the streams of its call.               *)
LEMMA RowTellsStreams ==
    ASSUME GatherInv, pc = "done", NEW c \in CallIds
    PROVE  /\ Row(c).call = c
           /\ Row(c).mos = IF Measurable(c) = {} THEN {} ELSE {<<WorstMos(Measurable(c)), 1>>}
           /\ Row(c).jitter = formatRTPFloat(JitterOf(Measurable(c)), Cardinality(Measurable(c)))
           /\ Row(c).loss = formatRTPFloat(LossOf(Measurable(c)), Cardinality(Measurable(c)))
           /\ Row(c).flow = FlowOf({streams[s].role : s \in
                                {t \in DOMAIN streams : streams[t].call = c}})
<1> DEFINE roles == {streams[s].role : s \in {t \in DOMAIN streams : streams[t].call = c}}
           M == Measurable(c)
<1>1. /\ Row(c).call = c /\ Row(c).flow = mediaFlow(c)
      /\ Row(c).mos = formatRTPFloat(call[c].rtpMOSMin, 1)
      /\ Row(c).jitter = formatRTPFloat(call[c].rtpJSum, call[c].rtpCount)
      /\ Row(c).loss = formatRTPFloat(call[c].rtpLSum, call[c].rtpCount)
  BY DEF Row
<1>2. /\ Row(c).mos = IF M = {} THEN {} ELSE {<<WorstMos(M), 1>>}
      /\ Row(c).jitter = formatRTPFloat(JitterOf(M), Cardinality(M))
      /\ Row(c).loss = formatRTPFloat(LossOf(M), Cardinality(M))
  <2>1. Measured(c) = M
    BY DEF Measured, GatherInv, FinishedFirst
  <2>2. Matches(call[c], M) /\ (M = {} <=> call[c].rtpMOSMin = 0)
    BY <2>1, AggregatesAreMatches DEF GatherInv, Gathered
  <2> HIDE DEF M
  <2> QED
    BY <1>1, <2>2 DEF Matches, formatRTPFloat
<1>3. roles \subseteq {"caller", "callee"}
  BY DEF GatherInv, StreamsKnown, Stream
<1>4. /\ call[c].HadCallerRTP <=> "caller" \in roles
      /\ call[c].HadCalleeRTP <=> "callee" \in roles
  BY DEF GatherInv, Gathered
<1> HIDE DEF roles
<1>5. \/ roles = {} \/ roles = {"caller"} \/ roles = {"callee"}
      \/ roles = {"caller", "callee"}
  BY <1>3
<1>6. mediaFlow(c) = FlowOf(roles)
  <2>1. CASE roles = {}
    BY <1>4, <2>1 DEF mediaFlow, FlowOf
  <2>2. CASE roles = {"caller"}
    BY <1>4, <2>2 DEF mediaFlow, FlowOf
  <2>3. CASE roles = {"callee"}
    BY <1>4, <2>3 DEF mediaFlow, FlowOf
  <2>4. CASE roles = {"caller", "callee"}
    <3>1. "caller" \in roles /\ "callee" \in roles
      BY <2>4
    <3>2. roles # {} /\ roles # {"caller"} /\ roles # {"callee"}
      BY <3>1
    <3> QED
      BY <1>4, <3>1, <3>2 DEF mediaFlow, FlowOf
  <2> QED
    BY <1>5, <2>1, <2>2, <2>3, <2>4
<1> QED
  BY <1>1, <1>2, <1>6 DEF roles

(* The filter selects the calls --sip-code asks for.                       *)
LEMMA SelectedIsWanted ==
    ASSUME GatherInv, NEW c \in CallIds
    PROVE  Selected(c) <=> Wanted(c)
<1>1. dialogs[c].FinalCode \in Nat /\ codeFlag \subseteq Int
  BY CodeFlagsAssumption DEF GatherInv, TypeOK, Dialog
<1>2. codeFilter = {} <=> ~ \E e \in codeFlag : e > 0
  BY DEF codeFilter
<1>3. dialogs[c].FinalCode \in codeFilter <=>
         dialogs[c].FinalCode > 0 /\ dialogs[c].FinalCode \in codeFlag
  BY DEF codeFilter
<1> QED
  BY <1>2, <1>3 DEF Selected, Wanted

(* At the end the lines on the disk and the rest of the buffer are the     *)
(* header and one row for each call the filter selects.                    *)
LEMMA AllLines ==
    ASSUME ResultsInv, pc = "done"
    PROVE  /\ written = Cardinality({c \in CallIds : Wanted(c)})
           /\ disk \in Seq(Lines)
           /\ \E k \in 0 .. Len(buffer) :
                 /\ SubSeq(buffer, k + 1, Len(buffer)) \in Seq(Lines)
                 /\ HasRows(disk \o SubSeq(buffer, k + 1, Len(buffer)),
                            {c \in CallIds : Wanted(c)})
<1>1. Seen = {c \in CallIds : Wanted(c)}
  BY SelectedIsWanted DEF ResultsInv, CsvInv, Seen
<1>2. /\ written = Cardinality(Seen) /\ disk \in Seq(Lines) /\ buffer \in Seq(Lines)
      /\ \E k \in 0 .. Len(buffer) :
             HasRows(disk \o SubSeq(buffer, k + 1, Len(buffer)), Seen)
  BY DEF ResultsInv, CsvInv
<1>3. \A k \in 0 .. Len(buffer) : SubSeq(buffer, k + 1, Len(buffer)) \in Seq(Lines)
  BY <1>2, CutLines DEF IsCut, After
<1> QED
  BY <1>1, <1>2, <1>3

(* writeCSV: whatever the buffer still held, a run that reports success    *)
(* has no hole in index.csv and no row twice.                              *)
THEOREM TailAlone ==
    Spec => []OnlyTheTailIsLost
<1>1. ResultsInv => OnlyTheTailIsLost
  <2> SUFFICES ASSUME ResultsInv, pc = "done"
               PROVE  \E k \in 0 .. Len(buffer) :
                        LET all == disk \o SubSeq(buffer, k + 1, Len(buffer))
                        IN  /\ Len(all) = written + 1
                            /\ all[1] = Header
                            /\ Rows(all) = {c \in CallIds : Wanted(c)}
    BY DEF OnlyTheTailIsLost
  <2> DEFINE sel == {c \in CallIds : Wanted(c)}
  <2>1. PICK k \in 0 .. Len(buffer) :
          HasRows(disk \o SubSeq(buffer, k + 1, Len(buffer)), sel)
    BY AllLines
  <2>2. PICK all : all = disk \o SubSeq(buffer, k + 1, Len(buffer))
    OBVIOUS
  <2>3. HasRows(all, sel)
    BY <2>1, <2>2
  <2>4. \A c \in sel : Row(c).call = c
    BY DEF Row
  <2>5. Rows(all) = sel
    <3> HIDE DEF sel
    <3> QED
      BY <2>3, <2>4 DEF HasRows, Rows
  <2>6. Len(all) = written + 1 /\ all[1] = Header
    BY <2>3 DEF HasRows
  <2> QED
    BY <2>2, <2>5, <2>6
<1> QED
  BY <1>1, ResultsInvariant, PTL

(* The count main prints is that of the calls --sip-code asks for, a row   *)
(* that reached the disk is of one of them and tells what all the streams  *)
(* of its call were, with every order in which they were finalized.        *)
THEOREM RowsAreOfSelectedCalls ==
    Spec => []RowsOfSelectedCalls
<1>1. ASSUME ResultsInv, pc = "done"
      PROVE  \A i \in DOMAIN disk : disk[i] # Header =>
               \E c \in CallIds : Wanted(c) /\ disk[i] = Row(c)
  <2>1. PICK k \in 0 .. Len(buffer) :
          /\ SubSeq(buffer, k + 1, Len(buffer)) \in Seq(Lines)
          /\ HasRows(disk \o SubSeq(buffer, k + 1, Len(buffer)),
                     {c \in CallIds : Wanted(c)})
    BY <1>1, AllLines
  <2>2. PICK rest \in Seq(Lines) : rest = SubSeq(buffer, k + 1, Len(buffer))
    BY <2>1
  <2>3. disk \in Seq(Lines)
    BY <1>1, AllLines
  <2>4. /\ \A i \in DOMAIN disk : (disk \o rest)[i] = disk[i]
        /\ \A i \in DOMAIN disk : i \in 1 .. Len(disk \o rest)
    BY <2>3
  <2>5. /\ (disk \o rest)[1] = Header
        /\ \A i \in 2 .. Len(disk \o rest) :
              \E c \in CallIds : Wanted(c) /\ (disk \o rest)[i] = Row(c)
    BY <2>1, <2>2 DEF HasRows
  <2>6. Len(disk \o rest) \in Nat
    BY <2>3
  <2> QED
    BY <2>4, <2>5, <2>6
<1>2. ResultsInv => RowsOfSelectedCalls
  <2> SUFFICES ASSUME ResultsInv, pc = "done"
               PROVE  RowsOfSelectedCalls
    BY DEF RowsOfSelectedCalls
  <2>1. written = Cardinality({c \in CallIds : Wanted(c)})
    BY AllLines
  <2>2. ASSUME NEW i \in DOMAIN disk, disk[i] # Header
        PROVE  LET row == disk[i]
                   M   == Measurable(row.call)
               IN  /\ Wanted(row.call)
                   /\ row.mos = IF M = {} THEN {} ELSE {<<WorstMos(M), 1>>}
                   /\ row.jitter = formatRTPFloat(JitterOf(M), Cardinality(M))
                   /\ row.loss = formatRTPFloat(LossOf(M), Cardinality(M))
                   /\ row.flow = FlowOf({streams[s].role : s \in
                          {t \in DOMAIN streams : streams[t].call = row.call}})
    <3>1. PICK c \in CallIds : Wanted(c) /\ disk[i] = Row(c)
      BY <1>1, <2>2
    <3> DEFINE row == disk[i]
               M   == Measurable(c)
    <3>2. /\ row.call = c /\ Wanted(row.call)
          /\ row.mos = IF M = {} THEN {} ELSE {<<WorstMos(M), 1>>}
          /\ row.jitter = formatRTPFloat(JitterOf(M), Cardinality(M))
          /\ row.loss = formatRTPFloat(LossOf(M), Cardinality(M))
          /\ row.flow = FlowOf({streams[s].role : s \in
                     {t \in DOMAIN streams : streams[t].call = c}})
      <4> HIDE DEF M
      <4>1. Row(c).call = c
        BY DEF Row
      <4> QED
        BY <3>1, <4>1, RowTellsStreams DEF ResultsInv, M
    <3> QED
      BY <3>2
  <2> QED
    BY <2>1, <2>2 DEF RowsOfSelectedCalls
<1> QED
  BY <1>2, ResultsInvariant, PTL

-----------------------------------------------------------------------------
(* RtpStats.                                                               *)

(* How the fields of the code follow the history.                          *)
Followed ==
    /\ IsFiniteSet(got) /\ Cardinality(got) <= received
    /\ \A n \in got : hasFirst /\ n <= newest
    /\ hasFirst => /\ first <= newest
                   /\ firstSeq = (start + first) % Mod

CountersInv == StatsTypeOK /\ NewestTracked /\ Followed

(* Sequence numbers are numbers modulo Mod.                                *)
LEMMA SeqIsSeq ==
  ASSUME NEW a \in Int
  PROVE  a % Mod \in Seqs
<1>1. Mod \in Nat \ {0}
  BY StatsAssumption
<1> HIDE DEF Mod
<1>2. QED
  BY <1>1, DivMod DEF Seqs

(* The half-range comparison of two sequence numbers is that of the        *)
(* packets, if they are less than half a turn apart.                       *)
LEMMA AheadIsTrue ==
  ASSUME NEW a \in Int, NEW b \in Int, a - b \in -MaxLate .. MaxJump
  PROVE  Ahead(a % Mod, b % Mod) <=> a > b
<1>1. /\ Mod \in Nat \ {0} /\ Half \in Nat /\ Mod = 2 * Half
      /\ MaxJump \in 1 .. Half - 1 /\ MaxLate \in 0 .. Half - 1
  BY StatsAssumption
<1> HIDE DEF Mod, Half
<1>2. ((a % Mod) - (b % Mod)) % Mod = (a - b) % Mod
  BY <1>1, ModDifference
<1>3. a - b \in Int /\ a - b < Mod /\ a - b >= -Mod
  BY <1>1
<1>4. (a - b) % Mod = IF a - b >= 0 THEN a - b ELSE (a - b) + Mod
  BY <1>1, <1>3, ModOneTurn
<1>5. QED
  BY <1>1, <1>2, <1>4 DEF Ahead

(* Nothing is captured in the beginning.                                   *)
LEMMA CountersStart == StatsInit => CountersInv
<1> SUFFICES ASSUME StatsInit PROVE CountersInv
  OBVIOUS
<1>1. Mod \in Nat \ {0} /\ MaxReceived \in Nat /\ MaxIndex \in Nat
  BY StatsAssumption
<1>2. 0 \in Seqs
  <2> HIDE DEF Mod
  <2>1. QED
    BY <1>1 DEF Seqs
<1>3. StatsTypeOK
  <2>1. hasFirst \in BOOLEAN /\ start \in Starts
    BY DEF StatsInit
  <2>2. QED
    BY <1>1, <1>2, <2>1 DEF StatsInit, StatsTypeOK
<1>4. NewestTracked
  BY DEF StatsInit, NewestTracked
<1>5. Followed
  <2>1. IsFiniteSet({}) /\ Cardinality({}) = 0
    BY FS_EmptySet
  <2>2. QED
    BY <2>1 DEF StatsInit, Followed
<1>6. QED
  BY <1>3, <1>4, <1>5 DEF CountersInv

(* Capturing a packet that is within reach.                                *)
LEMMA CaptureStep ==
  ASSUME CountersInv, NEW n \in 0 .. MaxIndex, Reachable(n), Capture(n)
  PROVE  CountersInv'
<1> DEFINE seq == (start + n) % Mod
<1>1. StatsTypeOK /\ NewestTracked /\ Followed
  BY DEF CountersInv
<1>2. /\ received' = received + 1 /\ received < MaxReceived /\ hasFirst' = TRUE
      /\ firstSeq' = IF hasFirst THEN firstSeq ELSE seq
      /\ lastSeq' = IF ~hasFirst \/ Ahead(seq, lastSeq) THEN seq ELSE lastSeq
      /\ got' = got \cup {n}
      /\ first' = IF hasFirst THEN first ELSE n
      /\ newest' = IF hasFirst /\ n < newest THEN newest ELSE n
      /\ start' = start
  BY DEF Capture, update
<1>3. /\ start \in Int /\ newest \in Int /\ first \in Int /\ received \in Nat
      /\ n \in Int /\ seq \in Seqs /\ MaxReceived \in Nat
  <2>1. start \in Int /\ MaxReceived \in Nat
    <3>1. Mod \in Nat
      BY StatsAssumption
    <3> HIDE DEF Mod
    <3>2. QED
      BY <1>1, <3>1, StatsAssumption DEF StatsTypeOK, Seqs
  <2>2. start + n \in Int
    BY <2>1
  <2>3. seq \in Seqs
    BY <2>2, SeqIsSeq
  <2>4. QED
    BY <1>1, <2>1, <2>3 DEF StatsTypeOK
<1>4. hasFirst => (Ahead(seq, lastSeq) <=> n > newest)
  <2> SUFFICES ASSUME hasFirst PROVE Ahead(seq, lastSeq) <=> n > newest
    OBVIOUS
  <2>1. lastSeq = (start + newest) % Mod
    BY <1>1 DEF NewestTracked
  <2>2. (start + n) - (start + newest) \in -MaxLate .. MaxJump
    <3>1. n \in newest - MaxLate .. newest + MaxJump
      BY DEF Reachable
    <3>2. MaxLate \in Int /\ MaxJump \in Int
      <4>1. Half \in Nat
        BY StatsAssumption
      <4> HIDE DEF Half
      <4>2. QED
        BY <4>1, StatsAssumption
    <3>3. QED
      BY <1>3, <3>1, <3>2
  <2>3. Ahead(seq, lastSeq) <=> start + n > start + newest
    <3>1. start + n \in Int /\ start + newest \in Int
      BY <1>3
    <3>2. QED
      BY <2>1, <2>2, <3>1, AheadIsTrue
  <2>4. QED
    BY <1>3, <2>3
<1> HIDE DEF seq
<1>5. StatsTypeOK'
  <2>1. firstSeq' \in Seqs /\ lastSeq' \in Seqs
    BY <1>1, <1>2, <1>3 DEF StatsTypeOK
  <2>2. received' \in 0 .. MaxReceived
    BY <1>2, <1>3
  <2>3. hasFirst' \in BOOLEAN
    BY <1>2
  <2>4. got' \subseteq 0 .. MaxIndex /\ first' \in 0 .. MaxIndex /\ newest' \in 0 .. MaxIndex
    BY <1>1, <1>2 DEF StatsTypeOK
  <2>5. start' \in Starts
    BY <1>1, <1>2 DEF StatsTypeOK
  <2>6. QED
    BY <2>1, <2>2, <2>3, <2>4, <2>5 DEF StatsTypeOK
<1>6. NewestTracked'
  <2>1. lastSeq' = (start + newest') % Mod
    <3>1. CASE ~hasFirst
      BY <1>2, <3>1 DEF seq
    <3>2. CASE hasFirst /\ n > newest
      <4>1. lastSeq' = seq /\ newest' = n
        BY <1>2, <1>3, <1>4, <3>2
      <4>2. QED
        BY <4>1 DEF seq
    <3>3. CASE hasFirst /\ ~(n > newest)
      <4>1. lastSeq' = lastSeq /\ newest' = newest
        BY <1>2, <1>3, <1>4, <3>3
      <4>2. QED
        BY <1>1, <3>3, <4>1 DEF NewestTracked
    <3>4. QED
      BY <3>1, <3>2, <3>3
  <2>2. QED
    BY <1>2, <2>1 DEF NewestTracked
<1>7. Followed'
  <2>1. IsFiniteSet(got') /\ Cardinality(got') <= received'
    <3>1. IsFiniteSet(got) /\ Cardinality(got) <= received
      BY <1>1 DEF Followed
    <3>2. /\ IsFiniteSet(got \cup {n})
          /\ Cardinality(got \cup {n}) = IF n \in got THEN Cardinality(got)
                                         ELSE Cardinality(got) + 1
      BY <3>1, FS_AddElement
    <3>3. Cardinality(got) \in Nat
      BY <3>1, FS_CardinalityType
    <3>4. QED
      BY <1>2, <1>3, <3>1, <3>2, <3>3
  <2>2. \A m \in got' : hasFirst' /\ m <= newest'
    <3> SUFFICES ASSUME NEW m \in got' PROVE m <= newest'
      BY <1>2
    <3>1. CASE m = n
      BY <1>2, <1>3, <3>1
    <3>2. CASE m \in got
      <4>1. hasFirst /\ m <= newest
        BY <1>1, <3>2 DEF Followed
      <4>2. m \in Int
        BY <1>1, <3>2 DEF StatsTypeOK
      <4>3. QED
        BY <1>2, <1>3, <4>1, <4>2
    <3>3. QED
      BY <1>2, <3>1, <3>2
  <2>3. first' <= newest' /\ firstSeq' = (start' + first') % Mod
    <3>1. CASE ~hasFirst
      BY <1>2, <1>3, <3>1 DEF seq
    <3>2. CASE hasFirst
      <4>1. first <= newest /\ firstSeq = (start + first) % Mod
        BY <1>1, <3>2 DEF Followed
      <4>2. first' = first /\ firstSeq' = firstSeq /\ start' = start
        BY <1>2, <3>2
      <4>3. first <= newest'
        BY <1>2, <1>3, <3>2, <4>1
      <4>4. QED
        BY <4>1, <4>2, <4>3
    <3>3. QED
      BY <3>1, <3>2
  <2>4. QED
    BY <2>1, <2>2, <2>3 DEF Followed
<1>8. QED
  BY <1>5, <1>6, <1>7 DEF CountersInv

(* Every step.                                                             *)
LEMMA CountersStep == CountersInv /\ [StatsNext]_statsVars => CountersInv'
<1> SUFFICES ASSUME CountersInv, [StatsNext]_statsVars PROVE CountersInv'
  OBVIOUS
<1>1. CASE StatsNext
  BY <1>1, CaptureStep DEF StatsNext
<1>2. CASE UNCHANGED statsVars
  BY <1>2 DEF CountersInv, StatsTypeOK, NewestTracked, Followed, statsVars, fieldVars
<1>3. QED
  BY <1>1, <1>2

(* The invariant holds throughout.                                         *)
THEOREM CountersInvariant == StatsSpec => []CountersInv
<1>1. QED
  BY CountersStart, CountersStep, PTL DEF StatsSpec

(* The fields stay sequence numbers and counters.                          *)
THEOREM StatsTypeCorrect == StatsSpec => []StatsTypeOK
<1>1. CountersInv => StatsTypeOK
  BY DEF CountersInv
<1>2. QED
  BY <1>1, CountersInvariant, PTL

(* lastSeq is the number of the newest packet, for every width, over any   *)
(* number of wraps, with any loss, duplication and reordering within half  *)
(* a turn.                                                                 *)
THEOREM NewestIsTracked == StatsSpec => []NewestTracked
<1>1. CountersInv => NewestTracked
  BY DEF CountersInv
<1>2. QED
  BY <1>1, CountersInvariant, PTL

(* The span of the sequence numbers and the packets that were really lost. *)
LEMMA SpanAndLoss ==
  ASSUME CountersInv, hasFirst
  PROVE  LET d == newest - first IN
           /\ d \in Nat /\ received \in Nat
           /\ SpanSeen = (d % Mod) + 1
           /\ SpanSeen \in Nat /\ SpanSeen <= d + 1
           /\ d < Mod => SpanSeen = d + 1
           /\ ReallyLost = (d + 1) - Cardinality((first .. newest) \cap got)
           /\ Cardinality((first .. newest) \cap got) \in Nat
           /\ Cardinality((first .. newest) \cap got) <= received
<1> DEFINE d == newest - first
           seen == (first .. newest) \cap got
<1>1. /\ StatsTypeOK /\ first <= newest /\ firstSeq = (start + first) % Mod
      /\ lastSeq = (start + newest) % Mod
      /\ IsFiniteSet(got) /\ Cardinality(got) <= received
  BY DEF CountersInv, NewestTracked, Followed
<1>2. Mod \in Nat \ {0} /\ MaxReceived \in Nat
  BY StatsAssumption
<1>3. /\ first \in Int /\ newest \in Int /\ received \in Nat /\ d \in Nat
      /\ start \in Int
  <2>1. start \in Int
    <3> HIDE DEF Mod
    <3>1. QED
      BY <1>1, <1>2, StatsAssumption DEF StatsTypeOK, Seqs
  <2>2. QED
    BY <1>1, <1>2, <2>1 DEF StatsTypeOK
<1>4. SpanSeen = (d % Mod) + 1
  <2> DEFINE a == start + newest
             b == start + first
  <2>1. a \in Int /\ b \in Int /\ a - b = d
    BY <1>3
  <2>2. lastSeq = a % Mod /\ firstSeq = b % Mod
    BY <1>1
  <2> HIDE DEF a, b, d, Mod
  <2>3. ((a % Mod) - (b % Mod)) % Mod = (a - b) % Mod
    BY <1>2, <2>1, ModDifference
  <2>4. QED
    BY <2>1, <2>2, <2>3 DEF SpanSeen
<1>5. /\ SpanSeen \in Nat /\ SpanSeen <= d + 1
      /\ d < Mod => SpanSeen = d + 1
  <2> HIDE DEF d, Mod
  <2>1. d % Mod \in 0 .. Mod - 1 /\ d \div Mod \in Int /\ d = Mod * (d \div Mod) + (d % Mod)
    BY <1>2, <1>3, DivMod
  <2>2. d % Mod <= d
    <3>1. d \div Mod >= 0
      <4> SUFFICES ASSUME d \div Mod <= -1 PROVE FALSE
        BY <2>1
      <4>1. Mod * (d \div Mod) <= Mod * (-1)
        <5> DEFINE q == d \div Mod
        <5>1. q \in Int /\ q <= -1
          BY <2>1
        <5> HIDE DEF q
        <5>2. Mod * q <= Mod * (-1)
          BY <1>2, <5>1
        <5>3. QED
          BY <5>2 DEF q
      <4>2. Mod * (-1) = -Mod
        BY <1>2
      <4>3. QED
        BY <1>2, <1>3, <2>1, <4>1, <4>2
    <3>2. Mod * (d \div Mod) >= 0
      <4> DEFINE q == d \div Mod
      <4>1. q \in Nat
        BY <2>1, <3>1
      <4> HIDE DEF q
      <4>2. Mod * q >= 0
        BY <1>2, <4>1
      <4>3. QED
        BY <4>2 DEF q
    <3>3. Mod * (d \div Mod) \in Int
      BY <1>2, <2>1
    <3>4. QED
      BY <1>3, <2>1, <3>2, <3>3
  <2>3. d < Mod => d % Mod = d
    BY <1>2, <1>3, ModOneTurn
  <2>4. QED
    BY <1>2, <1>3, <1>4, <2>1, <2>2, <2>3
<1>6. /\ IsFiniteSet(first .. newest)
      /\ Cardinality(first .. newest) = d + 1
  <2>1. /\ IsFiniteSet(first .. newest)
        /\ Cardinality(first .. newest) = IF first > newest THEN 0 ELSE newest - first + 1
    BY <1>3, FS_Interval
  <2>2. QED
    BY <1>1, <1>3, <2>1
<1>7. ReallyLost = (d + 1) - Cardinality(seen)
  <2>1. Cardinality((first .. newest) \ got)
          = Cardinality(first .. newest) - Cardinality((first .. newest) \cap got)
    BY <1>6, FS_Difference
  <2>2. QED
    BY <1>6, <2>1 DEF ReallyLost
<1>8. Cardinality(seen) \in Nat /\ Cardinality(seen) <= received
  <2>1. IsFiniteSet(seen) /\ Cardinality(seen) <= Cardinality(got)
    <3>1. seen \subseteq got
      OBVIOUS
    <3>2. QED
      BY <1>1, <3>1, FS_Subset
  <2>2. Cardinality(seen) \in Nat /\ Cardinality(got) \in Nat
    BY <1>1, <2>1, FS_CardinalityType
  <2>3. QED
    BY <1>1, <1>3, <2>1, <2>2
<1>9. QED
  BY <1>3, <1>4, <1>5, <1>7, <1>8

(* The reported loss never exceeds what the network lost, whatever was     *)
(* duplicated, reordered or late, and over any number of wraps.            *)
THEOREM LossIsNotOverstated == StatsSpec => []LossNotOverstated
<1>1. ASSUME CountersInv PROVE LossNotOverstated
  <2> SUFFICES ASSUME hasFirst PROVE Lost <= ReallyLost
    BY DEF LossNotOverstated
  <2> DEFINE d == newest - first
             seen == Cardinality((first .. newest) \cap got)
  <2>1. /\ d \in Nat /\ received \in Nat /\ SpanSeen \in Nat /\ SpanSeen <= d + 1
        /\ ReallyLost = (d + 1) - seen /\ seen \in Nat /\ seen <= received
    BY <1>1, SpanAndLoss
  <2>2. seen <= d + 1
    <3>1. first \in Int /\ newest \in Int
      BY <1>1 DEF CountersInv, StatsTypeOK
    <3>2. /\ IsFiniteSet(first .. newest)
          /\ Cardinality(first .. newest) = IF first > newest THEN 0 ELSE newest - first + 1
      BY <3>1, FS_Interval
    <3>3. Cardinality((first .. newest) \cap got) <= Cardinality(first .. newest)
      <4>1. (first .. newest) \cap got \subseteq first .. newest
        OBVIOUS
      <4>2. QED
        BY <3>2, <4>1, FS_Subset
    <3>4. QED
      BY <2>1, <3>1, <3>2, <3>3
  <2> HIDE DEF d, seen
  <2>3. QED
    BY <2>1, <2>2 DEF Lost, Expected
<1>2. QED
  BY <1>1, CountersInvariant, PTL

(* Within one turn of the sequence numbers, without duplicates and late    *)
(* packets, the reported loss is the loss.                                 *)
THEOREM LossIsExact == StatsSpec => []LossExact
<1>1. ASSUME CountersInv PROVE LossExact
  <2> SUFFICES ASSUME hasFirst, InOrderOnce, newest - first < Mod
               PROVE  Lost = ReallyLost
    BY DEF LossExact
  <2> DEFINE d == newest - first
             seen == Cardinality((first .. newest) \cap got)
  <2>1. /\ d \in Nat /\ received \in Nat /\ SpanSeen = d + 1
        /\ ReallyLost = (d + 1) - seen /\ seen \in Nat /\ seen <= received
    BY <1>1, SpanAndLoss
  <2>2. got \subseteq first .. newest
    <3> SUFFICES ASSUME NEW n \in got PROVE n \in first .. newest
      OBVIOUS
    <3>1. n <= newest /\ n >= first
      BY <1>1 DEF CountersInv, Followed, InOrderOnce
    <3>2. n \in Int /\ first \in Int /\ newest \in Int
      BY <1>1 DEF CountersInv, StatsTypeOK
    <3>3. QED
      BY <3>1, <3>2
  <2>3. seen = received
    <3>1. (first .. newest) \cap got = got
      BY <2>2
    <3>2. QED
      BY <3>1 DEF InOrderOnce
  <2>4. seen <= d + 1
    <3>1. first \in Int /\ newest \in Int
      BY <1>1 DEF CountersInv, StatsTypeOK
    <3>2. /\ IsFiniteSet(first .. newest)
          /\ Cardinality(first .. newest) = IF first > newest THEN 0 ELSE newest - first + 1
      BY <3>1, FS_Interval
    <3>3. Cardinality((first .. newest) \cap got) <= Cardinality(first .. newest)
      <4>1. (first .. newest) \cap got \subseteq first .. newest
        OBVIOUS
      <4>2. QED
        BY <3>2, <4>1, FS_Subset
    <3>4. QED
      BY <2>1, <3>1, <3>2, <3>3
  <2> HIDE DEF d, seen
  <2>5. QED
    BY <2>1, <2>3, <2>4 DEF Lost, Expected
<1>2. QED
  BY <1>1, CountersInvariant, PTL

=============================================================================
