----------------------------- MODULE PcapReader -----------------------------
(***************************************************************************)
(* Reading capture files that may end anywhere: PcapReader.Next (pcap.go)  *)
(* and the loop that analyze, extractCalls and extractRTP run over it.     *)
(*                                                                         *)
(* A file is the list of InclLen values of the records that were being     *)
(* written to it and the number of bytes behind the global header that     *)
(* reached the disk.  Open fails for a missing file, a foreign magic       *)
(* number, pcapng or a cut global header.                                  *)
(***************************************************************************)
EXTENDS Naturals, Sequences, FiniteSetsExt

CONSTANTS
    Captures,  \* lists of files the program may be started with
    RecHdr     \* bytes of a packet record header

CaptureFile == [opens : BOOLEAN, lens : Seq(Nat), size : Nat]

(* Bytes the first k records take.                                         *)
End(f, k) == k * RecHdr + SumFunctionOnSet(f.lens, 1 .. k)

ASSUME CapturesAssumption ==
    /\ RecHdr \in Nat \ {0} /\ Captures \subseteq Seq(CaptureFile)
    /\ \A c \in Captures : \A i \in DOMAIN c : c[i].size <= End(c[i], Len(c[i].lens))

VARIABLES
    files,      \* the command line
    cur,        \* file being read
    pc,         \* "open", "next", "done", "failed"
    off,        \* bytes of the file consumed
    delivered,  \* file -> records handed to the packet handlers
    warned,     \* files warnTruncated was called for
    ioError     \* history: a read failed for another reason than the end

vars == <<files, cur, pc, off, delivered, warned, ioError>>

Start ==
    /\ cur = 1 /\ off = 0
    /\ pc = IF files = << >> THEN "done" ELSE "open"
    /\ delivered = [i \in DOMAIN files |-> 0]
    /\ warned = {} /\ ioError = FALSE

Init == files \in Captures /\ Start

-----------------------------------------------------------------------------
(* io.ReadFull of n bytes when avail are left: nothing read is EOF, less   *)
(* than n is ErrUnexpectedEOF, and n = 0 always succeeds.                  *)
ReadFull(avail, n) ==
    IF n = 0 \/ avail >= n THEN "nil"
    ELSE IF avail = 0 THEN "EOF" ELSE "UnexpectedEOF"

Avail   == files[cur].size - off
InclLen == files[cur].lens[delivered[cur] + 1]

HeaderErr == ReadFull(Avail, RecHdr)
BodyErr   == ReadFull(Avail - RecHdr, InclLen)

(* Mutant of NextErr: the error of the body is not looked at.              *)
NextErr_header == [is |-> HeaderErr, wrapped |-> FALSE]

(* The error of Next(): the header's as it is, the body's wrapped with %w. *)
NextErr ==
    IF HeaderErr # "nil" THEN [is |-> HeaderErr, wrapped |-> FALSE]
                         ELSE [is |-> BodyErr, wrapped |-> BodyErr # "nil"]

(* Mutant of EndOfFile: a cut header passes for a clean end.               *)
EndOfFile_cut == NextErr.is \in {"EOF", "UnexpectedEOF"} /\ ~NextErr.wrapped

(* err == io.EOF compares values: a wrapped EOF is another value.          *)
EndOfFile == NextErr.is = "EOF" /\ ~NextErr.wrapped

(* Mutant of IsTruncated: == instead of errors.Is.                         *)
IsTruncated_plain == NextErr = [is |-> "UnexpectedEOF", wrapped |-> FALSE]

(* errors.Is looks through the wrapping.                                   *)
IsTruncated == NextErr.is = "UnexpectedEOF"

-----------------------------------------------------------------------------
OpenFile ==
    /\ pc = "open" /\ files[cur].opens
    /\ pc' = "next" /\ off' = 0
    /\ UNCHANGED <<files, cur, delivered, warned, ioError>>

OpenFails ==
    /\ pc = "open" /\ ~files[cur].opens
    /\ pc' = "failed"
    /\ UNCHANGED <<files, cur, off, delivered, warned, ioError>>

ReadPacket ==
    /\ pc = "next" /\ NextErr.is = "nil"
    /\ off' = off + RecHdr + InclLen
    /\ delivered' = [delivered EXCEPT ![cur] = @ + 1]
    /\ UNCHANGED <<files, cur, pc, warned, ioError>>

(* Mutant of NextFile: the loop variable is advanced twice.                *)
NextFile_twice ==
    /\ cur' = cur + 2
    /\ pc' = IF cur >= Len(files) THEN "done" ELSE "open"
    /\ UNCHANGED <<files, off, delivered, ioError>>

NextFile ==
    /\ cur' = cur + 1
    /\ pc' = IF cur = Len(files) THEN "done" ELSE "open"
    /\ UNCHANGED <<files, off, delivered, ioError>>

StopAtEnd == pc = "next" /\ EndOfFile /\ NextFile /\ UNCHANGED warned

StopTruncated ==
    /\ pc = "next" /\ IsTruncated
    /\ warned' = warned \cup {cur}
    /\ NextFile

(* Any other error ends the run: no calls are returned, main exits.        *)
Abort ==
    /\ pc = "next" /\ NextErr.is # "nil" /\ ~EndOfFile /\ ~IsTruncated
    /\ pc' = "failed"
    /\ UNCHANGED <<files, cur, off, delivered, warned, ioError>>

IoError ==
    /\ pc = "next"
    /\ ioError' = TRUE /\ pc' = "failed"
    /\ UNCHANGED <<files, cur, off, delivered, warned>>

Next ==
    OpenFile \/ OpenFails \/ ReadPacket \/ StopAtEnd \/ StopTruncated
      \/ Abort \/ IoError

Spec == Init /\ [][Next]_vars

-----------------------------------------------------------------------------
(* Reference definitions, over the whole file.                             *)

(* Records that are whole on disk.                                         *)
Complete(f) == {k \in 1 .. Len(f.lens) : End(f, k) <= f.size}

AtBoundary(f) == \E k \in 0 .. Len(f.lens) : End(f, k) = f.size

(* The file ends right behind a record header that promises a body.        *)
CutAfterHeader(f) ==
    \E k \in 1 .. Len(f.lens) :
        f.lens[k] > 0 /\ f.size = End(f, k - 1) + RecHdr

(* Types.                                                                  *)
TypeOK ==
    /\ files \in Captures
    /\ cur \in 1 .. Len(files) + 1
    /\ pc \in {"open", "next", "done", "failed"}
    /\ off \in Nat
    /\ delivered \in [DOMAIN files -> Nat]
    /\ warned \subseteq DOMAIN files
    /\ ioError \in BOOLEAN

(* Every record that is whole on disk is delivered, once, and nothing of a *)
(* record that is not: in every file the loop has gone past, and up to the *)
(* current record in the one it is reading.                                *)
DeliversWholeRecords ==
    /\ \A i \in 1 .. cur - 1 : 1 .. delivered[i] = Complete(files[i])
    /\ cur \in DOMAIN files => 1 .. delivered[cur] \subseteq Complete(files[cur])

(* The user is warned about a file the loop went past iff the file ends    *)
(* inside a record (a wrong length would hide data loss, or cry wolf).     *)
WarnsIffCut ==
    \A i \in 1 .. cur - 1 : i \in warned <=> ~AtBoundary(files[i])

(* Only three things make a run fail: a file that does not open, an I/O    *)
(* error, and a file that ends right behind a record header.               *)
AbortsOnlyFor ==
    pc = "failed" =>
        \/ ~files[cur].opens
        \/ ioError
        \/ CutAfterHeader(files[cur])

(* pcap.go, IsTruncated: a file that ended in the middle of a record is to *)
(* be treated "as end-of-file, keeping the packets read so far, instead of *)
(* aborting the whole run".                                                *)
CutFilesNeverAbort ==
    pc = "failed" => ~files[cur].opens \/ ioError

=============================================================================
