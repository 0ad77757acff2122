---------------------------- MODULE SipFileCache ----------------------------
(***************************************************************************)
(* _SipFileCache (sipextractor.go): at most sipFileCacheMax trace files    *)
(* are open at a time.  handles is the map of cached files, order the      *)
(* slice of their paths in the order they were opened; both are updated by *)
(* separate statements, and an error can come between them.  An entry goes *)
(* where the *os.File in handles leads: osFiles says which of them are     *)
(* open, and on what, and forgetting a handle does not close its file.     *)
(***************************************************************************)
EXTENDS Naturals, Sequences, FiniteSets, GoMaps

CONSTANTS
    Paths,            \* paths of sip_trace.txt files
    Entries,          \* formatted trace entries
    Torn,             \* what a failed WriteString leaves behind
    sipFileCacheMax,
    MaxWrites         \* bound: calls of write

ASSUME CacheAssumption == sipFileCacheMax \in Nat \ {0}
ASSUME WritesAssumption == MaxWrites \in Nat
ASSUME TornAssumption == Torn \notin Entries

VARIABLES
    handles,  \* path -> the *os.File cached for it
    order,    \* paths in the order of opening
    osFiles,  \* open *os.File -> the file it is open on
    files,    \* path -> entries on disk
    result,   \* what the last write returned
    writes,   \* calls of write so far
    closed    \* closeAll has run

vars == <<handles, order, osFiles, files, result, writes, closed>>

Init ==
    /\ handles = << >> /\ order = << >> /\ osFiles = << >> /\ files = << >>
    /\ result = "none" /\ writes = 0 /\ closed = FALSE

Called == ~closed /\ writes < MaxWrites /\ writes' = writes + 1 /\ UNCHANGED closed

(* Each call opens one file at most: the *os.File goes by its call.        *)
NewFile == writes + 1

Content(p) == Lookup(files, p, << >>)

(* What OpenFile leaves on disk: O_CREATE makes the file, its content stays. *)
Opened(p) == Put(files, p, Content(p))

(* WriteString on the *os.File f: O_APPEND puts the entry behind what the  *)
(* file holds.  A file that was closed meanwhile returns os.ErrClosed.     *)
WriteString(f, table, disk, e) ==
    \/ /\ f \in DOMAIN table
       /\ \/ files' = [disk EXCEPT ![table[f]] = Append(@, e)] /\ result' = "ok"
          \/ files' = [disk EXCEPT ![table[f]] = Append(@, Torn)] /\ result' = "error"
          \/ files' = disk /\ result' = "error"
    \/ f \notin DOMAIN table /\ files' = disk /\ result' = "ErrClosed"

WriteCached(p, e) ==
    /\ Called
    /\ p \in DOMAIN handles
    /\ WriteString(handles[p], osFiles, files, e)
    /\ UNCHANGED <<handles, order, osFiles>>

(* Mutant of Full: one handle too many.                                    *)
Full_over == Cardinality(DOMAIN handles) > sipFileCacheMax

Full == Cardinality(DOMAIN handles) >= sipFileCacheMax

(* Mutant of Waiting: order keeps the evicted path.                        *)
Waiting_all == order

(* Mutant of Kept: the evicted file is closed and stays in the map.        *)
Kept_all == handles

(* Eviction: the file at the front of order is closed and forgotten.       *)
Waiting   == IF Full THEN Tail(order) ELSE order
StillOpen == IF Full THEN Without(osFiles, {handles[Head(order)]}) ELSE osFiles
Kept      == IF Full THEN Without(handles, {Head(order)}) ELSE handles

WriteOpening(p, e) ==
    /\ Called
    /\ p \notin DOMAIN handles
    /\ handles' = Put(Kept, p, NewFile)
    /\ order' = Append(Waiting, p)
    /\ osFiles' = Put(StillOpen, NewFile, p)
    /\ WriteString(NewFile, osFiles', Opened(p), e)

(* OpenFile fails: the evicted file stays closed.                          *)
OpenFails(p) ==
    /\ Called
    /\ p \notin DOMAIN handles
    /\ handles' = Kept
    /\ order' = Waiting
    /\ osFiles' = StillOpen
    /\ result' = "error"
    /\ UNCHANGED files

write(p, e) == WriteCached(p, e) \/ WriteOpening(p, e) \/ OpenFails(p)

(* Deferred by extractCalls and analyze.                                   *)
closeAll ==
    /\ ~closed
    /\ osFiles' = Without(osFiles, {handles[p] : p \in DOMAIN handles})
    /\ handles' = << >> /\ order' = << >> /\ closed' = TRUE
    /\ UNCHANGED <<files, result, writes>>

Next == closeAll \/ \E p \in Paths, e \in Entries : write(p, e)

Spec == Init /\ [][Next]_vars

-----------------------------------------------------------------------------
(* Types.                                                                  *)
TypeOK ==
    /\ IsMap(handles, Paths, 1 .. writes)
    /\ order \in Seq(Paths)
    /\ IsMap(osFiles, 1 .. writes, Paths)
    /\ IsMap(files, Paths, Seq(Entries \cup {Torn}))
    /\ result \in {"none", "ok", "error", "ErrClosed"}
    /\ writes \in 0 .. MaxWrites
    /\ closed \in BOOLEAN

(* order lists exactly the cached files, each once: the file at its front  *)
(* can always be closed, and no cached file is missing from it for ever.   *)
OrderListsHandles ==
    /\ DOMAIN handles = {order[i] : i \in 1 .. Len(order)}
    /\ \A i, j \in 1 .. Len(order) : order[i] = order[j] => i = j

(* No more than sipFileCacheMax files are open, whatever failed, and none  *)
(* is after closeAll: a file that is forgotten was closed before.          *)
HandlesBounded ==
    /\ Cardinality(DOMAIN osFiles) <= sipFileCacheMax
    /\ closed => DOMAIN osFiles = {}

(* The cache behaves like plain append-only files: no write goes through a *)
(* handle that eviction closed or to the file of another path, and neither *)
(* eviction nor reopening loses, reorders or truncates an entry.           *)
Log == INSTANCE TraceLog
ImplementsTraceLog == Log!Spec

=============================================================================
