------------------------------ MODULE TraceLog ------------------------------
(***************************************************************************)
(* What the callers of _SipFileCache.write rely on: a set of append-only   *)
(* trace files.  A write that returns no error has put its entry, whole,   *)
(* behind everything the file held; a write that returns an error has      *)
(* changed no entry that was there, and left a torn entry at most.  How    *)
(* many files are open at a time does not show: no write fails because its *)
(* file was closed to make room for another.                               *)
(***************************************************************************)
EXTENDS Naturals, Sequences, GoMaps

CONSTANTS Paths, Entries, Torn

VARIABLES files, result

logVars == <<files, result>>

Content(p) == Lookup(files, p, << >>)

Init == files = << >> /\ result = "none"

Logged(p, e) ==
    /\ files' = Put(files, p, Append(Content(p), e))
    /\ result' = "ok"

Failed(p) ==
    /\ \/ UNCHANGED files
       \/ files' = Put(files, p, Content(p))
       \/ files' = Put(files, p, Append(Content(p), Torn))
    /\ result' = "error"

Next == \E p \in Paths : Failed(p) \/ \E e \in Entries : Logged(p, e)

Spec == Init /\ [][Next]_logVars

=============================================================================
