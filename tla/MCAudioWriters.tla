--------------------------- MODULE MCAudioWriters ---------------------------
(***************************************************************************)
(* An instance of AudioWriters: 4-bit timestamps that wrap in the middle   *)
(* of the stream, a static and a dynamic G.711 payload type, a static      *)
(* G.729 one, and a map that may send each anywhere.                       *)
(***************************************************************************)
EXTENDS AudioWriters

(* A G.711 codec with a clock of its own, one of ffmpeg, one of nobody.    *)
MCCodecs == {[name |-> "PCMA", rate |-> 2], [name |-> "G722", rate |-> 1],
             [name |-> "other", rate |-> 1]}

(* Late, in order (overlapping if the packet before was long), and with a  *)
(* gap; packets without audio in between make longer ones.                 *)
MCJumps == {-2, 1, 3}
=============================================================================
