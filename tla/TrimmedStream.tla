---------------------------- MODULE TrimmedStream ----------------------------
(***************************************************************************)
(* What --trim-ring promises about one audio stream: nothing is written    *)
(* until the decision what to trim, the decision is taken once and removes *)
(* a prefix of what has arrived, and from then on every frame is written   *)
(* as it arrives.  Which prefix is RingTrim's business.                    *)
(***************************************************************************)
EXTENDS Naturals, Sequences

VARIABLES
    arrived,  \* the frames of the stream so far
    out,      \* the frames written
    decided   \* it has been decided what to trim

Init == arrived = << >> /\ out = << >> /\ decided = FALSE

(* One more frame.                                                         *)
Arrives ==
    /\ Len(arrived') = Len(arrived) + 1
    /\ SubSeq(arrived', 1, Len(arrived)) = arrived

Hold ==
    /\ ~decided /\ Arrives
    /\ UNCHANGED <<out, decided>>

(* A prefix of what has arrived is trimmed, the rest is written.           *)
Decide ==
    /\ ~decided /\ decided' = TRUE
    /\ Arrives \/ UNCHANGED arrived
    /\ \E t \in 0 .. Len(arrived') : out' = SubSeq(arrived', t + 1, Len(arrived'))

Forward ==
    /\ decided /\ Arrives
    /\ out' = Append(out, arrived'[Len(arrived')])
    /\ UNCHANGED decided

Next == Hold \/ Decide \/ Forward

Spec == Init /\ [][Next]_<<arrived, out, decided>>

=============================================================================
