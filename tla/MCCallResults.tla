--------------------------- MODULE MCCallResults ---------------------------
(***************************************************************************)
(* Three calls: one with up to three streams, one with a stream of its     *)
(* own, one that never had media and has no final code.                    *)
(***************************************************************************)
EXTENDS CallResults, TLC

CONSTANTS c1, c2, c3, s1, s2, s3, s4

McDialogs ==
    {(c1 :> [FinalCode |-> 200, ConnectedAt |-> 1, DisconnectedAt |-> end])
       @@ (c2 :> [FinalCode |-> 486, ConnectedAt |-> 0, DisconnectedAt |-> 0])
       @@ (c3 :> [FinalCode |-> 0, ConnectedAt |-> 0, DisconnectedAt |-> 2]) : end \in {0, 3}}

M(jitter, loss, mos) == [jitter |-> jitter, loss |-> loss, mos |-> mos]
S(c, role, wav, m) == [call |-> c, role |-> role, wav |-> wav, metrics |-> m]

McStreams ==
    {(s1 :> S(c1, "caller", TRUE, m1)) @@ (s2 :> S(c1, "callee", wav, m2))
       @@ (s3 :> S(c1, "callee", TRUE, M(2, 3, 2))) @@ (s4 :> S(c2, "callee", TRUE, m1)) :
         wav \in BOOLEAN, m1 \in {M(1, 0, 4), NoMetrics}, m2 \in {M(1, 0, 3), M(0, 5, 1)}}
      \cup {(s1 :> S(c1, "caller", TRUE, M(1, 0, 4))), << >>}

(* Not given; three entries, one of them invalid; none of them valid.      *)
McCodes == {{}, {200, 486, 0}, {-1, 0}}

McCaptures == {[calls |-> d, streams |-> s] : d \in McDialogs, s \in McStreams}

=============================================================================
