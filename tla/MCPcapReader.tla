---------------------------- MODULE MCPcapReader ----------------------------
(***************************************************************************)
(* One or two files of up to two records, with bodies of 0, 1 and 3 bytes, *)
(* cut at every byte.                                                      *)
(***************************************************************************)
EXTENDS PcapReader

McLens == {<< >>, <<3>>, <<0, 1>>, <<3, 0>>}

McCuts(lens) ==
    {[opens |-> TRUE, lens |-> lens, size |-> s] :
        s \in 0 .. End([lens |-> lens], Len(lens))}

McFiles ==
    UNION {McCuts(lens) : lens \in McLens}
        \cup {[opens |-> FALSE, lens |-> << >>, size |-> 0]}

McCaptures == {<<f>> : f \in McFiles} \cup {<<f, g>> : f, g \in McFiles}

=============================================================================
