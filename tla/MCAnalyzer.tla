----------------------------- MODULE MCAnalyzer -----------------------------
(***************************************************************************)
(* A small instance of Analyzer: one complete dialog c1 between e1 and e2, *)
(* a dialog c2 that reuses the caller's port e1, and a packet from e3, an  *)
(* endpoint nobody announced, which is routed by its destination.          *)
(***************************************************************************)
EXTENDS Analyzer, TLC

CONSTANTS c1, c2, e1, e2, e3, alice, s1, s2

McBase == (c1 :> <<"a">>) @@ (c2 :> <<"b">>)

Msg(c, method, code, cseq, sdp) ==
    [callId |-> c, method |-> method, code |-> code, cseq |-> cseq,
     requestUser |-> NoUser, fromUser |-> NoUser, sdp |-> sdp, rtpMap |-> << >>]

McMsgs ==
    {Msg(c1, "INVITE", 0, "INVITE", {e1}),
     Msg(c1, NoMethod, 200, "INVITE", {e2}),
     Msg(c1, "BYE", 0, "BYE", {}),
     Msg(c2, "INVITE", 0, "INVITE", {e1})}

Pkt(src, dst, ssrc, short) ==
    [src |-> src, dst |-> dst, ssrc |-> ssrc, short |-> short]

McPkts ==
    {Pkt(e1, e2, s1, FALSE), Pkt(e2, e1, s2, FALSE),
     Pkt(e3, e1, s1, FALSE), Pkt(e1, e3, s2, TRUE)}

=============================================================================
