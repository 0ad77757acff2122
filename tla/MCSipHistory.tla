---------------------------- MODULE MCSipHistory ----------------------------
(***************************************************************************)
(* A small instance of SipHistory.  Two Call-IDs sanitise to the same name *)
(* "a", the third to "a_2", the name the second "a" would get.  c1 is      *)
(* answered or rejected, c2 announces an endpoint of c1, c3 is ended by    *)
(* both sides at once, with one response captured, or turned away by       *)
(* --method if its REGISTER is read first.  The log is any sequence of     *)
(* these, so all of it may be lost, retransmitted or reordered.            *)
(***************************************************************************)
EXTENDS SipHistory, TLC

CONSTANTS c1, c2, c3, e1, e2, alice, bob

McBase == (c1 :> <<"a">>) @@ (c2 :> <<"a">>) @@ (c3 :> <<"a", 2>>)

McNoMap == << >>

Msg(c, method, code, cseq, user, sdp) ==
    [callId |-> c, method |-> method, code |-> code, cseq |-> cseq,
     requestUser |-> user, fromUser |-> user, sdp |-> sdp,
     rtpMap |-> IF sdp = {} THEN McNoMap ELSE 96 :> "PCMU"]

McMsgs ==
    {Msg(NoCallId, NoMethod, 0, NoMethod, NoUser, {}),
     Msg(c1, "INVITE", 0, "INVITE", alice, {e1}),
     Msg(c1, NoMethod, 200, "INVITE", NoUser, {e2}),
     Msg(c1, NoMethod, 486, "INVITE", NoUser, {}),
     Msg(c2, "INVITE", 0, "INVITE", bob, {e1}),
     Msg(c3, "REGISTER", 0, "REGISTER", bob, {}),
     Msg(c3, "BYE", 0, "BYE", alice, {}),
     Msg(c3, NoMethod, 200, "BYE", bob, {})}

=============================================================================
