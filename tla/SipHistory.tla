----------------------------- MODULE SipHistory -----------------------------
(***************************************************************************)
(* SipDialogs with the sequence of messages that reached a Call, so that   *)
(* the incrementally updated Call can be compared with what the capture    *)
(* says as a whole: the columns of index.csv are read from the Call.       *)
(***************************************************************************)
EXTENDS SipDialogs, FiniteSetsExt

CONSTANT MaxLog   \* bound: messages logged

VARIABLE log      \* <<message, timestamp>> in the order they were absorbed

histVars == <<sipVars, log>>

HistInit == SipInit /\ log = << >>

HistNext ==
    \E m \in SipMsgs, ts \in Times :
        /\ Len(log) < MaxLog
        /\ processSIPPkt(m, ts)
        /\ log' = IF m.callId \in DOMAIN calls' THEN Append(log, [msg |-> m, ts |-> ts])
                                                ELSE log

HistSpec == HistInit /\ [][HistNext]_histVars

-----------------------------------------------------------------------------
(* Reference definitions: over the whole log, not step by step.            *)

(* Positions in the log of the messages of Call-ID c that satisfy P.       *)
Where(c, P(_)) == {i \in DOMAIN log : log[i].msg.callId = c /\ P(log[i].msg)}

FirstTs(S) == IF S = {} THEN 0 ELSE log[Min(S)].ts
LastTs(S)  == IF S = {} THEN 0 ELSE log[Max(S)].ts

IsAnswer(m)   == m.code = 200 /\ m.cseq = "INVITE"
IsBye(m)      == m.method = "BYE"
IsByeFinal(m) == IsFinal(m) /\ m.cseq = "BYE"
NamesCaller(m) == m.fromUser # NoUser

(* Positions at which an endpoint was announced to its Call the first time.*)
FirstAnnouncements(e) ==
    {i \in DOMAIN log :
        /\ e \in log[i].msg.sdp
        /\ \A j \in 1 .. i - 1 :
              log[j].msg.callId = log[i].msg.callId => e \notin log[j].msg.sdp}

-----------------------------------------------------------------------------
(* A BYE of the dialog was read after the last response to one.            *)
ByeReadLast(c) ==
    /\ Where(c, IsByeFinal) # {}
    /\ \E i \in Where(c, IsBye) : \A j \in Where(c, IsByeFinal) : i > j

(* The Call agrees with the whole dialog: final code of the last final     *)
(* response, connect time of the first answer, end time of the last final  *)
(* response to a BYE, or of the last BYE if no response was seen, caller   *)
(* of the first message that names one.  A BYE read behind the responses   *)
(* moves the end of the call: see ResponseEndsCall.                        *)
RowMatchesCapture ==
    \A c \in DOMAIN calls :
        LET finals    == Where(c, IsFinal)
            named     == Where(c, NamesCaller)
            responses == Where(c, IsByeFinal)
        IN  /\ calls[c].finalCode =
                  (IF finals = {} THEN 0 ELSE log[Max(finals)].msg.code)
            /\ calls[c].connectedAt = FirstTs(Where(c, IsAnswer))
            /\ ByeReadLast(c) \/ calls[c].disconnectedAt =
                  (IF responses = {} THEN LastTs(Where(c, IsBye)) ELSE LastTs(responses))
            /\ calls[c].fromUser =
                  (IF named = {} THEN NoUser ELSE log[Min(named)].msg.fromUser)

(* The comments in processSIPPkt and on DisconnectedAt, and the README:    *)
(* the final response to a BYE is authoritative for the end of its call.   *)
(* (Does not hold: a BYE overwrites the time of a response read before it, *)
(* be it a retransmission or the BYE of the other side.)                   *)
ResponseEndsCall ==
    \A c \in DOMAIN calls :
        LET responses == Where(c, IsByeFinal)
        IN  (\E i \in Where(c, IsBye), j \in responses : i < j)
              => calls[c].disconnectedAt \in {log[i].ts : i \in responses}

(* A route belongs to the dialog that was the last to announce the         *)
(* endpoint for the first time: a port reused by a new dialog moves, a     *)
(* refresh by the old one does not take it back.                           *)
RouteIsLatestNewcomer ==
    \A e \in Endpoints :
        LET first == FirstAnnouncements(e)
        IN  IF first = {} THEN e \notin DOMAIN endpointMap
            ELSE /\ e \in DOMAIN endpointMap
                 /\ endpointMap[e] = log[Max(first)].msg.callId

=============================================================================
