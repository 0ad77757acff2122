----------------------------- MODULE SipDialogs -----------------------------
(***************************************************************************)
(* The call table of callfrompcap: what processSIPPkt (sipextractor.go)    *)
(* does to it for every SIP packet of the capture, and the loop of         *)
(* extractCalls that feeds it.  A Call is one SIP dialog (model.go).       *)
(*                                                                         *)
(* Abstractions.  A message is the record parseSIP returns (SIPInfo), with *)
(* the reason phrase and the text left out.  The IP addresses of the first *)
(* packet are left out of a Call: they are set once and only printed.      *)
(* A directory name is the sequence of its "_"-separated chunks, so that   *)
(* Append(name, n) is the name Sprintf("%s_%d", name, n) makes.            *)
(***************************************************************************)
EXTENDS Naturals, Sequences, FiniteSets, GoMaps

CONSTANTS
    CallIds,       \* Call-IDs that occur in the capture
    NoCallId,      \* SIPInfo.CallID = "": the payload was not SIP
    Endpoints,     \* IP:port pairs announced in SDP or seen on packets
    Users,         \* user parts of From and Request-URI
    NoUser,        \* the empty user
    Methods,       \* SIP methods, upper case
    NoMethod,      \* SIPInfo.Method = "": a response
    PayloadTypes,  \* RTP payload types
    Codecs,        \* codec names of a=rtpmap lines
    Times,         \* capture timestamps, in seconds; 0 reads as "not seen"
    MethodFilter,  \* --method, {} accepts every method
    SipMsgs,       \* the messages the capture may hold
    Base,          \* Call-ID -> sanitised, truncated name (sequence of chunks)
    MaxDirs        \* bound: names safeDirname hands out

(* sipparser.go, SIPInfo: what parseSIP can return.                        *)
SIPInfo == [callId : CallIds \cup {NoCallId}, method : Methods \cup {NoMethod},
            code : Nat, cseq : Methods \cup {NoMethod},
            requestUser : Users \cup {NoUser}, fromUser : Users \cup {NoUser},
            sdp : SUBSET Endpoints, rtpMap : Maps(PayloadTypes, Codecs)]

ASSUME SipMsgsAssumption ==
    /\ SipMsgs \subseteq SIPInfo
    /\ \A m \in SipMsgs : m.method # NoMethod => m.code = 0
ASSUME SentinelAssumption ==
    NoCallId \notin CallIds /\ NoMethod \notin Methods /\ NoUser \notin Users
ASSUME TimesAssumption == Times \subseteq Nat
ASSUME BoundAssumption == MaxDirs \in Nat

(* The directory names that can be handed out: a base name of some Call-ID *)
(* or that name with a counter behind it.                                  *)
Names == {Base[c] : c \in CallIds}
            \cup {Append(Base[c], n) : c \in CallIds, n \in 2 .. MaxDirs}

VARIABLES
    calls,        \* Call-ID -> Call
    endpointMap,  \* endpoint -> Call-ID of the Call it points to
    usedDirs,     \* names safeDirname has handed out
    rejectedIDs,  \* Call-IDs that failed the method filter
    traces        \* directory -> Call-IDs with entries in its sip_trace.txt

sipVars == <<calls, endpointMap, usedDirs, rejectedIDs, traces>>

(* model.go, Call.  The two media-flow flags are set while RTP is read.    *)
Call == [requestUser : Users \cup {NoUser}, fromUser : Users \cup {NoUser},
         directory : Names,
         endpoints : SUBSET Endpoints,
         callerEndpoints : SUBSET Endpoints, calleeEndpoints : SUBSET Endpoints,
         rtpMap : Maps(PayloadTypes, Codecs),
         finalCode : Nat, connectedAt : Nat, disconnectedAt : Nat,
         hadCallerRTP : BOOLEAN, hadCalleeRTP : BOOLEAN]

newCall(m, dir) ==
    [requestUser |-> m.requestUser, fromUser |-> m.fromUser, directory |-> dir,
     endpoints |-> {}, callerEndpoints |-> {}, calleeEndpoints |-> {},
     rtpMap |-> << >>, finalCode |-> 0, connectedAt |-> 0, disconnectedAt |-> 0,
     hadCallerRTP |-> FALSE, hadCalleeRTP |-> FALSE]

-----------------------------------------------------------------------------
(* safeDirname: the base name, then base_2, base_3, ... until one is free. *)

Candidate(c, n) == IF n = 1 THEN Base[c] ELSE Append(Base[c], n)

(* Mutant of FirstFree: counts dialogs of the same base name, does not     *)
(* look whether the counted name is taken.                                 *)
FirstFree_byCount(c) ==
    {1 + Cardinality({d \in DOMAIN calls : Base[d] = Base[c]})}

FirstFree(c) ==
    {n \in 1 .. MaxDirs : /\ Candidate(c, n) \notin usedDirs
                          /\ \A k \in 1 .. n - 1 : Candidate(c, k) \in usedDirs}

-----------------------------------------------------------------------------
(* What one message does to the Call it belongs to.                        *)

IsRequest(m) == m.method # NoMethod
IsFinal(m)   == m.code >= 200

(* Fill-if-empty of RequestUser and FromUser.                              *)
FirstUser(known, seen) == IF known = NoUser THEN seen ELSE known

CallerEndpoints(call, m) ==
    IF IsRequest(m) THEN call.callerEndpoints \cup m.sdp ELSE call.callerEndpoints

(* Mutant of CalleeEndpoints: early media only, the answer is forgotten.   *)
CalleeEndpoints_early(call, m) ==
    IF m.code = 183 THEN call.calleeEndpoints \cup m.sdp ELSE call.calleeEndpoints

CalleeEndpoints(call, m) ==
    IF IsRequest(m) THEN call.calleeEndpoints ELSE call.calleeEndpoints \cup m.sdp

FinalCode(call, m) == IF IsFinal(m) THEN m.code ELSE call.finalCode

(* Mutant of ConnectedAt: a retransmitted 200 OK overwrites the first.     *)
ConnectedAt_last(call, m, ts) ==
    IF m.code = 200 /\ m.cseq = "INVITE" THEN ts ELSE call.connectedAt

(* The first 200 OK to an INVITE.                                          *)
ConnectedAt(call, m, ts) ==
    IF m.code = 200 /\ m.cseq = "INVITE" /\ call.connectedAt = 0
    THEN ts ELSE call.connectedAt

(* A BYE request, or a final response to one.                              *)
DisconnectedAt(call, m, ts) ==
    IF m.method = "BYE" \/ (IsFinal(m) /\ m.cseq = "BYE")
    THEN ts ELSE call.disconnectedAt

Absorb(call, m, ts) ==
    [call EXCEPT !.requestUser     = FirstUser(@, m.requestUser),
                 !.fromUser        = FirstUser(@, m.fromUser),
                 !.endpoints       = @ \cup m.sdp,
                 !.callerEndpoints = CallerEndpoints(call, m),
                 !.calleeEndpoints = CalleeEndpoints(call, m),
                 !.rtpMap          = Merge(@, m.rtpMap),
                 !.finalCode       = FinalCode(call, m),
                 !.connectedAt     = ConnectedAt(call, m, ts),
                 !.disconnectedAt  = DisconnectedAt(call, m, ts)]

(* Mutant of RoutesTaken: a refresh takes the route back.                  *)
RoutesTaken_refresh(call, m) == m.sdp

(* Only an endpoint the call did not know yet takes the route.             *)
RoutesTaken(call, m) == m.sdp \ call.endpoints

-----------------------------------------------------------------------------
(* processSIPPkt, one disjunct per way through it.                         *)

(* Mutant of Rejected: only the message that failed the filter is dropped. *)
Rejected_never(m) == FALSE

Rejected(m) == m.callId \in rejectedIDs
IsNew(m)    == m.callId \in CallIds \ DOMAIN calls /\ ~Rejected(m)
Filtered(m) == MethodFilter # {} /\ IsRequest(m) /\ m.method \notin MethodFilter

(* cache.write of one entry: appended, or lost with a logged warning.      *)
WriteTrace(dir, c) ==
    \/ traces' = Put(traces, dir, Lookup(traces, dir, {}) \cup {c})
    \/ UNCHANGED traces

(* Everything after the lookup: the Call, the routes, the trace.           *)
Deliver(call, m, ts) ==
    /\ calls' = Put(calls, m.callId, Absorb(call, m, ts))
    /\ endpointMap' = Merge(endpointMap, [e \in RoutesTaken(call, m) |-> m.callId])
    /\ WriteTrace(call.directory, m.callId)

IgnoreSip(m) ==
    /\ m.callId = NoCallId \/ Rejected(m)
    /\ UNCHANGED sipVars

RejectDialog(m) ==
    /\ IsNew(m) /\ Filtered(m)
    /\ rejectedIDs' = rejectedIDs \cup {m.callId}
    /\ UNCHANGED <<calls, endpointMap, usedDirs, traces>>

(* MkdirAll fails after safeDirname marked the name as used.               *)
MkdirFails(m) ==
    /\ IsNew(m) /\ ~Filtered(m)
    /\ \E n \in FirstFree(m.callId) :
          usedDirs' = usedDirs \cup {Candidate(m.callId, n)}
    /\ UNCHANGED <<calls, endpointMap, rejectedIDs, traces>>

OpenDialog(m, ts) ==
    /\ IsNew(m) /\ ~Filtered(m)
    /\ \E n \in FirstFree(m.callId) :
          LET dir == Candidate(m.callId, n)
          IN  /\ usedDirs' = usedDirs \cup {dir}
              /\ Deliver(newCall(m, dir), m, ts)
    /\ UNCHANGED rejectedIDs

UpdateDialog(m, ts) ==
    /\ m.callId \in DOMAIN calls /\ ~Rejected(m)
    /\ Deliver(calls[m.callId], m, ts)
    /\ UNCHANGED <<usedDirs, rejectedIDs>>

processSIPPkt(m, ts) ==
    \/ IgnoreSip(m)
    \/ RejectDialog(m)
    \/ MkdirFails(m)
    \/ OpenDialog(m, ts)
    \/ UpdateDialog(m, ts)

-----------------------------------------------------------------------------
(* extractCalls: one shared table for all packets of all files.            *)

SipInit ==
    /\ calls = << >>
    /\ endpointMap = << >>
    /\ usedDirs = {}
    /\ rejectedIDs = {}
    /\ traces = << >>

SipNext == \E m \in SipMsgs, ts \in Times : processSIPPkt(m, ts)

SipSpec == SipInit /\ [][SipNext]_sipVars

-----------------------------------------------------------------------------
(* Types: the table maps Call-IDs to Calls, the routes map endpoints to    *)
(* Call-IDs, and only names that safeDirname can make are in use.          *)
SipTypeOK ==
    /\ IsMap(calls, CallIds, Call)
    /\ IsMap(endpointMap, Endpoints, CallIds)
    /\ usedDirs \subseteq Names
    /\ rejectedIDs \subseteq CallIds
    /\ IsMap(traces, Names, SUBSET CallIds)

(* A route leads to a Call of the table that has announced the endpoint    *)
(* (endpointMap and Call.Endpoints are updated by separate statements).    *)
RoutedToAnnouncer ==
    \A e \in DOMAIN endpointMap :
        /\ endpointMap[e] \in DOMAIN calls
        /\ e \in calls[endpointMap[e]].endpoints

(* An endpoint some Call announced is never without a route, however often *)
(* other Calls took the route over.                                        *)
AnnouncedIsRouted ==
    \A c \in DOMAIN calls : calls[c].endpoints \subseteq DOMAIN endpointMap

(* Every endpoint of a Call has a side: this is what keeps the role of a   *)
(* stream from being "unknown" in processRTPPkt.                           *)
SidesCoverEndpoints ==
    \A c \in DOMAIN calls :
        calls[c].endpoints = calls[c].callerEndpoints \cup calls[c].calleeEndpoints

(* The three structures that route media agree with one another.           *)
RoutingAgreement == RoutedToAnnouncer /\ AnnouncedIsRouted /\ SidesCoverEndpoints

(* Two dialogs never share a directory, also when their Call-IDs sanitise  *)
(* to the same name or one sanitises to another's counted name, and after  *)
(* failed MkdirAll calls; a sip_trace.txt holds entries of one dialog.     *)
DirectoriesDisjoint ==
    /\ \A c \in DOMAIN calls : calls[c].directory \in usedDirs
    /\ \A c, d \in DOMAIN calls :
          calls[c].directory = calls[d].directory => c = d
    /\ \A dir \in DOMAIN traces : \A c \in traces[dir] :
          c \in DOMAIN calls /\ calls[c].directory = dir

(* A dialog the --method filter turned away never gets a Call later, even  *)
(* when messages follow that would pass the filter.                        *)
RejectionIsFinal == rejectedIDs \cap DOMAIN calls = {}

=============================================================================
