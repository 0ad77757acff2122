-------------------------- MODULE SipDialogs_proofs --------------------------
(***************************************************************************)
(* The call table is well typed, its routing structures agree, no two      *)
(* dialogs share a directory and a rejected dialog never gets a Call: for  *)
(* every set of Call-IDs, endpoints, messages, timestamps and names.       *)
(*                                                                         *)
(* SipInv is inductive.  Routing needs the types (a route is a Call-ID);   *)
(* disjointness needs that every directory in the table is in usedDirs.    *)
(***************************************************************************)
EXTENDS SipDialogs, TLAPS

SipInv ==
    SipTypeOK /\ RoutingAgreement /\ DirectoriesDisjoint /\ RejectionIsFinal

-----------------------------------------------------------------------------
(* A map keeps its key and value sets under m[k] = v.                      *)
LEMMA PutIsMap ==
    ASSUME NEW D, NEW R, NEW m, IsMap(m, D, R), NEW k \in D, NEW v \in R
    PROVE  IsMap(Put(m, k, v), D, R)
    BY DEF IsMap, Put

(* A map keeps its key and value sets when another such map is merged in.  *)
LEMMA MergeIsMap ==
    ASSUME NEW D, NEW R, NEW m, NEW n, IsMap(m, D, R), IsMap(n, D, R)
    PROVE  IsMap(Merge(m, n), D, R)
    BY DEF IsMap, Merge

(* Membership in the set Maps is being a map.                              *)
LEMMA MapsIsMap ==
    ASSUME NEW D, NEW R, NEW m
    PROVE  m \in Maps(D, R) <=> IsMap(m, D, R)
<1>1. ASSUME m \in Maps(D, R) PROVE IsMap(m, D, R)
  <2>1. PICK S \in SUBSET D : m \in [S -> R]
    BY <1>1 DEF Maps
  <2> QED
    BY <2>1 DEF IsMap
<1>2. ASSUME IsMap(m, D, R) PROVE m \in Maps(D, R)
  <2>1. DOMAIN m \in SUBSET D /\ m \in [DOMAIN m -> R]
    BY <1>2 DEF IsMap
  <2> QED
    BY <2>1 DEF Maps
<1> QED
  BY <1>1, <1>2

-----------------------------------------------------------------------------
(* A name safeDirname hands out is a directory name that was free.         *)
LEMMA FreshName ==
    ASSUME NEW c \in CallIds, NEW n \in FirstFree(c)
    PROVE  Candidate(c, n) \in Names /\ Candidate(c, n) \notin usedDirs
<1>1. n \in 1 .. MaxDirs /\ Candidate(c, n) \notin usedDirs
  BY DEF FirstFree
<1>2. CASE n = 1
  BY <1>1, <1>2 DEF Candidate, Names
<1>3. CASE n # 1
  <2>1. n \in 2 .. MaxDirs
    BY <1>1, <1>3, BoundAssumption
  <2>2. Candidate(c, n) = Append(Base[c], n)
    BY <1>3 DEF Candidate
  <2> QED
    BY <1>1, <2>1, <2>2 DEF Names
<1> QED
  BY <1>2, <1>3

(* A new Call is well typed, announces nothing and has its directory.      *)
LEMMA NewCallType ==
    ASSUME NEW m \in SipMsgs, NEW dir \in Names
    PROVE  /\ newCall(m, dir) \in Call
           /\ newCall(m, dir).directory = dir
           /\ newCall(m, dir).endpoints = {}
           /\ newCall(m, dir).callerEndpoints = {}
           /\ newCall(m, dir).calleeEndpoints = {}
<1>1. m \in SIPInfo
  BY SipMsgsAssumption
<1>2. << >> \in Maps(PayloadTypes, Codecs)
  <2>1. << >> \in [{} -> Codecs]
    OBVIOUS
  <2> QED
    BY <2>1 DEF Maps
<1> QED
  BY <1>1, <1>2 DEF newCall, Call, SIPInfo

(* Absorbing a message keeps the Call well typed and its directory, adds   *)
(* exactly the announced endpoints, and gives each of them a side.         *)
LEMMA AbsorbCall ==
    ASSUME NEW call \in Call, NEW m \in SipMsgs, NEW ts \in Times
    PROVE  LET after == Absorb(call, m, ts)
           IN  /\ after \in Call
               /\ after.directory = call.directory
               /\ after.endpoints = call.endpoints \cup m.sdp
               /\ after.callerEndpoints \cup after.calleeEndpoints
                    = call.callerEndpoints \cup call.calleeEndpoints \cup m.sdp
<1>1. m \in SIPInfo
  BY SipMsgsAssumption
<1>2. ts \in Nat
  BY TimesAssumption
<1>3. Merge(call.rtpMap, m.rtpMap) \in Maps(PayloadTypes, Codecs)
  <2>1. call.rtpMap \in Maps(PayloadTypes, Codecs)
    BY DEF Call
  <2>2. m.rtpMap \in Maps(PayloadTypes, Codecs)
    BY <1>1 DEF SIPInfo
  <2> QED
    BY <2>1, <2>2, MapsIsMap, MergeIsMap
<1>4. /\ CallerEndpoints(call, m) \in SUBSET Endpoints
      /\ CalleeEndpoints(call, m) \in SUBSET Endpoints
      /\ CallerEndpoints(call, m) \cup CalleeEndpoints(call, m)
           = call.callerEndpoints \cup call.calleeEndpoints \cup m.sdp
  BY <1>1 DEF CallerEndpoints, CalleeEndpoints, Call, SIPInfo
<1>5. /\ FinalCode(call, m) \in Nat
      /\ ConnectedAt(call, m, ts) \in Nat
      /\ DisconnectedAt(call, m, ts) \in Nat
  BY <1>1, <1>2 DEF FinalCode, ConnectedAt, DisconnectedAt, Call, SIPInfo
<1>6. /\ FirstUser(call.requestUser, m.requestUser) \in Users \cup {NoUser}
      /\ FirstUser(call.fromUser, m.fromUser) \in Users \cup {NoUser}
  BY <1>1 DEF FirstUser, Call, SIPInfo
<1>7. call.endpoints \cup m.sdp \in SUBSET Endpoints
  BY <1>1 DEF Call, SIPInfo
<1> QED
  BY <1>3, <1>4, <1>5, <1>6, <1>7 DEF Absorb, Call

-----------------------------------------------------------------------------
(* Deliver keeps the invariant when the Call it starts from is the one in  *)
(* the table, or a fresh one whose directory no other Call has.            *)
LEMMA DeliverInv ==
    ASSUME SipInv, NEW m \in SipMsgs, NEW ts \in Times, NEW call \in Call,
           m.callId \in CallIds, ~Rejected(m),
           call.endpoints = call.callerEndpoints \cup call.calleeEndpoints,
           call.endpoints \subseteq DOMAIN endpointMap,
           m.callId \in DOMAIN calls => call = calls[m.callId],
           m.callId \notin DOMAIN calls => call.directory \notin usedDirs,
           usedDirs' = usedDirs \cup {call.directory},
           rejectedIDs' = rejectedIDs,
           Deliver(call, m, ts)
    PROVE  SipInv'
<1> DEFINE id    == m.callId
           after == Absorb(call, m, ts)
           taken == [e \in RoutesTaken(call, m) |-> id]
<1>0. m \in SIPInfo
  BY SipMsgsAssumption
<1>1. /\ after \in Call
      /\ after.directory = call.directory
      /\ after.endpoints = call.endpoints \cup m.sdp
      /\ after.endpoints = after.callerEndpoints \cup after.calleeEndpoints
  BY AbsorbCall
<1> HIDE DEF after
<1>2. /\ calls' = Put(calls, id, after)
      /\ endpointMap' = Merge(endpointMap, taken)
      /\ WriteTrace(call.directory, id)
  BY DEF Deliver, after
<1>3. /\ DOMAIN calls' = DOMAIN calls \cup {id}
      /\ calls'[id] = after
      /\ \A c \in DOMAIN calls : c # id => calls'[c] = calls[c]
  BY <1>2 DEF Put
<1>4. /\ DOMAIN endpointMap' = DOMAIN endpointMap \cup (m.sdp \ call.endpoints)
      /\ \A e \in m.sdp \ call.endpoints : endpointMap'[e] = id
      /\ \A e \in DOMAIN endpointMap :
            e \notin m.sdp \ call.endpoints => endpointMap'[e] = endpointMap[e]
  BY <1>2 DEF Merge, RoutesTaken
<1>5. call.directory \in Names
  BY DEF Call
<1>6. SipTypeOK'
  <2>1. IsMap(calls, CallIds, Call)'
    BY <1>1, <1>2, PutIsMap DEF SipInv, SipTypeOK
  <2>2. IsMap(endpointMap, Endpoints, CallIds)'
    <3>1. IsMap(taken, Endpoints, CallIds)
      BY <1>0 DEF IsMap, RoutesTaken, SIPInfo
    <3>2. IsMap(endpointMap, Endpoints, CallIds)
      BY DEF SipInv, SipTypeOK
    <3> QED
      BY <1>2, <3>1, <3>2, MergeIsMap
  <2>3. usedDirs' \subseteq Names /\ rejectedIDs' \subseteq CallIds
    BY <1>5 DEF SipInv, SipTypeOK
  <2>4. IsMap(traces, Names, SUBSET CallIds)'
    <3>1. IsMap(traces, Names, SUBSET CallIds)
      BY DEF SipInv, SipTypeOK
    <3>2. Lookup(traces, call.directory, {}) \cup {id} \in SUBSET CallIds
      BY <3>1 DEF Lookup, IsMap
    <3> QED
      BY <1>2, <1>5, <3>1, <3>2, PutIsMap DEF WriteTrace
  <2> QED
    BY <2>1, <2>2, <2>3, <2>4 DEF SipTypeOK
<1>7. RoutingAgreement'
  <2>1. RoutedToAnnouncer'
    <3> SUFFICES ASSUME NEW e \in DOMAIN endpointMap'
                 PROVE  /\ endpointMap'[e] \in DOMAIN calls'
                        /\ e \in calls'[endpointMap'[e]].endpoints
      BY DEF RoutedToAnnouncer
    <3>1. CASE e \in m.sdp \ call.endpoints
      BY <1>1, <1>3, <1>4, <3>1
    <3>2. CASE e \notin m.sdp \ call.endpoints
      <4>1. /\ e \in DOMAIN endpointMap
            /\ endpointMap'[e] = endpointMap[e]
            /\ endpointMap[e] \in DOMAIN calls
            /\ e \in calls[endpointMap[e]].endpoints
        BY <1>4, <3>2 DEF SipInv, RoutingAgreement, RoutedToAnnouncer
      <4> QED
        BY <1>1, <1>3, <4>1
    <3> QED
      BY <3>1, <3>2
  <2>2. AnnouncedIsRouted'
    <3> SUFFICES ASSUME NEW c \in DOMAIN calls'
                 PROVE  calls'[c].endpoints \subseteq DOMAIN endpointMap'
      BY DEF AnnouncedIsRouted
    <3>1. CASE c = id
      BY <1>1, <1>3, <1>4, <3>1
    <3>2. CASE c # id
      BY <1>3, <1>4, <3>2 DEF SipInv, RoutingAgreement, AnnouncedIsRouted
    <3> QED
      BY <3>1, <3>2
  <2>3. SidesCoverEndpoints'
    BY <1>1, <1>3 DEF SipInv, RoutingAgreement, SidesCoverEndpoints
  <2> QED
    BY <2>1, <2>2, <2>3 DEF RoutingAgreement
<1>8. DirectoriesDisjoint'
  <2>1. \A c \in DOMAIN calls : c # id => calls[c].directory # call.directory
    BY DEF SipInv, DirectoriesDisjoint
  <2>2. \A c \in DOMAIN calls' : calls'[c].directory \in usedDirs'
    BY <1>1, <1>3 DEF SipInv, DirectoriesDisjoint
  <2>3. \A c, d \in DOMAIN calls' :
          calls'[c].directory = calls'[d].directory => c = d
    BY <1>1, <1>3, <2>1 DEF SipInv, DirectoriesDisjoint
  <2>4. \A c \in DOMAIN calls : calls'[c].directory = calls[c].directory
    BY <1>1, <1>3
  <2>5. \A dir \in DOMAIN traces' : \A c \in traces'[dir] :
          c \in DOMAIN calls' /\ calls'[c].directory = dir
    <3>1. \A dir \in DOMAIN traces : \A c \in traces[dir] :
            c \in DOMAIN calls' /\ calls'[c].directory = dir
      BY <1>3, <2>4 DEF SipInv, DirectoriesDisjoint
    <3>2. CASE UNCHANGED traces
      BY <3>1, <3>2
    <3>3. CASE traces' = Put(traces, call.directory,
                             Lookup(traces, call.directory, {}) \cup {id})
      BY <1>1, <1>3, <3>1, <3>3 DEF Put, Lookup
    <3> QED
      BY <1>2, <3>2, <3>3 DEF WriteTrace
  <2> QED
    BY <2>2, <2>3, <2>5 DEF DirectoriesDisjoint
<1>9. RejectionIsFinal'
  BY <1>3 DEF SipInv, RejectionIsFinal, Rejected
<1> QED
  BY <1>6, <1>7, <1>8, <1>9 DEF SipInv

-----------------------------------------------------------------------------
(* Every way through processSIPPkt keeps the invariant.                    *)
LEMMA SipStep ==
    ASSUME SipInv, NEW m \in SipMsgs, NEW ts \in Times, processSIPPkt(m, ts)
    PROVE  SipInv'
<1>1. CASE IgnoreSip(m)
  BY <1>1 DEF IgnoreSip, sipVars, SipInv, SipTypeOK, RoutingAgreement,
              RoutedToAnnouncer, AnnouncedIsRouted, SidesCoverEndpoints,
              DirectoriesDisjoint, RejectionIsFinal
<1>2. CASE RejectDialog(m)
  <2>1. /\ m.callId \in CallIds \ DOMAIN calls
        /\ rejectedIDs' = rejectedIDs \cup {m.callId}
        /\ UNCHANGED <<calls, endpointMap, usedDirs, traces>>
    BY <1>2 DEF RejectDialog, IsNew
  <2>2. SipTypeOK'
    BY <2>1 DEF SipInv, SipTypeOK
  <2>3. RejectionIsFinal'
    BY <2>1 DEF SipInv, RejectionIsFinal
  <2>4. RoutingAgreement' /\ DirectoriesDisjoint'
    BY <2>1 DEF SipInv, RoutingAgreement, RoutedToAnnouncer,
                AnnouncedIsRouted, SidesCoverEndpoints, DirectoriesDisjoint
  <2> QED
    BY <2>2, <2>3, <2>4 DEF SipInv
<1>3. CASE MkdirFails(m)
  <2>1. PICK n \in FirstFree(m.callId) :
          usedDirs' = usedDirs \cup {Candidate(m.callId, n)}
    BY <1>3 DEF MkdirFails
  <2>2. /\ m.callId \in CallIds
        /\ UNCHANGED <<calls, endpointMap, rejectedIDs, traces>>
    BY <1>3 DEF MkdirFails, IsNew
  <2>3. usedDirs' \subseteq Names
    BY <2>1, <2>2, FreshName DEF SipInv, SipTypeOK
  <2>4. SipTypeOK' /\ RejectionIsFinal'
    BY <2>2, <2>3 DEF SipInv, SipTypeOK, RejectionIsFinal
  <2>5. RoutingAgreement' /\ DirectoriesDisjoint'
    BY <2>1, <2>2 DEF SipInv, RoutingAgreement, RoutedToAnnouncer,
                AnnouncedIsRouted, SidesCoverEndpoints, DirectoriesDisjoint
  <2> QED
    BY <2>4, <2>5 DEF SipInv
<1>4. CASE OpenDialog(m, ts)
  <2>1. PICK n \in FirstFree(m.callId) :
          /\ usedDirs' = usedDirs \cup {Candidate(m.callId, n)}
          /\ Deliver(newCall(m, Candidate(m.callId, n)), m, ts)
    BY <1>4 DEF OpenDialog
  <2>2. /\ m.callId \in CallIds \ DOMAIN calls
        /\ ~Rejected(m)
        /\ rejectedIDs' = rejectedIDs
    BY <1>4 DEF OpenDialog, IsNew
  <2> DEFINE dir == Candidate(m.callId, n)
  <2>3. dir \in Names /\ dir \notin usedDirs
    BY <2>2, FreshName
  <2> HIDE DEF dir
  <2>4. /\ newCall(m, dir) \in Call
        /\ newCall(m, dir).directory = dir
        /\ newCall(m, dir).endpoints = {}
        /\ newCall(m, dir).callerEndpoints = {}
        /\ newCall(m, dir).calleeEndpoints = {}
    BY <2>3, NewCallType
  <2>5. usedDirs' = usedDirs \cup {dir} /\ Deliver(newCall(m, dir), m, ts)
    BY <2>1 DEF dir
  <2> QED
    BY <2>2, <2>3, <2>4, <2>5, DeliverInv
<1>5. CASE UpdateDialog(m, ts)
  <2>1. /\ m.callId \in DOMAIN calls
        /\ ~Rejected(m)
        /\ Deliver(calls[m.callId], m, ts)
        /\ UNCHANGED <<usedDirs, rejectedIDs>>
    BY <1>5 DEF UpdateDialog
  <2>2. calls[m.callId] \in Call /\ m.callId \in CallIds
    BY <2>1 DEF SipInv, SipTypeOK, IsMap
  <2>3. usedDirs' = usedDirs \cup {calls[m.callId].directory}
    BY <2>1 DEF SipInv, DirectoriesDisjoint
  <2>4. /\ calls[m.callId].endpoints \subseteq DOMAIN endpointMap
        /\ calls[m.callId].endpoints
             = calls[m.callId].callerEndpoints \cup calls[m.callId].calleeEndpoints
    BY <2>1 DEF SipInv, RoutingAgreement, AnnouncedIsRouted, SidesCoverEndpoints
  <2> QED
    BY <2>1, <2>2, <2>3, <2>4, DeliverInv
<1> QED
  BY <1>1, <1>2, <1>3, <1>4, <1>5 DEF processSIPPkt

(* An empty table satisfies the invariant.                                 *)
LEMMA SipInitInv == SipInit => SipInv
<1> SUFFICES ASSUME SipInit PROVE SipInv
  OBVIOUS
<1>1. SipTypeOK
  BY DEF SipInit, SipTypeOK, IsMap
<1>2. RoutingAgreement /\ DirectoriesDisjoint /\ RejectionIsFinal
  BY DEF SipInit, RoutingAgreement, RoutedToAnnouncer, AnnouncedIsRouted,
         SidesCoverEndpoints, DirectoriesDisjoint, RejectionIsFinal
<1> QED
  BY <1>1, <1>2 DEF SipInv

(* SipInv holds throughout every run of extractCalls.                      *)
THEOREM SipInvariant == SipSpec => []SipInv
<1>1. SipInv /\ [SipNext]_sipVars => SipInv'
  <2> SUFFICES ASSUME SipInv, [SipNext]_sipVars PROVE SipInv'
    OBVIOUS
  <2>1. CASE SipNext
    BY <2>1, SipStep DEF SipNext
  <2>2. CASE UNCHANGED sipVars
    BY <2>2 DEF sipVars, SipInv, SipTypeOK, RoutingAgreement,
                RoutedToAnnouncer, AnnouncedIsRouted, SidesCoverEndpoints,
                DirectoriesDisjoint, RejectionIsFinal
  <2> QED
    BY <2>1, <2>2
<1> QED
  BY <1>1, SipInitInv, PTL DEF SipSpec

(* The call table is well typed in every run of extractCalls.              *)
THEOREM SipTypeCorrect == SipSpec => []SipTypeOK
<1>1. SipInv => SipTypeOK
  BY DEF SipInv
<1> QED
  BY <1>1, SipInvariant, PTL

(* endpointMap, Call.Endpoints and the two sides of a Call always agree.   *)
THEOREM RoutingAgrees == SipSpec => []RoutingAgreement
<1>1. SipInv => RoutingAgreement
  BY DEF SipInv
<1> QED
  BY <1>1, SipInvariant, PTL

(* safeDirname never gives two dialogs one directory, and a trace holds    *)
(* one dialog only.                                                        *)
THEOREM DirectoriesAreDisjoint == SipSpec => []DirectoriesDisjoint
<1>1. SipInv => DirectoriesDisjoint
  BY DEF SipInv
<1> QED
  BY <1>1, SipInvariant, PTL

(* A Call-ID the method filter rejected stays without a Call.              *)
THEOREM RejectionsAreFinal == SipSpec => []RejectionIsFinal
<1>1. SipInv => RejectionIsFinal
  BY DEF SipInv
<1> QED
  BY <1>1, SipInvariant, PTL

==============================================================================
