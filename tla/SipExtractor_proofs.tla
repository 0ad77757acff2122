------------------------ MODULE SipExtractor_proofs -------------------------
(***************************************************************************)
(* The call table agrees with the dialogs it was built from, step by step  *)
(* and message by message: for every capture, the columns of a row are     *)
(* those of the whole dialog and a route is that of the latest newcomer.   *)
(* And the cache of trace files: order and handles of _SipFileCache never  *)
(* disagree and the number of open files is bounded, for every capacity,   *)
(* number of files and pattern of failures; and it implements TraceLog.    *)
(*                                                                         *)
(* HistInv and CacheInv are inductive.  HistInv adds to SipInv what ties   *)
(* the table to the log: a logged message has its Call, and a Call knows   *)
(* the endpoints its messages announced, which is how RoutesTaken tells a  *)
(* first announcement from a refresh.  CacheInv is more than the bound:    *)
(* that evicting frees a handle needs that the front of order is an open   *)
(* file, and that needs that order lists every open file, each once.       *)
(***************************************************************************)
EXTENDS SipHistory, SipFileCache, SipDialogs_proofs, Arithmetic, SequenceTheorems

LogEntries == [msg : SipMsgs, ts : Times]

LogOfCalls ==
    /\ log \in Seq(LogEntries)
    /\ \A i \in DOMAIN log : log[i].msg.callId \in DOMAIN calls

Announced(c) ==
    {e \in Endpoints : \E i \in DOMAIN log : log[i].msg.callId = c /\ e \in log[i].msg.sdp}

EndpointsAnnounced ==
    \A c \in DOMAIN calls : calls[c].endpoints = Announced(c)

HistInv == SipInv /\ LogOfCalls /\ EndpointsAnnounced /\ RouteIsLatestNewcomer

-----------------------------------------------------------------------------
(* The log while it grows by one entry.                                    *)

(* Positions of the messages of a dialog that are in Q.                    *)
Positions(c, Q) == {i \in DOMAIN log : log[i].msg.callId = c /\ log[i].msg \in Q}

EndsCall(m) == IsBye(m) \/ IsByeFinal(m)

Finals  == {m \in SipMsgs : IsFinal(m)}
Answers == {m \in SipMsgs : IsAnswer(m)}
Ends    == {m \in SipMsgs : EndsCall(m)}
Naming  == {m \in SipMsgs : NamesCaller(m)}

(* The reference definitions speak of sets of messages.                    *)
LEMMA WhereIsPositions ==
    ASSUME log \in Seq(LogEntries), NEW c
    PROVE  /\ Where(c, IsFinal) = Positions(c, Finals)
           /\ Where(c, IsAnswer) = Positions(c, Answers)
           /\ Where(c, EndsCall) = Positions(c, Ends)
           /\ Where(c, NamesCaller) = Positions(c, Naming)
<1>1. \A i \in DOMAIN log : log[i].msg \in SipMsgs
  <2>1. \A i \in DOMAIN log : log[i] \in LogEntries
    OBVIOUS
  <2> QED
    BY <2>1 DEF LogEntries
<1>2. Where(c, IsFinal) = Positions(c, Finals)
  BY <1>1 DEF Where, Positions, Finals
<1>3. Where(c, IsAnswer) = Positions(c, Answers)
  BY <1>1 DEF Where, Positions, Answers
<1>4. Where(c, EndsCall) = Positions(c, Ends)
  BY <1>1 DEF Where, Positions, Ends
<1>5. Where(c, NamesCaller) = Positions(c, Naming)
  BY <1>1 DEF Where, Positions, Naming
<1> QED
  BY <1>2, <1>3, <1>4, <1>5

(* The row of a call, said with the positions.                             *)
RowIs(call, c) ==
    /\ call.finalCode = (IF Positions(c, Finals) = {} THEN 0
                         ELSE log[Max(Positions(c, Finals))].msg.code)
    /\ call.connectedAt = FirstTs(Positions(c, Answers))
    /\ call.disconnectedAt = LastTs(Positions(c, Ends))
    /\ call.fromUser = (IF Positions(c, Naming) = {} THEN NoUser
                        ELSE log[Min(Positions(c, Naming))].msg.fromUser)

(* What processSIPPkt keeps true of the rows in terms of the log: the end  *)
(* of a call is its last BYE or final response to one.                     *)
RowsCurrent == \A c \in DOMAIN calls : RowIs(calls[c], c)

(* Where a log entry is appended, the earlier ones stay and a position is  *)
(* added to the sets the new message belongs to.                           *)
LEMMA LogGrows ==
    ASSUME log \in Seq(LogEntries), NEW m \in SipMsgs, NEW ts \in Times,
           log' = Append(log, [msg |-> m, ts |-> ts])
    PROVE  LET n == Len(log) + 1
           IN  /\ log' \in Seq(LogEntries)
               /\ n \in Nat \ {0} /\ DOMAIN log = 1 .. n - 1 /\ DOMAIN log' = 1 .. n
               /\ log'[n] = [msg |-> m, ts |-> ts]
               /\ \A i \in 1 .. n - 1 : log'[i] = log[i]
               /\ \A c, Q :
                     /\ Positions(c, Q) \in SUBSET (1 .. n - 1)
                     /\ Positions(c, Q)' = IF c = m.callId /\ m \in Q
                                           THEN Positions(c, Q) \cup {n}
                                           ELSE Positions(c, Q)
<1> DEFINE n     == Len(log) + 1
           entry == [msg |-> m, ts |-> ts]
<1>1. entry \in LogEntries
  BY DEF LogEntries
<1>2. /\ log' \in Seq(LogEntries)
      /\ n \in Nat \ {0} /\ DOMAIN log = 1 .. n - 1 /\ DOMAIN log' = 1 .. n
      /\ log'[n] = entry
      /\ \A i \in 1 .. n - 1 : log'[i] = log[i]
  BY <1>1
<1>3. entry.msg = m
  OBVIOUS
<1> HIDE DEF n, entry
<1>4. 1 .. n = (1 .. n - 1) \cup {n} /\ n \notin 1 .. n - 1
  BY <1>2
<1>5. ASSUME NEW c, NEW Q
      PROVE  /\ Positions(c, Q) \in SUBSET (1 .. n - 1)
             /\ Positions(c, Q)' = IF c = m.callId /\ m \in Q
                                   THEN Positions(c, Q) \cup {n}
                                   ELSE Positions(c, Q)
  <2>1. Positions(c, Q)'
          = {i \in 1 .. n : log'[i].msg.callId = c /\ log'[i].msg \in Q}
    BY <1>2 DEF Positions
  <2>2. Positions(c, Q)
          = {i \in 1 .. n - 1 : log[i].msg.callId = c /\ log[i].msg \in Q}
    BY <1>2 DEF Positions
  <2>3. log'[n].msg = m
    BY <1>2, <1>3
  <2> QED
    BY <1>2, <1>4, <2>1, <2>2, <2>3
<1> QED
  BY <1>2, <1>5 DEF n, entry

-----------------------------------------------------------------------------
(* One message that reaches a Call.                                        *)

(* call is the Call the message finds, or the new one; it absorbs it.      *)
Delivered(call, m, ts) ==
    /\ m.callId \in CallIds /\ call \in Call
    /\ IF m.callId \in DOMAIN calls THEN call = calls[m.callId]
       ELSE /\ call.endpoints = {} /\ call.fromUser = m.fromUser
            /\ call.finalCode = 0 /\ call.connectedAt = 0 /\ call.disconnectedAt = 0
    /\ calls' = Put(calls, m.callId, Absorb(call, m, ts))
    /\ endpointMap' = Merge(endpointMap, [e \in RoutesTaken(call, m) |-> m.callId])
    /\ log' = Append(log, [msg |-> m, ts |-> ts])

(* A step of the history leaves the table alone or delivers a message.     *)
LEMMA HistStepCases ==
    ASSUME SipInv, NEW m \in SipMsgs, NEW ts \in Times, processSIPPkt(m, ts),
           log' = IF m.callId \in DOMAIN calls' THEN Append(log, [msg |-> m, ts |-> ts])
                                                ELSE log
    PROVE  \/ UNCHANGED <<calls, endpointMap, log>>
           \/ \E call : Delivered(call, m, ts)
<1>1. DOMAIN calls \subseteq CallIds
  BY DEF SipInv, SipTypeOK, IsMap
<1>2. CASE IgnoreSip(m)
  <2>1. m.callId \notin DOMAIN calls
    BY <1>1, <1>2, SentinelAssumption DEF IgnoreSip, Rejected, SipInv, RejectionIsFinal
  <2> QED
    BY <1>2, <2>1 DEF IgnoreSip, sipVars
<1>3. CASE RejectDialog(m) \/ MkdirFails(m)
  BY <1>3 DEF RejectDialog, MkdirFails, IsNew
<1>4. CASE OpenDialog(m, ts)
  <2>1. PICK n \in FirstFree(m.callId) : Deliver(newCall(m, Candidate(m.callId, n)), m, ts)
    BY <1>4 DEF OpenDialog
  <2>2. m.callId \in CallIds \ DOMAIN calls
    BY <1>4 DEF OpenDialog, IsNew
  <2> DEFINE dir == Candidate(m.callId, n)
  <2>3. dir \in Names
    BY <2>2, FreshName
  <2>4. Deliver(newCall(m, dir), m, ts)
    BY <2>1
  <2> HIDE DEF dir
  <2>5. newCall(m, dir) \in Call /\ newCall(m, dir).endpoints = {}
    BY <2>3, NewCallType
  <2>6. /\ newCall(m, dir).fromUser = m.fromUser
        /\ newCall(m, dir).finalCode = 0
        /\ newCall(m, dir).connectedAt = 0 /\ newCall(m, dir).disconnectedAt = 0
    BY DEF newCall
  <2>7. m.callId \in DOMAIN calls'
    BY <2>4 DEF Deliver, Put
  <2>8. Delivered(newCall(m, dir), m, ts)
    BY <2>2, <2>4, <2>5, <2>6, <2>7 DEF Delivered, Deliver
  <2> QED
    BY <2>8
<1>5. CASE UpdateDialog(m, ts)
  <2>1. /\ m.callId \in DOMAIN calls
        /\ Deliver(calls[m.callId], m, ts)
    BY <1>5 DEF UpdateDialog
  <2>2. calls[m.callId] \in Call
    BY <2>1 DEF SipInv, SipTypeOK, IsMap
  <2>3. m.callId \in DOMAIN calls'
    BY <2>1 DEF Deliver, Put
  <2>4. Delivered(calls[m.callId], m, ts)
    BY <1>1, <2>1, <2>2, <2>3 DEF Delivered, Deliver
  <2> QED
    BY <2>4
<1> QED
  BY <1>2, <1>3, <1>4, <1>5 DEF processSIPPkt

(* After a delivery every logged message has its Call, and every Call the  *)
(* endpoints its messages announced.                                       *)
LEMMA AnnouncedStep ==
    ASSUME HistInv, NEW m \in SipMsgs, NEW ts \in Times, NEW call,
           Delivered(call, m, ts)
    PROVE  LogOfCalls' /\ EndpointsAnnounced'
<1> DEFINE n  == Len(log) + 1
           id == m.callId
<1>1. /\ log' \in Seq(LogEntries)
      /\ n \in Nat \ {0} /\ DOMAIN log = 1 .. n - 1 /\ DOMAIN log' = 1 .. n
      /\ log'[n].msg = m
      /\ \A i \in 1 .. n - 1 : log'[i] = log[i]
  BY LogGrows DEF HistInv, LogOfCalls, Delivered
<1> HIDE DEF n
<1>2. /\ DOMAIN calls' = DOMAIN calls \cup {id}
      /\ calls'[id] = Absorb(call, m, ts)
      /\ \A c \in DOMAIN calls : c # id => calls'[c] = calls[c]
  BY DEF Delivered, Put
<1>3. 1 .. n = (1 .. n - 1) \cup {n}
  BY <1>1
<1>4. LogOfCalls'
  BY <1>1, <1>2, <1>3 DEF HistInv, LogOfCalls
<1>5. \A c : Announced(c)' = IF c = id THEN Announced(c) \cup (m.sdp \cap Endpoints)
                                       ELSE Announced(c)
  BY <1>1, <1>3 DEF Announced
<1>6. m.sdp \subseteq Endpoints
  BY SipMsgsAssumption DEF SIPInfo
<1>7. Absorb(call, m, ts).endpoints = call.endpoints \cup m.sdp
  BY AbsorbCall DEF Delivered
<1>8. call.endpoints = Announced(id)
  <2>1. CASE id \in DOMAIN calls
    BY <2>1 DEF HistInv, EndpointsAnnounced, Delivered
  <2>2. CASE id \notin DOMAIN calls
    BY <2>2 DEF HistInv, LogOfCalls, Announced, Delivered
  <2> QED
    BY <2>1, <2>2
<1>9. EndpointsAnnounced'
  BY <1>2, <1>5, <1>6, <1>7, <1>8 DEF HistInv, EndpointsAnnounced
<1> QED
  BY <1>4, <1>9

(* The timestamp of the first and of the last position, when a position is *)
(* added and when none is.                                                 *)
LEMMA TimestampsGrow ==
    ASSUME log \in Seq(LogEntries), NEW m \in SipMsgs, NEW ts \in Times,
           log' = Append(log, [msg |-> m, ts |-> ts]),
           NEW S, S \in SUBSET DOMAIN log
    PROVE  LET n == Len(log) + 1
           IN  /\ S # {} => Min(S) \in DOMAIN log /\ Max(S) \in DOMAIN log
               /\ S # {} => log'[Min(S)] = log[Min(S)] /\ log'[Max(S)] = log[Max(S)]
               /\ log'[Max(S \cup {n})] = [msg |-> m, ts |-> ts]
               /\ log'[Min(S \cup {n})] = IF S = {} THEN [msg |-> m, ts |-> ts]
                                                    ELSE log[Min(S)]
<1> DEFINE n     == Len(log) + 1
           entry == [msg |-> m, ts |-> ts]
<1>1. /\ n \in Nat \ {0} /\ DOMAIN log = 1 .. n - 1 /\ log'[n] = entry
      /\ \A i \in 1 .. n - 1 : log'[i] = log[i]
  BY LogGrows
<1> HIDE DEF n, entry
<1>2. ASSUME S # {}
      PROVE  Min(S) \in DOMAIN log /\ Max(S) \in DOMAIN log
  <2>1. S \in SUBSET Nat /\ S \in SUBSET (0 .. n - 1) /\ n - 1 \in Nat
    BY <1>1
  <2>2. PICK l \in S : \A k \in S : l <= k
    BY <1>2, <2>1, LeastElement
  <2>3. PICK g \in S : \A k \in S : g >= k
    BY <1>2, <2>1, GreatestElement
  <2>4. Min(S) = l /\ Max(S) = g
    BY <2>1, <2>2, <2>3, MinIsLeast, MaxIsGreatest
  <2> QED
    BY <2>4
<1>3. Max(S \cup {n}) = n /\ Min(S \cup {n}) = IF S = {} THEN n ELSE Min(S)
  <2>1. S \in SUBSET Nat /\ n \in Nat /\ \A k \in S : k < n
    BY <1>1
  <2> QED
    BY <2>1, NewGreatest
<1>4. S # {} => log'[Min(S)] = log[Min(S)] /\ log'[Max(S)] = log[Max(S)]
  BY <1>1, <1>2
<1>5. log'[Max(S \cup {n})] = entry
  BY <1>1, <1>3
<1>6. log'[Min(S \cup {n})] = IF S = {} THEN entry ELSE log[Min(S)]
  BY <1>1, <1>3, <1>4
<1> QED
  BY <1>2, <1>4, <1>5, <1>6 DEF n, entry

(* The row of the Call that absorbs a message is that of the longer log:   *)
(* 0 means "not seen yet", so no packet is captured at second 0.           *)
LEMMA AbsorbRow ==
    ASSUME 0 \notin Times, HistInv, RowsCurrent, NEW m \in SipMsgs, NEW ts \in Times, NEW call,
           Delivered(call, m, ts)
    PROVE  RowIs(Absorb(call, m, ts), m.callId)'
<1> DEFINE n     == Len(log) + 1
           id    == m.callId
           entry == [msg |-> m, ts |-> ts]
           after == Absorb(call, m, ts)
           F == Positions(id, Finals)
           A == Positions(id, Answers)
           E == Positions(id, Ends)
           N == Positions(id, Naming)
<1>1. /\ log \in Seq(LogEntries) /\ log' = Append(log, entry)
  BY DEF HistInv, LogOfCalls, Delivered
<1>2. /\ n \in Nat \ {0} /\ DOMAIN log = 1 .. n - 1 /\ log'[n] = entry
      /\ \A Q : /\ Positions(id, Q) \in SUBSET DOMAIN log
                /\ Positions(id, Q)' = IF m \in Q THEN Positions(id, Q) \cup {n}
                                                 ELSE Positions(id, Q)
  BY <1>1, LogGrows
<1>3. \A S \in SUBSET DOMAIN log :
        /\ S # {} => Min(S) \in DOMAIN log
        /\ S # {} => log'[Min(S)] = log[Min(S)] /\ log'[Max(S)] = log[Max(S)]
        /\ log'[Max(S \cup {n})] = entry
        /\ log'[Min(S \cup {n})] = IF S = {} THEN entry ELSE log[Min(S)]
  BY <1>1, TimestampsGrow
<1>4. entry.msg = m /\ entry.ts = ts
  OBVIOUS
<1>5. /\ after.finalCode = FinalCode(call, m)
      /\ after.connectedAt = ConnectedAt(call, m, ts)
      /\ after.disconnectedAt = DisconnectedAt(call, m, ts)
      /\ after.fromUser = FirstUser(call.fromUser, m.fromUser)
  BY DEF Absorb, Delivered, Call
<1> HIDE DEF n, entry, after
<1>6. IF id \in DOMAIN calls THEN RowIs(call, id)
      ELSE /\ call.fromUser = m.fromUser /\ call.finalCode = 0
           /\ call.connectedAt = 0 /\ call.disconnectedAt = 0
           /\ F = {} /\ A = {} /\ E = {} /\ N = {}
  <2>1. CASE id \in DOMAIN calls
    BY <2>1 DEF Delivered, RowsCurrent
  <2>2. CASE id \notin DOMAIN calls
    BY <2>2 DEF HistInv, LogOfCalls, Positions, Delivered
  <2> QED
    BY <2>1, <2>2
<1>7. /\ m \in Finals <=> IsFinal(m)
      /\ m \in Answers <=> IsAnswer(m)
      /\ m \in Ends <=> EndsCall(m)
      /\ m \in Naming <=> NamesCaller(m)
  BY DEF Finals, Answers, Ends, Naming
<1>8. /\ F \in SUBSET DOMAIN log /\ F' = IF IsFinal(m) THEN F \cup {n} ELSE F
      /\ A \in SUBSET DOMAIN log /\ A' = IF IsAnswer(m) THEN A \cup {n} ELSE A
      /\ E \in SUBSET DOMAIN log /\ E' = IF EndsCall(m) THEN E \cup {n} ELSE E
      /\ N \in SUBSET DOMAIN log /\ N' = IF NamesCaller(m) THEN N \cup {n} ELSE N
  BY <1>2, <1>7
<1>9. A # {} => log[Min(A)].ts \in Times
  <2>1. \A i \in DOMAIN log : log[i] \in LogEntries
    BY <1>1
  <2> QED
    BY <1>3, <1>8, <2>1 DEF LogEntries
<1>10. N # {} => log[Min(N)].msg.fromUser # NoUser
  <2>1. ASSUME N # {} PROVE Min(N) \in N
    <3>1. N \in SUBSET Nat
      BY <1>2
    <3>2. PICK l \in N : \A k \in N : l <= k
      BY <2>1, <3>1, LeastElement
    <3> QED
      BY <3>1, <3>2, MinIsLeast
  <2> QED
    BY <2>1 DEF Positions, Naming, NamesCaller
<1>11. /\ call.finalCode = IF F = {} THEN 0 ELSE log[Max(F)].msg.code
       /\ call.connectedAt = IF A = {} THEN 0 ELSE log[Min(A)].ts
       /\ call.disconnectedAt = IF E = {} THEN 0 ELSE log[Max(E)].ts
       /\ \/ call.fromUser = IF N = {} THEN NoUser ELSE log[Min(N)].msg.fromUser
          \/ N = {} /\ call.fromUser = m.fromUser
  BY <1>6 DEF RowIs, FirstTs, LastTs
<1> HIDE DEF F, A, E, N
<1>12. after.finalCode = IF F' = {} THEN 0 ELSE log'[Max(F')].msg.code
  <2>1. CASE IsFinal(m)
    <3>1. F' = F \cup {n} /\ log'[Max(F \cup {n})].msg.code = m.code
      BY <1>3, <1>4, <1>8, <2>1
    <3> QED
      BY <1>5, <2>1, <3>1 DEF FinalCode
  <2>2. CASE ~IsFinal(m)
    <3>1. F' = F /\ (F # {} => log'[Max(F)] = log[Max(F)])
      BY <1>3, <1>8, <2>2
    <3> QED
      BY <1>5, <1>11, <2>2, <3>1 DEF FinalCode
  <2> QED
    BY <2>1, <2>2
<1>13. after.connectedAt = IF A' = {} THEN 0 ELSE log'[Min(A')].ts
  <2>1. CASE IsAnswer(m)
    <3>1. A' = A \cup {n} /\ log'[Min(A \cup {n})].ts = IF A = {} THEN ts ELSE log[Min(A)].ts
      BY <1>3, <1>4, <1>8, <2>1
    <3>2. A = {} <=> call.connectedAt = 0
      BY <1>9, <1>11
    <3> QED
      BY <1>5, <1>11, <2>1, <3>1, <3>2 DEF ConnectedAt, IsAnswer
  <2>2. CASE ~IsAnswer(m)
    <3>1. A' = A /\ (A # {} => log'[Min(A)] = log[Min(A)])
      BY <1>3, <1>8, <2>2
    <3> QED
      BY <1>5, <1>11, <2>2, <3>1 DEF ConnectedAt, IsAnswer
  <2> QED
    BY <2>1, <2>2
<1>14. after.disconnectedAt = IF E' = {} THEN 0 ELSE log'[Max(E')].ts
  <2>1. EndsCall(m) <=> m.method = "BYE" \/ (IsFinal(m) /\ m.cseq = "BYE")
    BY DEF EndsCall, IsBye, IsByeFinal
  <2>2. CASE EndsCall(m)
    <3>1. E' = E \cup {n} /\ log'[Max(E \cup {n})].ts = ts
      BY <1>3, <1>4, <1>8, <2>2
    <3> QED
      BY <1>5, <2>1, <2>2, <3>1 DEF DisconnectedAt
  <2>3. CASE ~EndsCall(m)
    <3>1. E' = E /\ (E # {} => log'[Max(E)] = log[Max(E)])
      BY <1>3, <1>8, <2>3
    <3> QED
      BY <1>5, <1>11, <2>1, <2>3, <3>1 DEF DisconnectedAt
  <2> QED
    BY <2>2, <2>3
<1>15. after.fromUser = IF N' = {} THEN NoUser ELSE log'[Min(N')].msg.fromUser
  <2>1. CASE NamesCaller(m)
    <3>1. /\ N' = N \cup {n}
          /\ log'[Min(N \cup {n})].msg.fromUser
               = IF N = {} THEN m.fromUser ELSE log[Min(N)].msg.fromUser
      BY <1>3, <1>4, <1>8, <2>1
    <3> QED
      BY <1>5, <1>10, <1>11, <2>1, <3>1 DEF FirstUser, NamesCaller
  <2>2. CASE ~NamesCaller(m)
    <3>1. N' = N /\ (N # {} => log'[Min(N)] = log[Min(N)])
      BY <1>3, <1>8, <2>2
    <3> QED
      BY <1>5, <1>10, <1>11, <2>2, <3>1 DEF FirstUser, NamesCaller
  <2> QED
    BY <2>1, <2>2
<1>16. /\ F' = Positions(id, Finals)' /\ A' = Positions(id, Answers)'
       /\ E' = Positions(id, Ends)' /\ N' = Positions(id, Naming)'
  BY DEF F, A, E, N
<1>17. after' = after
  BY DEF after
<1> QED
  BY <1>12, <1>13, <1>14, <1>15, <1>16, <1>17 DEF RowIs, FirstTs, LastTs, after

(* The rows of the other Calls do not change with the log.                 *)
LEMMA RowStep ==
    ASSUME 0 \notin Times, HistInv, RowsCurrent, NEW m \in SipMsgs, NEW ts \in Times, NEW call,
           Delivered(call, m, ts)
    PROVE  RowsCurrent'
<1> DEFINE n  == Len(log) + 1
           id == m.callId
<1>1. log \in Seq(LogEntries) /\ log' \in Seq(LogEntries)
      /\ log' = Append(log, [msg |-> m, ts |-> ts])
  BY LogGrows DEF HistInv, LogOfCalls, Delivered
<1>2. /\ DOMAIN calls' = DOMAIN calls \cup {id}
      /\ calls'[id] = Absorb(call, m, ts)
      /\ \A c \in DOMAIN calls : c # id => calls'[c] = calls[c]
  BY DEF Delivered, Put
<1>3. RowIs(calls[id], id)'
  <2>1. RowIs(Absorb(call, m, ts), id)'
    BY AbsorbRow
  <2> QED
    BY <1>2, <2>1 DEF RowIs
<1>4. ASSUME NEW c \in DOMAIN calls, c # id
      PROVE  RowIs(calls[c], c)'
  <2>1. RowIs(calls[c], c)
    BY DEF RowsCurrent
  <2>2. \A Q : Positions(c, Q)' = Positions(c, Q) /\ Positions(c, Q) \in SUBSET DOMAIN log
    BY <1>1, <1>4, LogGrows
  <2>3. \A Q : Positions(c, Q) # {} =>
          /\ log'[Min(Positions(c, Q))] = log[Min(Positions(c, Q))]
          /\ log'[Max(Positions(c, Q))] = log[Max(Positions(c, Q))]
    BY <1>1, <2>2, TimestampsGrow
  <2>4. calls'[c] = calls[c]
    BY <1>2, <1>4
  <2> QED
    BY <2>1, <2>2, <2>3, <2>4 DEF RowIs, FirstTs, LastTs
<1>5. \A c \in DOMAIN calls' : RowIs(calls[c], c)'
  BY <1>2, <1>3, <1>4
<1>6. (\A c \in DOMAIN calls : RowIs(calls[c], c))'
  BY <1>5
<1> QED
  BY <1>6 DEF RowsCurrent

(* The delivered message takes the route of the endpoints it is the first  *)
(* to announce in its dialog, and of no other.                             *)
LEMMA RouteStep ==
    ASSUME HistInv, NEW m \in SipMsgs, NEW ts \in Times, NEW call,
           Delivered(call, m, ts)
    PROVE  RouteIsLatestNewcomer'
<1> DEFINE n  == Len(log) + 1
           id == m.callId
           taken == m.sdp \ call.endpoints
<1>1. log \in Seq(LogEntries) /\ log' = Append(log, [msg |-> m, ts |-> ts])
  BY DEF HistInv, LogOfCalls, Delivered
<1>2. /\ n \in Nat \ {0} /\ DOMAIN log = 1 .. n - 1 /\ DOMAIN log' = 1 .. n
      /\ log'[n].msg = m
      /\ \A i \in 1 .. n - 1 : log'[i] = log[i]
  BY <1>1, LogGrows
<1> HIDE DEF n
<1>3. 1 .. n = (1 .. n - 1) \cup {n} /\ n \notin 1 .. n - 1
      /\ \A i \in 1 .. n - 1 : 1 .. i - 1 \subseteq 1 .. n - 1
  BY <1>2
<1>4. call.endpoints = Announced(id)
  <2>1. CASE id \in DOMAIN calls
    BY <2>1 DEF HistInv, EndpointsAnnounced, Delivered
  <2>2. CASE id \notin DOMAIN calls
    BY <2>2 DEF HistInv, LogOfCalls, Announced, Delivered
  <2> QED
    BY <2>1, <2>2
<1>5. /\ DOMAIN endpointMap' = DOMAIN endpointMap \cup taken
      /\ \A e \in taken : endpointMap'[e] = id
      /\ \A e \in DOMAIN endpointMap \ taken : endpointMap'[e] = endpointMap[e]
  BY DEF Delivered, Merge, RoutesTaken
<1> SUFFICES ASSUME NEW e \in Endpoints
             PROVE  LET first == FirstAnnouncements(e)'
                    IN  IF first = {} THEN e \notin DOMAIN endpointMap'
                        ELSE /\ e \in DOMAIN endpointMap'
                             /\ endpointMap'[e] = log'[Max(first)].msg.callId
  BY DEF RouteIsLatestNewcomer
<1> DEFINE first == FirstAnnouncements(e)
<1>6. e \in call.endpoints <=> \E j \in 1 .. n - 1 : log[j].msg.callId = id /\ e \in log[j].msg.sdp
  BY <1>2, <1>4 DEF Announced
<1>7. first' = IF e \in taken THEN first \cup {n} ELSE first
  <2>1. first = {i \in 1 .. n - 1 :
          /\ e \in log[i].msg.sdp
          /\ \A j \in 1 .. i - 1 :
                log[j].msg.callId = log[i].msg.callId => e \notin log[j].msg.sdp}
    BY <1>2 DEF FirstAnnouncements
  <2>2. first' = {i \in 1 .. n :
          /\ e \in log'[i].msg.sdp
          /\ \A j \in 1 .. i - 1 :
                log'[j].msg.callId = log'[i].msg.callId => e \notin log'[j].msg.sdp}
    BY <1>2 DEF FirstAnnouncements
  <2>3. \A i \in 1 .. n - 1 : i \in first' <=> i \in first
    BY <1>2, <1>3, <2>1, <2>2
  <2>4. n \in first' <=> e \in taken
    BY <1>2, <1>3, <1>6, <2>2
  <2> QED
    BY <1>3, <2>1, <2>2, <2>3, <2>4
<1>8. first \in SUBSET DOMAIN log
  BY DEF FirstAnnouncements
<1>9. /\ first # {} => Max(first) \in DOMAIN log /\ log'[Max(first)] = log[Max(first)]
      /\ log'[Max(first \cup {n})] = [msg |-> m, ts |-> ts]
  BY <1>1, <1>8, TimestampsGrow DEF n
<1>10. IF first = {} THEN e \notin DOMAIN endpointMap
       ELSE e \in DOMAIN endpointMap /\ endpointMap[e] = log[Max(first)].msg.callId
  BY DEF HistInv, RouteIsLatestNewcomer
<1> HIDE DEF first
<1>11. IF first' = {} THEN e \notin DOMAIN endpointMap'
       ELSE e \in DOMAIN endpointMap' /\ endpointMap'[e] = log'[Max(first')].msg.callId
  <2>1. CASE e \in taken
    BY <1>5, <1>7, <1>9, <2>1
  <2>2. CASE e \notin taken
    BY <1>5, <1>7, <1>9, <1>10, <2>2
  <2> QED
    BY <2>1, <2>2
<1> QED
  BY <1>11 DEF first

-----------------------------------------------------------------------------
(* Every step of the history keeps the invariant.                          *)
LEMMA HistStep ==
    ASSUME HistInv, [HistNext]_histVars
    PROVE  HistInv' /\ (0 \notin Times /\ RowsCurrent => RowsCurrent')
<1>1. CASE UNCHANGED <<calls, endpointMap, log>> /\ SipInv'
  <2>1. LogOfCalls' /\ EndpointsAnnounced'
    BY <1>1 DEF HistInv, LogOfCalls, EndpointsAnnounced, Announced
  <2>2. RowsCurrent => RowsCurrent'
    <3>1. \A c, Q : Positions(c, Q)' = Positions(c, Q)
      BY <1>1 DEF Positions
    <3>2. \A c \in DOMAIN calls : RowIs(calls[c], c) => RowIs(calls[c], c)'
      BY <1>1, <3>1 DEF RowIs, FirstTs, LastTs
    <3>3. (\A c \in DOMAIN calls : RowIs(calls[c], c))
            => (\A c \in DOMAIN calls : RowIs(calls[c], c))'
      BY <1>1, <3>2
    <3> QED
      BY <3>3 DEF RowsCurrent
  <2>3. RouteIsLatestNewcomer'
    BY <1>1 DEF HistInv, RouteIsLatestNewcomer, FirstAnnouncements
  <2> QED
    BY <1>1, <2>1, <2>2, <2>3 DEF HistInv
<1>2. CASE HistNext
  <2>1. PICK m \in SipMsgs, ts \in Times :
          /\ processSIPPkt(m, ts)
          /\ log' = IF m.callId \in DOMAIN calls' THEN Append(log, [msg |-> m, ts |-> ts])
                                                  ELSE log
    BY <1>2 DEF HistNext
  <2>2. SipInv'
    BY <2>1, SipStep DEF HistInv
  <2>3. ASSUME NEW call, Delivered(call, m, ts)
        PROVE  HistInv' /\ (0 \notin Times /\ RowsCurrent => RowsCurrent')
    BY <2>2, <2>3, AnnouncedStep, RowStep, RouteStep DEF HistInv
  <2> QED
    BY <1>1, <2>1, <2>2, <2>3, HistStepCases DEF HistInv
<1>3. CASE UNCHANGED histVars
  <2>1. SipInv'
    BY <1>3 DEF histVars, sipVars, HistInv, SipInv, SipTypeOK, RoutingAgreement,
                RoutedToAnnouncer, AnnouncedIsRouted, SidesCoverEndpoints,
                DirectoriesDisjoint, RejectionIsFinal
  <2> QED
    BY <1>1, <1>3, <2>1 DEF histVars, sipVars
<1> QED
  BY <1>2, <1>3

(* The empty log agrees with the empty table.                              *)
LEMMA HistInitInv == HistInit => HistInv /\ RowsCurrent
<1> SUFFICES ASSUME HistInit PROVE HistInv /\ RowsCurrent
  OBVIOUS
<1>1. SipInv
  BY SipInitInv DEF HistInit
<1>2. calls = << >> /\ endpointMap = << >> /\ log = << >>
  BY DEF HistInit, SipInit
<1>3. LogOfCalls /\ EndpointsAnnounced /\ RowsCurrent
  BY <1>2 DEF LogOfCalls, EndpointsAnnounced, RowsCurrent
<1>4. RouteIsLatestNewcomer
  BY <1>2 DEF RouteIsLatestNewcomer, FirstAnnouncements
<1> QED
  BY <1>1, <1>3, <1>4 DEF HistInv

(* The log and the table always agree.                                     *)
THEOREM HistInvariant == HistSpec => []HistInv
<1>1. HistInv /\ [HistNext]_histVars => HistInv'
  BY HistStep
<1> QED
  BY <1>1, HistInitInv, PTL DEF HistSpec

(* The log observes the table and does not get in its way: every theorem   *)
(* about SipDialogs holds of it as well.                                   *)
THEOREM HistoryImplementsTable == HistSpec => SipSpec
<1>1. HistInit => SipInit
  BY DEF HistInit
<1>2. [HistNext]_histVars => [SipNext]_sipVars
  BY DEF HistNext, histVars, SipNext
<1> QED
  BY <1>1, <1>2, PTL DEF HistSpec, SipSpec

(* An endpoint is routed to the dialog that was the last to announce it    *)
(* for the first time, however many dialogs reuse and refresh it.          *)
THEOREM RoutesAreLatestNewcomers == HistSpec => []RouteIsLatestNewcomer
<1>1. HistInv => RouteIsLatestNewcomer
  BY DEF HistInv
<1> QED
  BY <1>1, HistInvariant, PTL

(* Where no BYE was read behind the responses to one, the last message     *)
(* that ends a call is a response, if there is any.                        *)
LEMMA RowsCurrentSuffice ==
    ASSUME HistInv, RowsCurrent
    PROVE  RowMatchesCapture
<1> SUFFICES ASSUME NEW c \in DOMAIN calls, ~ByeReadLast(c)
             PROVE  LastTs(Positions(c, Ends))
                      = IF Where(c, IsByeFinal) = {} THEN LastTs(Where(c, IsBye))
                                                     ELSE LastTs(Where(c, IsByeFinal))
  <2>1. log \in Seq(LogEntries) /\ \A c \in DOMAIN calls : RowIs(calls[c], c)
    BY DEF RowsCurrent, HistInv, LogOfCalls
  <2> QED
    BY <2>1, WhereIsPositions DEF RowIs, RowMatchesCapture
<1>1. PICK E, B, R : E = Positions(c, Ends) /\ B = Where(c, IsBye) /\ R = Where(c, IsByeFinal)
  OBVIOUS
<1>2. log \in Seq(LogEntries)
  BY DEF HistInv, LogOfCalls
<1>3. E = B \cup R
  <2>1. E = Where(c, EndsCall)
    BY <1>1, <1>2, WhereIsPositions
  <2> QED
    BY <1>1, <2>1 DEF Where, EndsCall
<1>4. B \in SUBSET (1 .. Len(log)) /\ R \in SUBSET (1 .. Len(log)) /\ Len(log) \in Nat
  BY <1>1, <1>2 DEF Where
<1>5. CASE R = {}
  BY <1>1, <1>3, <1>5
<1>6. CASE R # {}
  <2>1. \A i \in B : \E j \in R : i <= j
    BY <1>1, <1>4, <1>6 DEF ByeReadLast
  <2>2. PICK g \in R : \A k \in R : g >= k
    <3>1. R \in SUBSET Nat /\ R \in SUBSET (0 .. Len(log))
      BY <1>4
    <3> QED
      BY <1>4, <1>6, <3>1, GreatestElement
  <2>3. g \in E /\ \A k \in E : g >= k
    BY <1>3, <1>4, <2>1, <2>2
  <2>4. E \in SUBSET Nat /\ R \in SUBSET Nat
    BY <1>3, <1>4
  <2>5. Max(E) = g /\ Max(R) = g
    BY <2>2, <2>3, <2>4, MaxIsGreatest
  <2> QED
    BY <1>1, <1>6, <2>3, <2>5 DEF LastTs
<1> QED
  BY <1>5, <1>6

(* The columns of index.csv that are copied from a Call are those of the   *)
(* whole dialog, whatever was lost, retransmitted or reordered: in every   *)
(* capture without a packet at second 0, which the Call takes for "not     *)
(* seen".  The end of a call is left open where a BYE was read behind the  *)
(* responses to one.                                                       *)
THEOREM RowsMatchCaptures ==
    ASSUME 0 \notin Times
    PROVE  HistSpec => []RowMatchesCapture
<1>1. HistInv /\ RowsCurrent /\ [HistNext]_histVars
        => (HistInv /\ RowsCurrent)'
  BY HistStep
<1>2. HistInv /\ RowsCurrent => RowMatchesCapture
  BY RowsCurrentSuffice
<1> QED
  BY <1>1, <1>2, HistInitInv, PTL DEF HistSpec

-----------------------------------------------------------------------------
(* SipFileCache.                                                           *)

(* The open files are those of the handles, each on the path it is cached  *)
(* for, and every one of them was created.                                 *)
HandlesLead ==
    /\ DOMAIN osFiles = {handles[p] : p \in DOMAIN handles}
    /\ \A p \in DOMAIN handles : osFiles[handles[p]] = p /\ p \in DOMAIN files
    /\ closed => DOMAIN handles = {}

CacheInv ==
    /\ TypeOK
    /\ OrderListsHandles
    /\ HandlesLead
    /\ IsFiniteSet(DOMAIN handles)
    /\ Cardinality(DOMAIN handles) <= sipFileCacheMax

-----------------------------------------------------------------------------
(* What is left of order and handles after an eviction that may be due.    *)
LEMMA AfterEviction ==
    ASSUME CacheInv
    PROVE  /\ Waiting \in Seq(Paths)
           /\ DOMAIN Kept = {Waiting[i] : i \in 1 .. Len(Waiting)}
           /\ \A i, j \in 1 .. Len(Waiting) : Waiting[i] = Waiting[j] => i = j
           /\ DOMAIN Kept \subseteq DOMAIN handles
           /\ IsFiniteSet(DOMAIN Kept)
           /\ Cardinality(DOMAIN Kept) + 1 <= sipFileCacheMax
<1>1. /\ order \in Seq(Paths)
      /\ DOMAIN handles = {order[i] : i \in 1 .. Len(order)}
      /\ \A i, j \in 1 .. Len(order) : order[i] = order[j] => i = j
  BY DEF CacheInv, TypeOK, OrderListsHandles
<1>2. /\ Cardinality(DOMAIN handles) \in Nat
      /\ Cardinality(DOMAIN handles) <= sipFileCacheMax
      /\ sipFileCacheMax \in Nat \ {0}
  BY FS_CardinalityType, CacheAssumption DEF CacheInv
<1>3. CASE ~Full
  BY <1>1, <1>2, <1>3 DEF Full, Kept, Waiting, CacheInv
<1>4. CASE Full
  <2>1. DOMAIN handles # {}
    BY <1>2, <1>4, FS_EmptySet DEF Full
  <2>2. order # << >>
    BY <1>1, <2>1
  <2>3. /\ Head(order) = order[1]
        /\ Tail(order) \in Seq(Paths)
        /\ Len(Tail(order)) = Len(order) - 1
        /\ \A i \in 1 .. Len(order) - 1 : Tail(order)[i] = order[i + 1]
        /\ Len(order) \in Nat \ {0}
    BY <1>1, <2>2
  <2>4. Waiting = Tail(order) /\ DOMAIN Kept = DOMAIN handles \ {order[1]}
    BY <1>4, <2>3 DEF Waiting, Kept, Without
  <2>5. \A i, j \in 1 .. Len(Waiting) : Waiting[i] = Waiting[j] => i = j
    <3> SUFFICES ASSUME NEW i \in 1 .. Len(order) - 1,
                        NEW j \in 1 .. Len(order) - 1,
                        order[i + 1] = order[j + 1]
                 PROVE  i = j
      BY <2>3, <2>4
    <3>1. i + 1 \in 1 .. Len(order) /\ j + 1 \in 1 .. Len(order)
      BY <2>3
    <3>2. i + 1 = j + 1
      BY <1>1, <3>1
    <3> QED
      BY <3>2
  <2>6. DOMAIN Kept = {Waiting[i] : i \in 1 .. Len(Waiting)}
    <3>1. ASSUME NEW x \in DOMAIN Kept PROVE \E i \in 1 .. Len(Waiting) : x = Waiting[i]
      <4>1. PICK k \in 1 .. Len(order) : x = order[k]
        BY <1>1, <2>4
      <4>2. k # 1 /\ k - 1 \in 1 .. Len(order) - 1 /\ (k - 1) + 1 = k
        BY <2>3, <2>4, <4>1
      <4>3. Tail(order)[k - 1] = order[k]
        BY <2>3, <4>2
      <4> QED
        BY <2>3, <2>4, <4>1, <4>2, <4>3
    <3>2. ASSUME NEW i \in 1 .. Len(Waiting) PROVE Waiting[i] \in DOMAIN Kept
      <4>1. i + 1 \in 1 .. Len(order) /\ 1 \in 1 .. Len(order) /\ i + 1 # 1
        BY <2>3, <2>4
      <4>2. Waiting[i] = order[i + 1]
        BY <2>3, <2>4
      <4>3. order[i + 1] # order[1]
        BY <1>1, <4>1
      <4> QED
        BY <1>1, <2>4, <4>1, <4>2, <4>3
    <3> QED
      BY <3>1, <3>2
  <2>7. /\ IsFiniteSet(DOMAIN handles \ {order[1]})
        /\ Cardinality(DOMAIN handles \ {order[1]}) = Cardinality(DOMAIN handles) - 1
    <3>1. order[1] \in DOMAIN handles
      BY <1>1, <2>3
    <3> QED
      BY <3>1, FS_RemoveElement DEF CacheInv
  <2>8. Waiting \in Seq(Paths) /\ DOMAIN Kept \subseteq DOMAIN handles
    BY <2>3, <2>4
  <2>9. IsFiniteSet(DOMAIN Kept) /\ Cardinality(DOMAIN Kept) + 1 <= sipFileCacheMax
    BY <1>2, <2>4, <2>7
  <2> QED
    BY Zenon, <2>5, <2>6, <2>8, <2>9
<1> QED
  BY <1>3, <1>4

(* Eviction closes the file it forgets and no other.                       *)
LEMMA EvictionCloses ==
    ASSUME CacheInv
    PROVE  /\ \A p \in DOMAIN Kept : p \in DOMAIN handles /\ Kept[p] = handles[p]
           /\ DOMAIN StillOpen = {Kept[p] : p \in DOMAIN Kept}
           /\ \A f \in DOMAIN StillOpen : f \in DOMAIN osFiles /\ StillOpen[f] = osFiles[f]
<1>1. /\ DOMAIN osFiles = {handles[p] : p \in DOMAIN handles}
      /\ \A p \in DOMAIN handles : osFiles[handles[p]] = p
  BY DEF CacheInv, HandlesLead
<1>2. CASE ~Full
  BY <1>1, <1>2 DEF Kept, StillOpen
<1>3. CASE Full
  <2> DEFINE oldest == Head(order)
  <2>1. Kept = Without(handles, {oldest}) /\ StillOpen = Without(osFiles, {handles[oldest]})
    BY <1>3 DEF Kept, StillOpen
  <2>2. oldest \in DOMAIN handles
    <3>1. /\ order \in Seq(Paths)
          /\ DOMAIN handles = {order[i] : i \in 1 .. Len(order)}
      BY DEF CacheInv, TypeOK, OrderListsHandles
    <3>2. DOMAIN handles # {}
      BY <1>3, FS_EmptySet, CacheAssumption DEF Full
    <3>3. order # << >>
      BY <3>1, <3>2
    <3> QED
      BY <3>1, <3>3
  <2> HIDE DEF oldest
  <2>3. /\ DOMAIN Kept = DOMAIN handles \ {oldest}
        /\ \A p \in DOMAIN Kept : Kept[p] = handles[p]
        /\ DOMAIN StillOpen = DOMAIN osFiles \ {handles[oldest]}
        /\ \A f \in DOMAIN StillOpen : StillOpen[f] = osFiles[f]
    BY <2>1 DEF Without
  <2>4. \A p \in DOMAIN handles : p # oldest => handles[p] # handles[oldest]
    BY <1>1, <2>2
  <2> QED
    BY <1>1, <2>2, <2>3, <2>4
<1> QED
  BY <1>2, <1>3

(* The sequence s lists the set S of paths, each once.                     *)
Lists(s, S) ==
    /\ s \in Seq(Paths)
    /\ S = {s[i] : i \in 1 .. Len(s)}
    /\ \A i, j \in 1 .. Len(s) : s[i] = s[j] => i = j

(* What order and handles hold after a successful open.                    *)
LEMMA AfterOpening ==
    ASSUME CacheInv, NEW p \in Paths, p \notin DOMAIN handles
    PROVE  /\ Lists(Append(Waiting, p), DOMAIN Kept \cup {p})
           /\ IsFiniteSet(DOMAIN Kept \cup {p})
           /\ Cardinality(DOMAIN Kept \cup {p}) <= sipFileCacheMax
<1> DEFINE longer == Append(Waiting, p)
           open   == DOMAIN Kept \cup {p}
<1>1. /\ Waiting \in Seq(Paths)
      /\ DOMAIN Kept = {Waiting[i] : i \in 1 .. Len(Waiting)}
      /\ \A i, j \in 1 .. Len(Waiting) : Waiting[i] = Waiting[j] => i = j
      /\ p \notin DOMAIN Kept
      /\ IsFiniteSet(DOMAIN Kept)
      /\ Cardinality(DOMAIN Kept) + 1 <= sipFileCacheMax
  BY AfterEviction
<1> HIDE DEF Waiting, Kept
<1>2. /\ longer \in Seq(Paths)
      /\ Len(longer) = Len(Waiting) + 1
      /\ \A i \in 1 .. Len(Waiting) : longer[i] = Waiting[i]
      /\ longer[Len(Waiting) + 1] = p
      /\ Len(Waiting) \in Nat
  BY <1>1
<1> HIDE DEF longer
<1>3. open = {longer[i] : i \in 1 .. Len(longer)}
  <2>1. ASSUME NEW x \in open PROVE \E i \in 1 .. Len(longer) : x = longer[i]
    BY <1>1, <1>2
  <2>2. ASSUME NEW i \in 1 .. Len(longer) PROVE longer[i] \in open
    BY <1>1, <1>2
  <2> QED
    BY <2>1, <2>2
<1>4. \A i, j \in 1 .. Len(longer) : longer[i] = longer[j] => i = j
  <2>1. \A i \in 1 .. Len(Waiting) : Waiting[i] # p
    BY <1>1
  <2> QED
    BY <1>1, <1>2, <2>1
<1>5. IsFiniteSet(open) /\ Cardinality(open) = Cardinality(DOMAIN Kept) + 1
  BY <1>1, FS_AddElement
<1> QED
  <2>1. Lists(longer, open)
    BY <1>2, <1>3, <1>4 DEF Lists
  <2>2. Cardinality(open) <= sipFileCacheMax
    BY <1>1, <1>5
  <2> QED
    BY <1>5, <2>1, <2>2 DEF longer

(* What WriteString may do to the disk, through a file that is open.       *)
LEMMA FilesTyped ==
    ASSUME NEW disk, IsMap(disk, Paths, Seq(Entries \cup {Torn})),
           NEW table, NEW f \in DOMAIN table, table[f] \in DOMAIN disk,
           NEW e \in Entries, WriteString(f, table, disk, e)
    PROVE  /\ IsMap(files', Paths, Seq(Entries \cup {Torn}))
           /\ DOMAIN files' = DOMAIN disk
           /\ result' \in {"ok", "error"}
<1>1. disk[table[f]] \in Seq(Entries \cup {Torn})
  BY DEF IsMap
<1>2. /\ Append(disk[table[f]], e) \in Seq(Entries \cup {Torn})
      /\ Append(disk[table[f]], Torn) \in Seq(Entries \cup {Torn})
  BY <1>1
<1>3. \A s \in Seq(Entries \cup {Torn}) :
          /\ IsMap([disk EXCEPT ![table[f]] = s], Paths, Seq(Entries \cup {Torn}))
          /\ DOMAIN [disk EXCEPT ![table[f]] = s] = DOMAIN disk
  BY DEF IsMap
<1> QED
  BY <1>2, <1>3 DEF WriteString

(* A call of write is counted and leaves the cache open.                   *)
LEMMA CalledTyped ==
    ASSUME TypeOK, Called
    PROVE  /\ writes' \in 0 .. MaxWrites /\ closed' \in BOOLEAN
           /\ writes \in Nat /\ writes' = writes + 1 /\ NewFile = writes'
           /\ NewFile \notin DOMAIN osFiles
           /\ ~closed /\ closed' = closed
<1>1. writes \in Nat /\ DOMAIN osFiles \subseteq 1 .. writes
  BY WritesAssumption DEF TypeOK, IsMap
<1>2. NewFile \notin DOMAIN osFiles
  BY <1>1 DEF NewFile
<1> QED
  BY <1>1, <1>2, WritesAssumption DEF TypeOK, Called, NewFile

(* The file of a cached path is open on it.                                *)
LEMMA CachedStep ==
    ASSUME CacheInv, NEW p \in Paths, NEW e \in Entries, WriteCached(p, e)
    PROVE  CacheInv'
<1>1. /\ UNCHANGED <<handles, order, osFiles>> /\ Called
      /\ p \in DOMAIN handles
      /\ WriteString(handles[p], osFiles, files, e)
  BY DEF WriteCached
<1>2. TypeOK /\ HandlesLead
  BY DEF CacheInv
<1>3. /\ handles[p] \in DOMAIN osFiles /\ osFiles[handles[p]] = p
      /\ p \in DOMAIN files /\ IsMap(files, Paths, Seq(Entries \cup {Torn}))
  BY <1>1, <1>2 DEF HandlesLead, TypeOK
<1>4. /\ IsMap(files', Paths, Seq(Entries \cup {Torn}))
      /\ DOMAIN files' = DOMAIN files
      /\ result' \in {"ok", "error"}
  BY <1>1, <1>3, FilesTyped
<1>5. /\ writes' \in 0 .. MaxWrites /\ closed' \in BOOLEAN
      /\ writes \in Nat /\ writes' = writes + 1 /\ closed' = closed
  BY <1>1, <1>2, CalledTyped
<1>6. IsMap(handles, Paths, 1 .. writes') /\ IsMap(osFiles, 1 .. writes', Paths)
  <2>1. IsMap(handles, Paths, 1 .. writes) /\ IsMap(osFiles, 1 .. writes, Paths)
    BY <1>2 DEF TypeOK
  <2> QED
    BY <1>5, <2>1 DEF IsMap
<1>7. TypeOK'
  BY <1>1, <1>2, <1>4, <1>5, <1>6 DEF TypeOK
<1>8. HandlesLead'
  BY <1>1, <1>2, <1>4, <1>5 DEF HandlesLead
<1> QED
  BY <1>1, <1>7, <1>8 DEF CacheInv, OrderListsHandles

(* Opening a file: the new handle leads to it, the others where they led.  *)
LEMMA OpeningStep ==
    ASSUME CacheInv, NEW p \in Paths, NEW e \in Entries, WriteOpening(p, e)
    PROVE  CacheInv'
<1>1. /\ p \notin DOMAIN handles /\ Called
      /\ handles' = Put(Kept, p, NewFile)
      /\ order' = Append(Waiting, p)
      /\ osFiles' = Put(StillOpen, NewFile, p)
      /\ WriteString(NewFile, osFiles', Opened(p), e)
  BY DEF WriteOpening
<1>2. TypeOK /\ HandlesLead
  BY DEF CacheInv
<1>3. /\ \A q \in DOMAIN Kept : q \in DOMAIN handles /\ Kept[q] = handles[q]
      /\ DOMAIN StillOpen = {Kept[q] : q \in DOMAIN Kept}
      /\ \A f \in DOMAIN StillOpen : f \in DOMAIN osFiles /\ StillOpen[f] = osFiles[f]
  BY EvictionCloses
<1>4. /\ writes' \in 0 .. MaxWrites /\ closed' = FALSE
      /\ writes \in Nat /\ writes' = writes + 1 /\ NewFile = writes'
      /\ NewFile \notin DOMAIN osFiles
  BY <1>1, <1>2, CalledTyped DEF TypeOK
<1>5. /\ order' \in Seq(Paths)
      /\ DOMAIN Kept \cup {p} = {order'[i] : i \in 1 .. Len(order')}
      /\ \A i, j \in 1 .. Len(order') : order'[i] = order'[j] => i = j
      /\ IsFiniteSet(DOMAIN Kept \cup {p})
      /\ Cardinality(DOMAIN Kept \cup {p}) <= sipFileCacheMax
  <2> HIDE DEF Kept, Waiting
  <2>1. /\ Lists(order', DOMAIN Kept \cup {p})
        /\ IsFiniteSet(DOMAIN Kept \cup {p})
        /\ Cardinality(DOMAIN Kept \cup {p}) <= sipFileCacheMax
    BY Zenon, <1>1, AfterOpening
  <2> QED
    BY <2>1 DEF Lists
<1> HIDE DEF Kept, StillOpen, NewFile, Waiting
<1>6. /\ DOMAIN handles' = DOMAIN Kept \cup {p} /\ handles'[p] = NewFile
      /\ \A q \in DOMAIN Kept : q # p /\ handles'[q] = handles[q]
      /\ DOMAIN osFiles' = DOMAIN StillOpen \cup {NewFile} /\ osFiles'[NewFile] = p
      /\ \A f \in DOMAIN StillOpen : osFiles'[f] = osFiles[f]
  BY <1>1, <1>3, <1>4 DEF Put
<1>7. /\ IsMap(Opened(p), Paths, Seq(Entries \cup {Torn}))
      /\ DOMAIN Opened(p) = DOMAIN files \cup {p}
  <2>1. IsMap(files, Paths, Seq(Entries \cup {Torn}))
    BY <1>2 DEF TypeOK
  <2>2. Content(p) \in Seq(Entries \cup {Torn})
    BY <2>1 DEF Content, Lookup, IsMap
  <2>3. IsMap(Put(files, p, Content(p)), Paths, Seq(Entries \cup {Torn}))
    BY Zenon, <2>1, <2>2, PutIsMap
  <2> QED
    BY <2>3 DEF Opened, Put
<1>8. /\ IsMap(files', Paths, Seq(Entries \cup {Torn}))
      /\ DOMAIN files' = DOMAIN files \cup {p}
      /\ result' \in {"ok", "error"}
  <2>1. NewFile \in DOMAIN osFiles' /\ osFiles'[NewFile] \in DOMAIN Opened(p)
    BY <1>6, <1>7
  <2>2. PICK table : table = osFiles'
    OBVIOUS
  <2>3. PICK disk : disk = Opened(p)
    OBVIOUS
  <2>4. WriteString(NewFile, table, disk, e)
    BY <1>1, <2>2, <2>3
  <2> QED
    BY <1>7, <2>1, <2>2, <2>3, <2>4, FilesTyped
<1>9. IsMap(handles', Paths, 1 .. writes') /\ IsMap(osFiles', 1 .. writes', Paths)
  <2>1. IsMap(handles, Paths, 1 .. writes) /\ IsMap(osFiles, 1 .. writes, Paths)
    BY <1>2 DEF TypeOK
  <2>2. /\ \A q \in DOMAIN handles : q \in Paths /\ handles[q] \in 1 .. writes'
        /\ \A f \in DOMAIN osFiles : f \in 1 .. writes' /\ osFiles[f] \in Paths
        /\ NewFile \in 1 .. writes'
    BY <1>4, <2>1 DEF IsMap
  <2>3. IsMap(handles', Paths, 1 .. writes')
    <3>1. \A q \in DOMAIN handles' : q \in Paths /\ handles'[q] \in 1 .. writes'
      BY <1>3, <1>6, <2>2
    <3>2. handles' = [q \in DOMAIN handles' |-> handles'[q]]
      BY <1>1 DEF Put
    <3> QED
      BY <3>1, <3>2 DEF IsMap
  <2>4. IsMap(osFiles', 1 .. writes', Paths)
    <3>1. \A f \in DOMAIN osFiles' : f \in 1 .. writes' /\ osFiles'[f] \in Paths
      BY <1>3, <1>6, <2>2
    <3>2. osFiles' = [f \in DOMAIN osFiles' |-> osFiles'[f]]
      BY <1>1 DEF Put
    <3> QED
      BY <3>1, <3>2 DEF IsMap
  <2> QED
    BY <2>3, <2>4
<1>10. TypeOK'
  BY <1>4, <1>5, <1>8, <1>9 DEF TypeOK
<1>11. HandlesLead'
  <2>1. DOMAIN osFiles' = {handles'[q] : q \in DOMAIN handles'}
    BY <1>3, <1>6
  <2>2. \A q \in DOMAIN handles' : osFiles'[handles'[q]] = q /\ q \in DOMAIN files'
    <3> SUFFICES ASSUME NEW q \in DOMAIN handles'
                 PROVE  osFiles'[handles'[q]] = q /\ q \in DOMAIN files'
      OBVIOUS
    <3>1. CASE q = p
      BY <1>6, <1>8, <3>1
    <3>2. CASE q # p
      <4>1. q \in DOMAIN Kept /\ q \in DOMAIN handles /\ handles'[q] = handles[q]
        BY <1>3, <1>6, <3>2
      <4>2. handles[q] \in DOMAIN StillOpen
        BY <1>3, <4>1
      <4> QED
        BY <1>2, <1>6, <1>8, <4>1, <4>2 DEF HandlesLead
    <3> QED
      BY <3>1, <3>2
  <2> QED
    BY <1>4, <2>1, <2>2 DEF HandlesLead
<1>12. OrderListsHandles'
  BY <1>5, <1>6 DEF OrderListsHandles
<1> QED
  BY <1>5, <1>6, <1>10, <1>11, <1>12 DEF CacheInv

(* A failed open: what was evicted is closed, nothing else happened.       *)
LEMMA OpenFailsStep ==
    ASSUME CacheInv, NEW p \in Paths, OpenFails(p)
    PROVE  CacheInv'
<1>1. /\ handles' = Kept /\ order' = Waiting /\ osFiles' = StillOpen /\ Called
      /\ result' = "error" /\ UNCHANGED files
  BY DEF OpenFails
<1>2. TypeOK /\ HandlesLead
  BY DEF CacheInv
<1>3. /\ \A q \in DOMAIN Kept : q \in DOMAIN handles /\ Kept[q] = handles[q]
      /\ DOMAIN StillOpen = {Kept[q] : q \in DOMAIN Kept}
      /\ \A f \in DOMAIN StillOpen : f \in DOMAIN osFiles /\ StillOpen[f] = osFiles[f]
  BY EvictionCloses
<1>4. /\ writes' \in 0 .. MaxWrites /\ closed' = FALSE
      /\ writes \in Nat /\ writes' = writes + 1
  BY <1>1, <1>2, CalledTyped DEF TypeOK
<1>5. /\ order' \in Seq(Paths)
      /\ DOMAIN Kept = {order'[i] : i \in 1 .. Len(order')}
      /\ \A i, j \in 1 .. Len(order') : order'[i] = order'[j] => i = j
      /\ IsFiniteSet(DOMAIN Kept)
      /\ Cardinality(DOMAIN Kept) + 1 <= sipFileCacheMax
  BY <1>1, AfterEviction
<1>6. Cardinality(DOMAIN Kept) <= sipFileCacheMax
  BY <1>5, FS_CardinalityType, CacheAssumption
<1>7. IsMap(handles', Paths, 1 .. writes') /\ IsMap(osFiles', 1 .. writes', Paths)
  <2>1. IsMap(handles, Paths, 1 .. writes) /\ IsMap(osFiles, 1 .. writes, Paths)
    BY <1>2 DEF TypeOK
  <2>2. IsMap(Kept, Paths, 1 .. writes) /\ IsMap(StillOpen, 1 .. writes, Paths)
    BY <2>1 DEF Kept, StillOpen, Without, IsMap
  <2> HIDE DEF Kept, StillOpen
  <2> QED
    BY <1>1, <1>4, <2>2 DEF IsMap
<1> HIDE DEF Kept, StillOpen, Waiting
<1>8. TypeOK'
  BY <1>1, <1>2, <1>4, <1>5, <1>7 DEF TypeOK
<1>9. HandlesLead'
  BY <1>1, <1>2, <1>3, <1>4 DEF HandlesLead
<1>10. OrderListsHandles'
  BY <1>1, <1>5 DEF OrderListsHandles
<1> QED
  BY <1>1, <1>5, <1>6, <1>8, <1>9, <1>10 DEF CacheInv

(* closeAll closes every open file, for every open file has its handle.    *)
LEMMA CloseAllStep ==
    ASSUME CacheInv, closeAll
    PROVE  CacheInv'
<1>1. /\ osFiles' = Without(osFiles, {handles[p] : p \in DOMAIN handles})
      /\ handles' = << >> /\ order' = << >> /\ closed' = TRUE
      /\ UNCHANGED <<files, result, writes>>
  BY DEF closeAll
<1>2. TypeOK /\ HandlesLead
  BY DEF CacheInv
<1>3. DOMAIN handles' = {} /\ DOMAIN osFiles' = {}
  BY <1>1, <1>2 DEF HandlesLead, Without
<1>4. IsFiniteSet({}) /\ Cardinality({}) = 0
  BY FS_EmptySet
<1>5. IsMap(handles', Paths, 1 .. writes') /\ IsMap(osFiles', 1 .. writes', Paths)
  BY <1>1, <1>3 DEF Without, IsMap
<1>6. TypeOK'
  BY <1>1, <1>2, <1>5 DEF TypeOK
<1>7. HandlesLead'
  BY <1>3 DEF HandlesLead
<1>8. OrderListsHandles'
  BY <1>1, <1>3 DEF OrderListsHandles
<1> QED
  BY <1>3, <1>4, <1>6, <1>7, <1>8, CacheAssumption DEF CacheInv

-----------------------------------------------------------------------------
(* Every step of the cache keeps the invariant.                            *)
LEMMA CacheStep == CacheInv /\ [Next]_vars => CacheInv'
<1> SUFFICES ASSUME CacheInv, [Next]_vars PROVE CacheInv'
  OBVIOUS
<1>1. CASE closeAll
  BY <1>1, CloseAllStep
<1>2. ASSUME NEW p \in Paths, NEW e \in Entries, write(p, e) PROVE CacheInv'
  BY <1>2, CachedStep, OpeningStep, OpenFailsStep DEF write
<1>3. CASE UNCHANGED vars
  <2>1. UNCHANGED <<handles, order, osFiles, files, result, writes, closed>>
    BY <1>3 DEF vars
  <2>2. TypeOK'
    BY Zenon, <2>1 DEF CacheInv, TypeOK
  <2>3. OrderListsHandles'
    BY Zenon, <2>1 DEF CacheInv, OrderListsHandles
  <2>4. HandlesLead'
    BY Zenon, <2>1 DEF CacheInv, HandlesLead
  <2> QED
    BY Zenon, <2>1, <2>2, <2>3, <2>4 DEF CacheInv
<1> QED
  BY <1>1, <1>2, <1>3 DEF Next

(* CacheInv holds throughout.                                              *)
THEOREM CacheInvariant == Spec => []CacheInv
<1>1. Init => CacheInv
  <2> SUFFICES ASSUME Init PROVE CacheInv
    OBVIOUS
  <2>1. IsFiniteSet({}) /\ Cardinality({}) = 0
    BY FS_EmptySet
  <2>2. DOMAIN handles = {} /\ DOMAIN osFiles = {} /\ DOMAIN files = {}
    BY DEF Init
  <2>3. TypeOK
    <3>1. /\ IsMap(files, Paths, Seq(Entries \cup {Torn}))
          /\ IsMap(handles, Paths, 1 .. writes) /\ IsMap(osFiles, 1 .. writes, Paths)
      BY DEF Init, IsMap
    <3>2. order \in Seq(Paths) /\ result = "none" /\ closed \in BOOLEAN
      <4>1. << >> \in Seq(Paths)
        OBVIOUS
      <4> QED
        BY Zenon, <4>1 DEF Init
    <3>3. writes \in 0 .. MaxWrites
      BY WritesAssumption DEF Init
    <3> QED
      BY <3>1, <3>2, <3>3 DEF TypeOK
  <2>4. OrderListsHandles /\ HandlesLead
    BY <2>2 DEF Init, OrderListsHandles, HandlesLead
  <2> QED
    BY <2>1, <2>2, <2>3, <2>4, CacheAssumption DEF CacheInv
<1> QED
  BY <1>1, CacheStep, PTL DEF Spec

(* The cache, its files and its results are well typed in every run.       *)
THEOREM CacheTypeCorrect == Spec => []TypeOK
<1>1. CacheInv => TypeOK
  BY DEF CacheInv
<1> QED
  BY <1>1, CacheInvariant, PTL

(* order lists exactly the cached files, each once.                        *)
THEOREM OrderIsExact == Spec => []OrderListsHandles
<1>1. CacheInv => OrderListsHandles
  BY DEF CacheInv
<1> QED
  BY <1>1, CacheInvariant, PTL

(* Never more than sipFileCacheMax open files, and none after closeAll:    *)
(* every open file is led to by a handle of its own.                       *)
THEOREM HandlesAreBounded == Spec => []HandlesBounded
<1>1. CacheInv => HandlesBounded
  <2> SUFFICES ASSUME CacheInv PROVE HandlesBounded
    OBVIOUS
  <2>1. /\ DOMAIN osFiles = {handles[p] : p \in DOMAIN handles}
        /\ IsMap(handles, Paths, 1 .. writes)
        /\ closed => DOMAIN handles = {}
    BY DEF CacheInv, TypeOK, HandlesLead
  <2>2. handles \in Surjection(DOMAIN handles, DOMAIN osFiles)
    BY <2>1 DEF Surjection, IsMap
  <2>3. /\ IsFiniteSet(DOMAIN osFiles) /\ IsFiniteSet(DOMAIN handles)
        /\ Cardinality(DOMAIN osFiles) <= Cardinality(DOMAIN handles)
        /\ Cardinality(DOMAIN handles) <= sipFileCacheMax
    BY <2>2, FS_Surjection DEF CacheInv
  <2>4. /\ Cardinality(DOMAIN osFiles) \in Nat /\ Cardinality(DOMAIN handles) \in Nat
        /\ sipFileCacheMax \in Nat
    BY <2>3, FS_CardinalityType, CacheAssumption
  <2>5. closed => DOMAIN osFiles = {}
    BY <2>1
  <2> QED
    BY <2>3, <2>4, <2>5 DEF HandlesBounded
<1> QED
  BY <1>1, CacheInvariant, PTL

(* A write through a handle that leads to p is a write of TraceLog to p.   *)
LEMMA WriteIsLogged ==
    ASSUME NEW p, NEW e \in Entries, NEW table, NEW f \in DOMAIN table, table[f] = p,
           NEW disk, disk \in {files, Put(files, p, Content(p))}, p \in DOMAIN disk,
           disk = files => p \in DOMAIN files,
           WriteString(f, table, disk, e)
    PROVE  Log!Failed(p) \/ Log!Logged(p, e)
<1>1. /\ DOMAIN disk = DOMAIN files \cup {p} /\ disk[p] = Content(p)
      /\ \A q \in DOMAIN files : q # p => disk[q] = files[q]
  BY DEF Put, Content, Lookup
<1>2. \A s : [disk EXCEPT ![p] = s] = Put(files, p, s)
  BY <1>1 DEF Put
<1>3. disk = files \/ disk = Put(files, p, Content(p))
  OBVIOUS
<1>4. \/ files' = Put(files, p, Append(Content(p), e)) /\ result' = "ok"
      \/ files' = Put(files, p, Append(Content(p), Torn)) /\ result' = "error"
      \/ files' = disk /\ result' = "error"
  BY <1>1, <1>2 DEF WriteString
<1> QED
  BY <1>3, <1>4 DEF Log!Failed, Log!Logged, Log!Content, Content, Log!Put, Put,
                    Log!Lookup, Lookup

(* The cache implements append-only trace files: every write maps to a     *)
(* logged or failed write of TraceLog, closing to a stutter.  It rests on  *)
(* CacheInv: a handle in the map is never closed and leads to its path.    *)
THEOREM CacheImplementsTraceLog == Spec => ImplementsTraceLog
<1>1. Init => Log!Init
  BY DEF Init, Log!Init
<1>2. CacheInv /\ [Next]_vars => [Log!Next]_(Log!logVars)
  <2> SUFFICES ASSUME CacheInv, [Next]_vars PROVE [Log!Next]_(Log!logVars)
    OBVIOUS
  <2>1. CASE closeAll
    BY <2>1 DEF closeAll, Log!logVars
  <2>2. ASSUME NEW p \in Paths, NEW e \in Entries, WriteCached(p, e)
        PROVE  Log!Failed(p) \/ Log!Logged(p, e)
    <3>1. /\ handles[p] \in DOMAIN osFiles /\ osFiles[handles[p]] = p
          /\ p \in DOMAIN files /\ WriteString(handles[p], osFiles, files, e)
      BY <2>2 DEF WriteCached, CacheInv, HandlesLead
    <3> QED
      BY <3>1, WriteIsLogged
  <2>3. ASSUME NEW p \in Paths, NEW e \in Entries, WriteOpening(p, e)
        PROVE  Log!Failed(p) \/ Log!Logged(p, e)
    <3>1. /\ osFiles' = Put(StillOpen, NewFile, p)
          /\ WriteString(NewFile, osFiles', Opened(p), e)
      BY <2>3 DEF WriteOpening
    <3>2. NewFile \in DOMAIN osFiles' /\ osFiles'[NewFile] = p
      BY <3>1 DEF Put
    <3>3. PICK table : table = osFiles'
      OBVIOUS
    <3>4. PICK disk : disk = Opened(p)
      OBVIOUS
    <3>5. /\ WriteString(NewFile, table, disk, e)
          /\ NewFile \in DOMAIN table /\ table[NewFile] = p
      BY <3>1, <3>2, <3>3, <3>4
    <3>6. disk = Put(files, p, Content(p)) /\ p \in DOMAIN disk
      BY <3>4 DEF Opened, Put
    <3>7. disk \in {files, Put(files, p, Content(p))} /\ (disk = files => p \in DOMAIN files)
      BY <3>6
    <3> HIDE DEF NewFile
    <3> QED
      BY <3>5, <3>6, <3>7, WriteIsLogged
  <2>4. ASSUME NEW p \in Paths, OpenFails(p) PROVE Log!Failed(p)
    BY <2>4 DEF OpenFails, Log!Failed
  <2>5. CASE UNCHANGED vars
    BY <2>5 DEF vars, Log!logVars
  <2> QED
    BY <2>1, <2>2, <2>3, <2>4, <2>5 DEF Next, write, Log!Next
<1> QED
  BY <1>1, <1>2, CacheInvariant, PTL DEF Spec, ImplementsTraceLog, Log!Spec

=============================================================================
