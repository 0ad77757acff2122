------------------------------ MODULE Analyzer ------------------------------
(***************************************************************************)
(* The two modes of the program that read RTP: analyze (one pass over SIP  *)
(* and RTP) and --two-pass (extractCalls, then extractRTP over the same    *)
(* capture); --sip-only is SipSpec of SipDialogs.  Packets are read one at *)
(* a time and handled to the end before the next one is read; a sweep that *)
(* falls due is part of handling the packet, which the pc forces.          *)
(*                                                                         *)
(* The capture is whatever Next() returns: any sequence of at most         *)
(* MaxPkts SIP and RTP packets per pass, in timestamp order if Ordered.    *)
(* In --two-pass any SIP sequence of pass one and any RTP sequence of pass *)
(* two are the two halves of one capture, so the passes choose freely.     *)
(***************************************************************************)
EXTENDS RtpStreams

CONSTANTS
    Mode,          \* "single" or "two-pass"
    Ordered,       \* timestamps never go backwards within a pass
    SweepInterval, \* rtpSweepInterval
    MaxPkts        \* bound: packets per pass

ASSUME AnalyzerAssumption ==
    /\ Mode \in {"single", "two-pass"}
    /\ Ordered \in BOOLEAN
    /\ SweepInterval \in Nat \ {0}
    /\ MaxPkts \in Nat

VARIABLES
    pc,        \* "read", "sweep" (due after this packet), "done", "failed"
    pass,      \* 1 or 2
    now,       \* timestamp of the last packet of this pass
    rtpPkts,   \* RTP packets counted in this pass
    left,      \* packets left in the capture
    lastSweep  \* history: timestamp of the last sweep of this pass

loopVars == <<pc, pass, now, rtpPkts, left, lastSweep>>
vars == <<sipVars, rtpVars, loopVars>>

Init ==
    /\ SipInit /\ RtpInit
    /\ pc = "read" /\ pass = 1 /\ now = 0
    /\ rtpPkts = 0 /\ left = MaxPkts /\ lastSweep = 0

SipPass == pass = 1
RtpPass == IF Mode = "single" THEN pass = 1 ELSE pass = 2

NextPacket(ts) ==
    /\ pc = "read" /\ left > 0
    /\ Ordered => ts >= now
    /\ now' = ts
    /\ left' = left - 1
    /\ UNCHANGED <<pass, lastSweep>>

ReadSip(m, ts) ==
    /\ SipPass /\ NextPacket(ts)
    /\ processSIPPkt(m, ts)
    /\ UNCHANGED <<rtpVars, pc, rtpPkts>>

(* Errors of processRTPPkt are logged; the packet counts all the same.     *)
ReadRtp(p, ts) ==
    /\ RtpPass /\ NextPacket(ts)
    /\ processRTPPkt(p, ts)
    /\ rtpPkts' = rtpPkts + 1
    /\ pc' = IF rtpPkts' % SweepInterval = 0 THEN "sweep" ELSE "read"

Sweep ==
    /\ pc = "sweep"
    /\ sweepIdleStreams(now)
    /\ lastSweep' = now
    /\ pc' = "read"
    /\ UNCHANGED <<pass, now, rtpPkts, left>>

LastPass == IF Mode = "two-pass" THEN pass = 2 ELSE pass = 1

(* The last file ended and the program goes on to read all files again.    *)
StartSecondPass ==
    /\ pc = "read" /\ ~LastPass
    /\ pass' = 2
    /\ now' = 0 /\ lastSweep' = 0 /\ left' = MaxPkts
    /\ UNCHANGED <<sipVars, rtpVars, pc, rtpPkts>>

(* The last file ended and everything is closed.                           *)
Finish ==
    /\ pc = "read" /\ LastPass
    /\ Cleanup
    /\ pc' = "done"
    /\ UNCHANGED <<pass, now, rtpPkts, left, lastSweep>>

(* A file does not open, or a record cannot be read: the function returns  *)
(* an error through the same deferred clean-up and main exits.             *)
ReadError ==
    /\ pc = "read"
    /\ Cleanup
    /\ pc' = "failed"
    /\ UNCHANGED <<pass, now, rtpPkts, left, lastSweep>>

Next ==
    \/ \E m \in SipMsgs, ts \in Times : ReadSip(m, ts)
    \/ \E p \in RtpPkts, ts \in Times : ReadRtp(p, ts)
    \/ Sweep
    \/ StartSecondPass
    \/ Finish
    \/ ReadError

Spec == Init /\ [][Next]_vars

(* The program is one sequential loop over finite files: it takes its next *)
(* step as long as it has one.                                             *)
FairSpec == Spec /\ WF_vars(Next)

-----------------------------------------------------------------------------
(* Types of the loop and of all the state it drives.                       *)
TypeOK ==
    /\ SipTypeOK /\ RtpTypeOK
    /\ pc \in {"read", "sweep", "done", "failed"}
    /\ pass \in {1, 2}
    /\ now \in Nat /\ rtpPkts \in Nat /\ left \in 0 .. MaxPkts /\ lastSweep \in Nat

(* Metrics of a stream reach its Call exactly once if its pcap writer took *)
(* two packets or more, whether a sweep, the end of the capture or a read  *)
(* error closed it; a stream that is still open has not been counted.      *)
RecordedOnce ==
    /\ \A k \in DOMAIN stateMap : recorded[k] = 0
    /\ pc \in {"done", "failed"} /\ ~NoRTPPcap =>
          \A k \in rtpKey :
            LET files == {f \in DOMAIN pcapFiles : IsFileOf(f, k)}
            IN  recorded[k] = (IF \E f \in files : pcapFiles[f] >= 2 THEN 1 ELSE 0)

(* README: memory follows the streams active simultaneously.  After each   *)
(* sweep no stream is open that was silent for longer than IdleSec, or     *)
(* whose call had ended more than the grace period before, at the sweep.   *)
NoStaleStream ==
    Ordered =>
      \A k \in DOMAIN stateMap :
        /\ IdleSec > 0 => lastSweep <= stateMap[k].lastSeen + IdleSec
        /\ ~Ended(calls[k.callID], lastSweep)

(* Files grow only, and closed streams stay closed.                        *)
FilesOnlyGrowProp == [][FilesOnlyGrow]_vars

(* No writer and no stream is open.                                        *)
Released ==
    DOMAIN stateMap = {} /\ DOMAIN pcapWriters = {} /\ DOMAIN wavWriters = {}

(* Every run ends, by the end of the capture or by an error, and no writer *)
(* or stream is left open then.                                            *)
EverythingReleased == <>[](pc \in {"done", "failed"} /\ Released)

=============================================================================
