CONSTANTS
    c1 = c1  c2 = c2  e1 = e1  e2 = e2  e3 = e3  alice = alice  s1 = s1  s2 = s2
    NoCallId = NoCallId  NoUser = NoUser  NoMethod = NoMethod  Nil = Nil
    CallIds = {c1, c2}
    Endpoints = {e1, e2, e3}
    Users = {alice}
    Methods = {"INVITE", "BYE"}
    PayloadTypes = {96}
    Codecs = {"PCMU"}
    Times = {1, 3}
    MethodFilter = {}
    SipMsgs <- McMsgs
    Base <- McBase
    MaxDirs = 1
    SSRCs = {s1, s2}
    RtpPkts <- McPkts
    NoRTPPcap = TRUE
    IdleSec = 1
    Grace = 1
    Mode = "two-pass"
    Ordered = FALSE
    SweepInterval = 2
    MaxPkts = 4
SPECIFICATION FairSpec
PROPERTIES FilesOnlyGrowProp EverythingReleased
CHECK_DEADLOCK FALSE
