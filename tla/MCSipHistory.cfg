CONSTANTS
    c1 = c1  c2 = c2  c3 = c3  e1 = e1  e2 = e2  alice = alice  bob = bob
    NoCallId = NoCallId  NoUser = NoUser  NoMethod = NoMethod
    CallIds = {c1, c2, c3}
    Endpoints = {e1, e2}
    Users = {alice, bob}
    Methods = {"INVITE", "BYE", "REGISTER"}
    PayloadTypes = {96}
    Codecs = {"PCMU"}
    Times = {1, 2}
    MethodFilter = {"INVITE", "BYE"}
    SipMsgs <- McMsgs
    Base <- McBase
    MaxDirs = 3
    MaxLog = 4
SPECIFICATION HistSpec
INVARIANTS RoutingAgreement DirectoriesDisjoint RejectionIsFinal
           RowMatchesCapture RouteIsLatestNewcomer
CHECK_DEADLOCK FALSE
