CONSTANTS
    c1 = c1  c2 = c2  c3 = c3  s1 = s1  s2 = s2  s3 = s3  s4 = s4
    NoMetrics = NoMetrics  NoFile = NoFile  Mixed = Mixed  Header = Header
    CallIds = {c1, c2, c3}
    Streams = {s1, s2, s3, s4}
    Captures <- McCaptures
    CodeFlags <- McCodes
    MixFlag = TRUE
SPECIFICATION Spec
INVARIANTS TypeOK AggregatesMatchStreams  OnlyTheTailIsLost
           
CHECK_DEADLOCK FALSE
