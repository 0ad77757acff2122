CONSTANTS
    a1 = a1  a2 = a2  hold = hold  NoAddr = NoAddr  NoValue = NoValue
    Addresses = {a1, a2, hold}
    HoldAddrs = {hold}
    RecHdr = 4
    MaxLines = 4
    SdpLines <- McLines
    Captures <- McFeedFiles
    Feeds <- McFeeds
SPECIFICATION FeedSpec
INVARIANTS TypeOK DeliversWholeRecords WarnsIffCut AbortsOnlyFor
           HandlersSeeDatagrams MediaAsAnnounced
CHECK_DEADLOCK FALSE
