CONSTANTS
    club = club  den = den
    general = general  extra = extra  cellar = cellar
    t1 = t1  t2 = t2  k1 = k1  k2 = k2  n1 = n1  n2 = n2
    None = None  NoName = NoName  Absent = Absent  Torn = Torn
    Parts = {"composer", "voice", "playback", "screen", "profile", "port"}
    Group = {club, den}
    Channel = {general, extra, cellar}
    GroupOf <- MCGroupOf
    Rank <- MCRank
    Text = {t1, t2}
    MaxFailures = 1
    MaxCalls = 2
    QueueCap = 2
    MaxPackets = 2
    Width = 8
    Reach = 2
    Patience = 3
    QueuedMax = 2
    MaxShares = 2
    Key = {k1, k2}
    Name = {n1, n2}
    OsName = n1
    NewPeer = n2
SPECIFICATION DesktopSpec
INVARIANTS
    DesktopTypeOK TextKept AtHome CallsEnd MuteStops
    SharesWhatItShows OneIdentity NameKept NoMappingLeft
PROPERTIES
    LeaveReturns FramesInOrder ListenerHearsAgain StopReturns
CHECK_DEADLOCK FALSE
