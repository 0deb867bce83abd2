CONSTANTS
    ann = ann  bob = bob  cid = cid
    club = club  den = den
    general = general  extra = extra  cellar = cellar
    l1 = l1  l2 = l2
    Node = {ann, bob, cid}
    Group = {club}
    Channel = {general, extra}
    Link = {l1, l2}
    GroupOf <- MCGroupOf
    MaxSeq = 1
    SeedEvents <- BobAndCidWrote
    Ends <- LineEnds
    SeedGroups <- InClub
    SeedChannels <- GeneralOnly
    Joinable = {}
    Blockable = {}
    BatchMax = 1
    Window = 9
    LiveCap = 3
    MetaCap = 1
    DropsAnyTime = FALSE
SPECIFICATION FairSpec
INVARIANTS LogsAgree
PROPERTIES RelayedToCid RelayEnds
CHECK_DEADLOCK FALSE
