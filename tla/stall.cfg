CONSTANTS
    ann = ann  bob = bob  cid = cid
    club = club  den = den
    general = general  extra = extra  cellar = cellar
    l1 = l1  l2 = l2
    Node = {ann, bob, cid}
    Group = {club}
    Channel = {general, extra}
    Link = {l1}
    GroupOf <- MCGroupOf
    MaxSeq = 1
    SeedEvents <- AnnCarries
    Ends <- PairEnds
    SeedGroups <- InClub
    SeedChannels <- GeneralOnly
    Joinable = {}
    Blockable = {}
    BatchMax = 1
    Window = 0
    LiveCap = 4
    MetaCap = 1
    DropsAnyTime = FALSE
SPECIFICATION FairSpec
PROPERTIES SyncFinishes
CHECK_DEADLOCK FALSE
