CONSTANTS
    ann = ann  bob = bob  cid = cid
    club = club  den = den
    general = general  extra = extra  cellar = cellar
    l1 = l1  l2 = l2
    Node = {ann, bob, cid}
    Group = {club}
    Channel = {general}
    Link = {l1}
    GroupOf <- MCGroupOf
    MaxSeq = 1
    SeedEvents <- AnnCarries
    Ends <- PairEnds
    SeedGroups <- InClub
    SeedChannels <- GeneralOnly
    Joinable = {}
    Blockable <- BobMayBlockCid
    BatchMax = 2
    Window = 9
    LiveCap = 1
    MetaCap = 1
    DropsAnyTime = FALSE
SPECIFICATION ReconnectSpec
PROPERTIES Heals
CHECK_DEADLOCK FALSE
