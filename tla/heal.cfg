CONSTANTS
    ann = ann  bob = bob  cid = cid
    club = club  den = den
    general = general  extra = extra  cellar = cellar
    l1 = l1  l2 = l2
    Node = {ann, bob, cid}
    Group = {club}
    Channel = {general, extra}
    Link = {l1}
    GroupOf <- MCGroupOf
    MaxSeq = 2
    SeedEvents <- AnnCarriesTwo
    Ends <- PairEnds
    SeedGroups <- InClub
    SeedChannels <- GeneralOnly
    Joinable = {}
    Blockable = {}
    BatchMax = 1
    Window = 9
    LiveCap = 1
    MetaCap = 1
    DropsAnyTime = FALSE
SPECIFICATION ReconnectSpec
PROPERTIES Heals SyncFinishes
CHECK_DEADLOCK FALSE
