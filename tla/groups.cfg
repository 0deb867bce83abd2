CONSTANTS
    ann = ann  bob = bob  cid = cid
    club = club  den = den
    general = general  extra = extra  cellar = cellar
    l1 = l1  l2 = l2
    Node = {ann, bob}
    Group = {club, den}
    Channel = {general, cellar}
    Link = {l1}
    GroupOf <- MCGroupOf
    MaxSeq = 1
    SeedEvents <- NoSeeds
    Ends <- LineEnds
    SeedGroups <- InClub
    SeedChannels <- GeneralOnly
    Joinable <- BobMayJoinDen
    Blockable <- BobMayBlockAnn
    BatchMax = 1
    Window = 9
    LiveCap = 4
    MetaCap = 1
    DropsAnyTime = TRUE
SPECIFICATION FairSpec
INVARIANTS BodiesConfined
PROPERTIES BlockHolds LivePushed
CHECK_DEADLOCK FALSE
