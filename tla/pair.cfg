CONSTANTS
    ann = ann  bob = bob  cid = cid
    club = club  den = den
    general = general  extra = extra  cellar = cellar
    l1 = l1  l2 = l2
    Node = {ann, bob, cid}
    Group = {club}
    Channel = {general, extra}
    Link = {l1}
    GroupOf <- MCGroupOf
    MaxSeq = 2
    SeedEvents <- AnnCarriesTwo
    Ends <- PairEnds
    SeedGroups <- InClub
    SeedChannels <- GeneralOnly
    Joinable = {}
    Blockable = {}
    BatchMax = 1
    Window = 1
    LiveCap = 2
    MetaCap = 1
    DropsAnyTime = TRUE
SPECIFICATION Spec
INVARIANTS TypeOK LogsAgree InFlight SyncCoverage EndsInStep NoStandoff
PROPERTIES LogSpec
CHECK_DEADLOCK FALSE
