\* Two sessions of bob; two events, one channel.
SPECIFICATION FairSpec
CONSTANTS
    bob = bob
    s1 = s1
    s2 = s2
    Peer = {bob}
    Session = {s1, s2}
    PeerOf <- TwoSessionsOfBob
    MaxEvents = 2
    MaxChannels = 1
INVARIANTS TypeOK CountsMatch NoEventHidden
PROPERTY TimelineCatchesUp
