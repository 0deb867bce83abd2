\* Two sessions of bob; one event, one channel.
SPECIFICATION FairSpec
CONSTANTS
    bob = bob
    s1 = s1
    s2 = s2
    Peer = {bob}
    Session = {s1, s2}
    PeerOf <- TwoSessionsOfBob
    MaxEvents = 1
    MaxChannels = 1
PROPERTY ListsCatchUp
