------------------------------- MODULE Rooms -------------------------------
(* The groups and channels of one device, which the models of its local     *)
(* components share: GroupId and ChannelId (src/model.rs).                  *)
EXTENDS Naturals, FiniteSets

CONSTANTS
    Group,
    Channel,
    GroupOf,   \* [Channel -> Group]
    Rank,      \* [Group \cup Channel -> Nat], the ORDER BY of the store's lists
    None       \* an absent Option

ASSUME RoomsAssumption ==
    /\ GroupOf \in [Channel -> Group]
    /\ Rank \in [Group \cup Channel -> Nat]
    /\ None \notin Group \cup Channel
=============================================================================
