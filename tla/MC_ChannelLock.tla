-------------------------- MODULE MC_ChannelLock --------------------------
(* Instances of ChannelLock: a master with two channels.                   *)
EXTENDS ChannelLock

TwoChannels == {"c1", "c2"}
=============================================================================
