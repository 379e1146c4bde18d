---------------------------- MODULE MCRelayTunnel ----------------------------
(* Instances of RelayTunnel for TLC.                                       *)
EXTENDS RelayTunnel

TwoChunks == [v \in Visitors |-> 2]
=============================================================================
