---------------------------- MODULE MCPunchStream ----------------------------
(* Instances of PunchStream for TLC.                                       *)
EXTENDS PunchStream

OneChunk  == <<"a">>
TwoChunks == <<"a", "b">>
=============================================================================
