--------------------------- MODULE MCRemoteControl ---------------------------
(* RemoteControl for TLC: the constants are given in the cfg files.        *)
EXTENDS RemoteControl
=============================================================================
