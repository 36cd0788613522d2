---------------------------- MODULE MC_TcpStream ----------------------------
(* Three stream bytes through a two-byte buffer, so that a read is split,  *)
(* fills the buffer exactly, or stops short; a two-byte message to send,   *)
(* so that a send is partial.                                             *)
EXTENDS TcpStream

MCPeerBytes == 3
MCRecvLen == 2
MCSendLen == 2
=============================================================================
