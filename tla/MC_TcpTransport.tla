--------------------------- MODULE MC_TcpTransport ---------------------------
(* The stream bounds of MC_TcpStream, and two descriptors and two clients *)
(* for the listener: one accepted socket, then a process out of           *)
(* descriptors for the second.                                            *)
EXTENDS TcpTransport

CONSTANTS f1, f2, NoFd

MCPeerBytes == 3
MCRecvLen == 2
MCSendLen == 2
MCFDs == {f1, f2}
MCBacklog == 2
===============================================================================
