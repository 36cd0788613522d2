---------------------------- MODULE MC_TcpSocket ----------------------------
(* Three descriptors and two clients: enough for a listener, an accepted *)
(* socket and a third that runs the process out of descriptors.          *)
EXTENDS TcpSocket, TLC

CONSTANTS f1, f2, f3, NoFd

MCFDs == {f1, f2, f3}
MCBacklog == 2
MCSymmetry == Permutations(MCFDs)
=============================================================================
