----------------------------- MODULE TcpTransport -----------------------------
(* The functions of tcp_transport_posix.c in one process: a listening     *)
(* socket the transport opens, accepts on and closes (TcpSocket), beside *)
(* one connected socket it polls, reads and writes (TcpStream).  The two  *)
(* share the process; each call is atomic with respect to the other,     *)
(* since the transport runs them from one loop.                           *)
EXTENDS TcpStream

CONSTANTS FDs, None, Backlog

VARIABLES open, held, listener, pending, connects, errno, sockErrnoOut,
          status, op, sysErr

sockVars == <<open, held, listener, pending, connects, errno, sockErrnoOut,
              status, op, sysErr>>
allVars == <<vars, sockVars>>

Sock == INSTANCE TcpSocket WITH errnoOut <- sockErrnoOut

TransportInit == Init /\ Sock!Init

(* A step of the stream leaves the sockets alone, and the other way round. *)
StreamStep(A) == A /\ UNCHANGED sockVars

TransportNext == StreamStep(Next) \/ (Sock!Next /\ UNCHANGED vars)

(* The fairness of TcpStream's loop; the listener's calls and its clients *)
(* get none.                                                              *)
TransportSpec ==
  /\ TransportInit /\ [][TransportNext]_allVars
  /\ WF_allVars(StreamStep(Poll)) /\ WF_allVars(StreamStep(Recv))
  /\ WF_allVars(StreamStep(HandOn))
===============================================================================
