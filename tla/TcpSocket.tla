------------------------------ MODULE TcpSocket ------------------------------
(* The file descriptors of tcp_transport_posix.c: begin_server, accept and *)
(* close.  Each system call a function makes may fail; the function then  *)
(* stores errno in *errno_out, closes what it opened and returns.  The    *)
(* caller (tcp_transport.c, not part of the sources, modelled from the    *)
(* spec) starts a server while it has none, accepts while it has one,    *)
(* and closes the descriptors it holds.  Clients connect into the listen  *)
(* backlog.  errno values are the ones the code tells apart.              *)
EXTENDS Integers, FiniteSets

CONSTANTS
  FDs,         \* descriptors the process can open
  None,        \* no descriptor
  Backlog      \* clients that try to connect

VARIABLES
  open,        \* descriptors open in the process
  held,        \* descriptors the caller holds: the listener and client sockets
  listener,    \* the acceptor socket, or None
  pending,     \* connections waiting in the listen backlog
  connects,    \* clients that have connected so far
  errno,       \* the process's errno
  errnoOut,    \* *errno_out
  status,      \* what the last call returned
  op,          \* the last call
  sysErr       \* errno of the system call that failed in the last call

vars == <<open, held, listener, pending, connects, errno, errnoOut, status, op, sysErr>>

Statuses == {"SUCCESS", "RETRY", "CONNECTION_ERROR"}
Errnos == {"NONE", "EWOULDBLOCK", "EMFILE", "EINVAL", "EADDRINUSE", "ECONNABORTED"}

Init ==
  /\ open = {} /\ held = {} /\ listener = None /\ pending = 0 /\ connects = 0
  /\ errno = "NONE" /\ errnoOut = "NONE" /\ status = "SUCCESS"
  /\ op = "none" /\ sysErr = "NONE"

(* What each call of begin_server fails with. *)
StepErrno == [socket |-> "EMFILE", fcntl_get |-> "EINVAL", fcntl_set |-> "EINVAL",
              bind |-> "EADDRINUSE", listen |-> "EADDRINUSE"]

(* The descriptors open after begin_server created sock and the call    *)
(* named fail failed ("none": all succeeded): every error path after     *)
(* socket() closes sock.                                                 *)
ServerOpen(fail, sock) == IF fail = "none" THEN open \cup {sock} ELSE open

(* robotraconteurlite_tcp_socket_begin_server, failing at fail with a    *)
(* new descriptor sock.                                                   *)
BeginServerCall(fail, sock) ==
  /\ open' = ServerOpen(fail, sock)
  /\ status' = IF fail = "none" THEN "SUCCESS" ELSE "CONNECTION_ERROR"
  /\ errno' = IF fail = "none" THEN errno ELSE StepErrno[fail]
  /\ errnoOut' = IF fail = "none" THEN errnoOut ELSE StepErrno[fail]
  /\ sysErr' = IF fail = "none" THEN "NONE" ELSE StepErrno[fail]
  /\ listener' = IF fail = "none" THEN sock ELSE listener
  /\ held' = IF fail = "none" THEN held \cup {sock} ELSE held

BeginServer ==
  /\ listener = None
  /\ \/ BeginServerCall("socket", None)
     \/ \E sock \in FDs \ open :
          \E fail \in {"fcntl_get", "fcntl_set", "bind", "listen", "none"} :
            BeginServerCall(fail, sock)
  /\ op' = "begin_server"
  /\ UNCHANGED <<pending, connects>>

(* accept(2) fails with e.  The check errno = EWOULDBLOCK is an          *)
(* assignment: errno becomes EWOULDBLOCK and the call returns RETRY,      *)
(* whatever e was.                                                        *)
AcceptFails(e) ==
  /\ errno' = "EWOULDBLOCK"
  /\ status' = "RETRY"
  /\ sysErr' = e
  /\ UNCHANGED <<open, held, pending, errnoOut>>

(* accept(2) returned the new descriptor sock; the fcntl call named fail *)
(* failed ("none": both succeeded).  *client_sock is never written.      *)
AcceptSucceeds(sock, fail) ==
  /\ pending' = pending - 1
  /\ open' = IF fail = "none" THEN open \cup {sock} ELSE open
  /\ status' = IF fail = "none" THEN "SUCCESS" ELSE "CONNECTION_ERROR"
  /\ errno' = IF fail = "none" THEN errno ELSE "EINVAL"
  /\ errnoOut' = IF fail = "none" THEN errnoOut ELSE "EINVAL"
  /\ sysErr' = IF fail = "none" THEN "NONE" ELSE "EINVAL"
  /\ UNCHANGED held

(* robotraconteurlite_tcp_socket_accept on the listener. *)
Accept ==
  /\ listener # None
  /\ \/ pending = 0 /\ AcceptFails("EWOULDBLOCK")
     \/ AcceptFails("ECONNABORTED")
     \/ pending > 0 /\ FDs \ open = {} /\ AcceptFails("EMFILE")
     \/ pending > 0 /\ \E sock \in FDs \ open :
          \E fail \in {"fcntl_get", "fcntl_set", "none"} : AcceptSucceeds(sock, fail)
  /\ op' = "accept"
  /\ UNCHANGED <<listener, connects>>

(* robotraconteurlite_tcp_socket_close on a descriptor the caller holds. *)
Close(sock) ==
  /\ sock \in held
  /\ open' = open \ {sock} /\ held' = held \ {sock}
  /\ listener' = IF sock = listener THEN None ELSE listener
  /\ pending' = IF sock = listener THEN 0 ELSE pending
  /\ status' = "SUCCESS" /\ op' = "close" /\ sysErr' = "NONE"
  /\ UNCHANGED <<connects, errno, errnoOut>>

(* A client connects while the server listens. *)
Connect ==
  /\ listener # None /\ connects < Backlog
  /\ pending' = pending + 1 /\ connects' = connects + 1
  /\ UNCHANGED <<open, held, listener, errno, errnoOut, status, op, sysErr>>

Next == BeginServer \/ Accept \/ Connect \/ \E sock \in FDs : Close(sock)

Spec == Init /\ [][Next]_vars

-----------------------------------------------------------------------------
TypeOK ==
  /\ open \subseteq FDs /\ held \subseteq FDs /\ listener \in FDs \cup {None}
  /\ pending \in 0 .. Backlog /\ connects \in 0 .. Backlog
  /\ errno \in Errnos /\ errnoOut \in Errnos /\ sysErr \in Errnos
  /\ status \in Statuses /\ op \in {"none", "begin_server", "accept", "close"}

(* Every descriptor the process has open is one the caller holds and can *)
(* close: no call opens a socket without handing it out.                 *)
NoFdLeak == open \subseteq held

=============================================================================
