------------------------------ MODULE TcpStream ------------------------------
(* One connected TCP socket as tcp_transport_posix.c and poll_posix.c     *)
(* drive it.  The transport (tcp_transport.c, not part of the sources,     *)
(* modelled from the spec) polls the socket, calls recv_nonblocking into  *)
(* the connection's receive buffer while poll reports it readable, hands  *)
(* a full buffer on, and calls send_nonblocking on the send buffer.  The  *)
(* kernel and the peer are the environment: the peer writes bytes, shuts  *)
(* the connection down or resets it.  A byte is its index in the stream.  *)
EXTENDS Integers, Sequences, FiniteSetsExt

CONSTANTS
  PeerBytes,   \* bytes the peer writes
  RecvLen,     \* len passed to recv_nonblocking: the receive buffer size
  SendLen      \* len passed to send_nonblocking: the message to send

VARIABLES
  kin,         \* bytes in the kernel's receive queue
  peerNext,    \* bytes the peer has written
  peerClosed,  \* the peer has shut its side down (FIN)
  reset,       \* the peer has reset the connection (RST)
  rbuf,        \* the receive buffer, byte by byte (0: never written)
  rpos,        \* *pos of recv_nonblocking
  base,        \* stream bytes handed on before the buffer's first byte
  spos,        \* *pos of send_nonblocking
  wire,        \* bytes the kernel has taken from the send buffer, in order
  recvStatus,  \* the last status recv_nonblocking returned
  errnoOut,    \* *errno_out
  pollRet,     \* the last value robotraconteurlite_poll returned
  pc           \* the transport's loop: "poll" or "recv"

vars == <<kin, peerNext, peerClosed, reset, rbuf, rpos, base, spos, wire,
          recvStatus, errnoOut, pollRet, pc>>

(* The result of one recv(2) or send(2) call: ret, and errno when ret < 0. *)
Sys(r, e) == [ret |-> r, errno |-> e]

Init ==
  /\ kin = << >> /\ peerNext = 0 /\ peerClosed = FALSE /\ reset = FALSE
  /\ rbuf = [i \in 1 .. RecvLen |-> 0] /\ rpos = 0 /\ base = 0
  /\ spos = 0 /\ wire = << >>
  /\ recvStatus = "SUCCESS" /\ errnoOut = "NONE" /\ pollRet = 0 /\ pc = "poll"

-----------------------------------------------------------------------------
(* The peer and the kernel. *)
PeerWrite ==
  /\ peerNext < PeerBytes /\ ~peerClosed /\ ~reset
  /\ kin' = Append(kin, peerNext + 1) /\ peerNext' = peerNext + 1
  /\ UNCHANGED <<peerClosed, reset, rbuf, rpos, base, spos, wire, recvStatus,
                 errnoOut, pollRet, pc>>

PeerShutdown ==
  /\ ~peerClosed /\ peerClosed' = TRUE
  /\ UNCHANGED <<kin, peerNext, reset, rbuf, rpos, base, spos, wire,
                 recvStatus, errnoOut, pollRet, pc>>

(* A reset discards what the kernel had queued. *)
PeerReset ==
  /\ ~reset /\ reset' = TRUE /\ kin' = << >>
  /\ UNCHANGED <<peerNext, peerClosed, rbuf, rpos, base, spos, wire,
                 recvStatus, errnoOut, pollRet, pc>>

(* What recv(sock, buffer + pos, len - pos, MSG_DONTWAIT) may return. *)
RecvResults ==
  LET room == RecvLen - rpos IN
  CASE reset -> {Sys(-1, "ECONNRESET")}
    [] room = 0 \/ (kin = << >> /\ peerClosed) -> {Sys(0, "NONE")}
    [] kin = << >> -> {Sys(-1, "EWOULDBLOCK")}
    [] OTHER -> {Sys(n, "NONE") : n \in 1 .. Min({room, Len(kin)})}

(* A recv_nonblocking that sets *pos to ret instead of advancing it. *)
RecvPosOverwrite(r) == IF r.ret < 0 THEN rpos ELSE r.ret

(* recv_nonblocking's *pos after a call that returned r. *)
RecvPos(r) == IF r.ret < 0 THEN rpos ELSE rpos + r.ret

(* A recv_nonblocking that reads into buffer instead of buffer + *pos. *)
RecvNonblockingAtStart(r) ==
  /\ recvStatus' = IF r.ret < 0 /\ r.errno # "EWOULDBLOCK"
                     THEN "CONNECTION_ERROR" ELSE "SUCCESS"
  /\ errnoOut' = IF r.ret < 0 /\ r.errno # "EWOULDBLOCK" THEN r.errno ELSE errnoOut
  /\ rpos' = RecvPos(r)
  /\ rbuf' = [i \in 1 .. RecvLen |-> IF i <= r.ret THEN kin[i] ELSE rbuf[i]]
  /\ kin' = IF r.ret > 0 THEN SubSeq(kin, r.ret + 1, Len(kin)) ELSE kin

(* robotraconteurlite_tcp_socket_recv_nonblocking. *)
RecvNonblocking(r) ==
  /\ recvStatus' = IF r.ret < 0 /\ r.errno # "EWOULDBLOCK"
                     THEN "CONNECTION_ERROR" ELSE "SUCCESS"
  /\ errnoOut' = IF r.ret < 0 /\ r.errno # "EWOULDBLOCK" THEN r.errno ELSE errnoOut
  /\ rpos' = RecvPos(r)
  /\ rbuf' = [i \in 1 .. RecvLen |->
                IF rpos < i /\ i <= rpos + r.ret THEN kin[i - rpos] ELSE rbuf[i]]
  /\ kin' = IF r.ret > 0 THEN SubSeq(kin, r.ret + 1, Len(kin)) ELSE kin

(* What send(sock, buffer + pos, len - pos, MSG_DONTWAIT) may return: the *)
(* kernel takes part of the rest, or its buffer is full.                  *)
SendResults ==
  IF reset THEN {Sys(-1, "ECONNRESET")}
  ELSE {Sys(-1, "EWOULDBLOCK")} \cup {Sys(n, "NONE") : n \in 1 .. SendLen - spos}

(* A send_nonblocking that treats EWOULDBLOCK as an error. *)
SendNonblockingNoWouldBlock(r) ==
  /\ spos' = IF r.ret < 0 THEN spos ELSE spos + r.ret
  /\ wire' = IF r.ret > 0 THEN wire \o [i \in 1 .. r.ret |-> spos + i] ELSE wire
  /\ errnoOut' = IF r.ret < 0 THEN r.errno ELSE errnoOut

(* robotraconteurlite_tcp_socket_send_nonblocking; the buffer holds the   *)
(* stream bytes 1 .. SendLen.                                            *)
SendNonblocking(r) ==
  /\ spos' = IF r.ret < 0 THEN spos ELSE spos + r.ret
  /\ wire' = IF r.ret > 0 THEN wire \o [i \in 1 .. r.ret |-> spos + i] ELSE wire
  /\ errnoOut' = IF r.ret < 0 /\ r.errno # "EWOULDBLOCK" THEN r.errno ELSE errnoOut

(* robotraconteurlite_poll on the socket for POLLIN: ret < 0 with EINTR *)
(* becomes 0, anything else is returned as poll(2) returned it.          *)
PollResult(r) == IF r.ret < 0 /\ r.errno = "EINTR" THEN 0 ELSE r.ret

Readable == kin # << >> \/ peerClosed \/ reset

-----------------------------------------------------------------------------
(* The transport's loop. *)
Poll ==
  /\ pc = "poll"
  /\ LET r == Sys(IF Readable THEN 1 ELSE 0, "NONE") IN
       /\ pollRet' = PollResult(r)
       /\ pc' = IF PollResult(r) > 0 THEN "recv" ELSE "poll"
  /\ UNCHANGED <<kin, peerNext, peerClosed, reset, rbuf, rpos, base, spos, wire,
                 recvStatus, errnoOut>>

(* poll(2) fails: interrupted by a signal, or another error. *)
PollFails ==
  /\ pc = "poll"
  /\ \E e \in {"EINTR", "ENOMEM"} : pollRet' = PollResult(Sys(-1, e))
  /\ UNCHANGED <<kin, peerNext, peerClosed, reset, rbuf, rpos, base, spos, wire,
                 recvStatus, errnoOut, pc>>

Recv ==
  /\ pc = "recv" /\ pc' = "poll"
  /\ \E r \in RecvResults : RecvNonblocking(r)
  /\ UNCHANGED <<peerNext, peerClosed, reset, base, spos, wire, pollRet>>

(* A full receive buffer is handed to the connection and reused. *)
HandOn ==
  /\ rpos = RecvLen
  /\ base' = base + RecvLen /\ rpos' = 0
  /\ UNCHANGED <<kin, peerNext, peerClosed, reset, rbuf, spos, wire,
                 recvStatus, errnoOut, pollRet, pc>>

(* The transport sends while part of the message is left. *)
Send ==
  /\ spos < SendLen
  /\ \E r \in SendResults : SendNonblocking(r)
  /\ UNCHANGED <<kin, peerNext, peerClosed, reset, rbuf, rpos, base,
                 recvStatus, pollRet, pc>>

Peer == PeerWrite \/ PeerShutdown \/ PeerReset

Next == Peer \/ Poll \/ PollFails \/ Recv \/ HandOn \/ Send

(* The loop runs as long as the program does; poll failures and the peer *)
(* get no fairness.                                                      *)
Spec == Init /\ [][Next]_vars /\ WF_vars(Poll) /\ WF_vars(Recv) /\ WF_vars(HandOn)

-----------------------------------------------------------------------------
TypeOK ==
  /\ kin \in Seq(1 .. PeerBytes) /\ peerNext \in 0 .. PeerBytes
  /\ peerClosed \in BOOLEAN /\ reset \in BOOLEAN
  /\ rbuf \in [1 .. RecvLen -> 0 .. PeerBytes] /\ rpos \in 0 .. RecvLen
  /\ base \in 0 .. PeerBytes /\ spos \in 0 .. SendLen /\ wire \in Seq(1 .. SendLen)
  /\ recvStatus \in {"SUCCESS", "CONNECTION_ERROR"}
  /\ errnoOut \in {"NONE", "ECONNRESET"} /\ pollRet \in {-1, 0, 1}
  /\ pc \in {"poll", "recv"}

(* Partial reads and writes keep the streams in order: the filled part   *)
(* of the receive buffer is the next stretch of what the peer wrote, and *)
(* the kernel has taken the send buffer's bytes once each, in order,     *)
(* exactly as far as send_nonblocking's *pos says.                       *)
StreamInOrder ==
  /\ \A i \in 1 .. rpos : rbuf[i] = base + i
  /\ Len(wire) = spos /\ \A i \in 1 .. Len(wire) : wire[i] = i

(* Every byte the peer writes reaches the receive buffer unless the      *)
(* connection is reset: the poll/recv loop loses no data across partial  *)
(* reads and a full buffer.                                              *)
DataDelivered ==
  \A k \in 1 .. PeerBytes : peerNext >= k ~> (base + rpos >= k \/ reset)

(* The transport learns that the peer has gone (spec section 6: the       *)
(* transport reports socket-level errors): once the peer shuts its side  *)
(* down, recv_nonblocking eventually returns an error.                   *)
PeerCloseReported == peerClosed ~> recvStatus = "CONNECTION_ERROR"
=============================================================================
