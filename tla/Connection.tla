------------------------------ MODULE Connection ------------------------------
(* The connection state machine of connection.c.  connection_state is the *)
(* set of STATUS_FLAGS set in it.  The caller's side is the connection API *)
(* as node.c uses it: a send is begin_send_message, the writer and        *)
(* end_send_message in one step, because the writer never outlives the    *)
(* loop iteration that opened it (spec section 5).  The transport side    *)
(* (socket accept, recv, send, close; tcp_transport.c, not part of the     *)
(* sources) is modelled from the spec: it fills the receive buffer, calls *)
(* verify_preamble, drains the send buffer and sets the flags.  Bytes are  *)
(* abstracted: the peer's message is its preamble (magic right or wrong,  *)
(* version, declared size), and the send buffer holds the id of the        *)
(* message last written into it.                                          *)
EXTENDS Integers, Sequences

CONSTANTS
  Conns,       \* the connection pool
  Preambles,   \* the preambles a peer may send: [magicOk, version, size]
  MaxSends,    \* sends the application starts on one connection
  MaxRecvs     \* messages a peer sends on one connection

VARIABLES
  flags,       \* connection_state, as a set of flag names
  rpos,        \* recv_buffer_pos
  rlen,        \* recv_message_len
  peer,        \* preamble of the message the peer is sending, or NoPeer
  nRecvd,      \* messages the peer has sent on the connection
  sendBuf,     \* the message in send_buffer: an id, Junk, or 0 (nothing)
  nSends,      \* sends the application has started on the connection
  wire         \* the messages the transport has sent, in order

connVars == <<flags, rpos, rlen, peer, nRecvd, sendBuf, nSends, wire>>

NoPeer == [magicOk |-> FALSE, version |-> 0, size |-> 0]
Junk == -1    \* what an abandoned writer leaves in the send buffer
MsgIds == 1 .. MaxSends + MaxRecvs   \* one per send; the node answers each message once
MsgVals == {Junk, 0} \cup MsgIds

Flags == {"IDLE", "CONNECTING", "CONNECTED", "ESTABLISHED", "CLIENT_ESTABLISHED",
          "RECEIVE_REQUESTED", "MESSAGE_RECEIVED", "MESSAGE_CONSUMED",
          "SEND_REQUESTED", "SENDING", "MESSAGE_SENT", "MESSAGE_SENT_CONSUMED",
          "CLOSE_REQUESTED", "CLOSED", "ERROR", "BLOCK_SEND"}

Statuses == {"SUCCESS", "RETRY", "INVALID_OPERATION", "CONNECTION_ERROR", "OUT_OF_RANGE",
             "PROTOCOL", "CONSUMED"}

(* Set and clear flags: connection_state |= S, connection_state &= ~S. *)
Setf(c, S) == [flags EXCEPT ![c] = @ \cup S]
Clearf(c, S) == [flags EXCEPT ![c] = @ \ S]

-----------------------------------------------------------------------------
(* connections_init_from_array: every slot memset to zero, so             *)
(* connection_state is 0 (not IDLE) until the slot is first used.         *)
Init ==
  /\ flags = [c \in Conns |-> {}]
  /\ rpos = [c \in Conns |-> 0]
  /\ rlen = [c \in Conns |-> 0]
  /\ peer = [c \in Conns |-> NoPeer]
  /\ nRecvd = [c \in Conns |-> 0]
  /\ sendBuf = [c \in Conns |-> 0]
  /\ nSends = [c \in Conns |-> 0]
  /\ wire = [c \in Conns |-> << >>]

(* Mutant: reset leaves recv_message_len latched. *)
ResetStateKeepsLen(c) ==
  /\ flags' = [flags EXCEPT ![c] = {"IDLE"}]
  /\ rpos' = [rpos EXCEPT ![c] = 0]
  /\ UNCHANGED rlen

(* robotraconteurlite_connection_reset. *)
ResetState(c) ==
  /\ flags' = [flags EXCEPT ![c] = {"IDLE"}]
  /\ rpos' = [rpos EXCEPT ![c] = 0]
  /\ rlen' = [rlen EXCEPT ![c] = 0]

(* robotraconteurlite_connection_verify_preamble on pos buffered bytes    *)
(* with len latched and the peer's preamble pre: the declared length is   *)
(* latched before the version is checked.                                 *)
VerifyPreamble(pos, len, pre) ==
  CASE ~(pos >= 12 /\ len = 0) -> [st |-> "SUCCESS", len |-> len]
    [] ~pre.magicOk -> [st |-> "CONNECTION_ERROR", len |-> len]
    [] pre.version # 2 -> [st |-> "CONNECTION_ERROR", len |-> pre.size]
    [] OTHER -> [st |-> "SUCCESS", len |-> pre.size]

(* robotraconteurlite_connection_message_receive: the status; on SUCCESS *)
(* it hands out a reader over the first recv_buffer_pos bytes and changes  *)
(* nothing (buffer_init_scalar and reader_init cannot fail here).         *)
MessageReceiveStatus(c) ==
  IF "MESSAGE_RECEIVED" \notin flags[c] \/ "MESSAGE_CONSUMED" \in flags[c]
    THEN "RETRY" ELSE "SUCCESS"

(* robotraconteurlite_connection_message_receive_consume: INVALID_OPERATION *)
(* and no change unless a message was received.                           *)
ReceiveConsume(c) ==
  /\ "MESSAGE_RECEIVED" \in flags[c]
  /\ flags' = Setf(c, {"MESSAGE_CONSUMED"})
  /\ UNCHANGED <<rpos, rlen, peer, nRecvd, sendBuf, nSends, wire>>

LifeBlocked == {"ERROR", "CLOSED", "CLOSE_REQUESTED", "IDLE"}
SendBusy == {"SEND_REQUESTED", "SENDING", "MESSAGE_SENT", "MESSAGE_SENT_CONSUMED", "BLOCK_SEND"}

(* Mutant: a send still being written to the socket does not block a new one. *)
BeginSendStatusNoSending(c) ==
  CASE flags[c] \cap LifeBlocked # {} \/ "CONNECTED" \notin flags[c] -> "INVALID_OPERATION"
    [] flags[c] \cap (SendBusy \ {"SENDING"}) # {} -> "RETRY"
    [] OTHER -> "SUCCESS"

(* Mutant: a connection in ERROR still hands out a writer. *)
BeginSendStatusNoError(c) ==
  CASE flags[c] \cap (LifeBlocked \ {"ERROR"}) # {} \/ "CONNECTED" \notin flags[c] -> "INVALID_OPERATION"
    [] flags[c] \cap SendBusy # {} -> "RETRY"
    [] OTHER -> "SUCCESS"

(* robotraconteurlite_connection_begin_send_message: the checks; on       *)
(* SUCCESS it hands out a writer over the send buffer and sets no flag.   *)
(* buffer_init_scalar and writer_init cannot fail on a connection's own   *)
(* buffer, so the INTERNAL_ERROR returns are unreachable.                 *)
BeginSendStatus(c) ==
  CASE flags[c] \cap LifeBlocked # {} \/ "CONNECTED" \notin flags[c] -> "INVALID_OPERATION"
    [] flags[c] \cap SendBusy # {} -> "RETRY"
    [] OTHER -> "SUCCESS"

(* robotraconteurlite_connection_end_send_message, on the flag set. *)
EndSendMessage(f) == f \cup {"SEND_REQUESTED"}

(* Mutant: the send is ended even after a write failed. *)
SendOutcomeEndsPartial(c, fin, ended) ==
  IF BeginSendStatus(c) # "SUCCESS"
    THEN [st |-> BeginSendStatus(c), f |-> flags[c], buf |-> sendBuf[c], n |-> nSends[c]]
    ELSE [st |-> IF fin THEN "SUCCESS" ELSE "OUT_OF_RANGE",
          f |-> IF ended THEN EndSendMessage(flags[c]) ELSE flags[c],
          buf |-> IF fin /\ ended THEN nSends[c] + 1 ELSE Junk,
          n |-> nSends[c] + 1]

(* One send as node_begin_send_messageentry and node_end_send_messageentry *)
(* make it: begin_send_message's status; on SUCCESS the writer either      *)
(* completes every write (fin) or one fails with OUT_OF_RANGE and the rest *)
(* are skipped.  If the caller goes on to end the send (ended) after a     *)
(* complete message, end_send_message hands it over; otherwise what was   *)
(* written stays in the send buffer (abort_send_message does nothing).    *)
(* The result is the status, the new flags, send buffer and send count.   *)
SendOutcome(c, fin, ended) ==
  IF BeginSendStatus(c) # "SUCCESS"
    THEN [st |-> BeginSendStatus(c), f |-> flags[c], buf |-> sendBuf[c], n |-> nSends[c]]
    ELSE [st |-> IF fin THEN "SUCCESS" ELSE "OUT_OF_RANGE",
          f |-> IF fin /\ ended THEN EndSendMessage(flags[c]) ELSE flags[c],
          buf |-> IF fin /\ ended THEN nSends[c] + 1 ELSE Junk,
          n |-> nSends[c] + 1]

(* The send buffer and count after a send with outcome o. *)
ApplySend(c, o) ==
  /\ sendBuf' = [sendBuf EXCEPT ![c] = o.buf]
  /\ nSends' = [nSends EXCEPT ![c] = o.n]

(* An application send of one message: begin, the writes, end. *)
SendMessage(c) ==
  /\ nSends[c] < MaxSends
  /\ \E fin \in BOOLEAN :
       /\ flags' = [flags EXCEPT ![c] = SendOutcome(c, fin, TRUE).f]
       /\ ApplySend(c, SendOutcome(c, fin, TRUE))
  /\ UNCHANGED <<rpos, rlen, peer, nRecvd, wire>>

(* Mutant: close assigns CLOSE_REQUESTED instead of or-ing it in. *)
CloseFlagsOverwrite(f) == IF "IDLE" \in f THEN f ELSE {"CLOSE_REQUESTED"}

(* robotraconteurlite_connection_close, on the flag set. *)
CloseFlags(f) == IF "IDLE" \in f THEN f ELSE f \cup {"CLOSE_REQUESTED"}

Close(c) ==
  /\ flags' = [flags EXCEPT ![c] = CloseFlags(@)]
  /\ UNCHANGED <<rpos, rlen, peer, nRecvd, sendBuf, nSends, wire>>

-----------------------------------------------------------------------------
(* The transport (spec sections 4.4, 6), acting between the caller's     *)
(* calls.                                                                 *)

(* A connection is accepted into an unused or idle slot; the peer starts  *)
(* sending its first message.                                             *)
TransportAccept(c) ==
  /\ flags[c] \in {{}, {"IDLE"}} /\ nRecvd[c] < MaxRecvs
  /\ flags' = [flags EXCEPT ![c] = {"CONNECTED", "RECEIVE_REQUESTED"}]
  /\ \E pre \in Preambles : peer' = [peer EXCEPT ![c] = pre]
  /\ nRecvd' = [nRecvd EXCEPT ![c] = @ + 1]
  /\ UNCHANGED <<rpos, rlen, sendBuf, nSends, wire>>

(* Bytes of the peer's message arrive (the 12-byte preamble, or up to the *)
(* declared size), then verify_preamble runs; the message is received     *)
(* once the latched length is buffered.                                   *)
TransportReceive(c) ==
  /\ "RECEIVE_REQUESTED" \in flags[c] /\ "ERROR" \notin flags[c]
  /\ peer[c] # NoPeer
  /\ \E pos \in {12, peer[c].size} :
       /\ rpos[c] < pos /\ (rlen[c] = 0 \/ pos <= rlen[c])
       /\ LET v == VerifyPreamble(pos, rlen[c], peer[c])
          IN /\ rpos' = [rpos EXCEPT ![c] = pos]
             /\ rlen' = [rlen EXCEPT ![c] = v.len]
             /\ flags' = CASE v.st # "SUCCESS" ->
                                [flags EXCEPT ![c] = (@ \cup {"ERROR"}) \ {"RECEIVE_REQUESTED"}]
                           [] v.len # 0 /\ pos >= v.len ->
                                [flags EXCEPT ![c] = (@ \cup {"MESSAGE_RECEIVED"}) \ {"RECEIVE_REQUESTED"}]
                           [] OTHER -> flags
  /\ UNCHANGED <<peer, nRecvd, sendBuf, nSends, wire>>

(* After the message is consumed the receive buffer is recycled and the   *)
(* peer may send its next message.                                        *)
TransportReceiveNext(c) ==
  /\ "MESSAGE_CONSUMED" \in flags[c] /\ "ERROR" \notin flags[c]
  /\ flags' = [flags EXCEPT ![c] = (@ \ {"MESSAGE_RECEIVED", "MESSAGE_CONSUMED"}) \cup {"RECEIVE_REQUESTED"}]
  /\ rpos' = [rpos EXCEPT ![c] = 0] /\ rlen' = [rlen EXCEPT ![c] = 0]
  /\ IF nRecvd[c] < MaxRecvs
       THEN /\ \E pre \in Preambles : peer' = [peer EXCEPT ![c] = pre]
            /\ nRecvd' = [nRecvd EXCEPT ![c] = @ + 1]
       ELSE peer' = [peer EXCEPT ![c] = NoPeer] /\ UNCHANGED nRecvd
  /\ UNCHANGED <<sendBuf, nSends, wire>>

TransportStartSend(c) ==
  /\ "SEND_REQUESTED" \in flags[c] /\ flags[c] \cap {"ERROR", "CLOSED"} = {}
  /\ flags' = [flags EXCEPT ![c] = (@ \ {"SEND_REQUESTED"}) \cup {"SENDING"}]
  /\ UNCHANGED <<rpos, rlen, peer, nRecvd, sendBuf, nSends, wire>>

(* The last byte is written: the message is what the send buffer holds now. *)
TransportSent(c) ==
  /\ "SENDING" \in flags[c] /\ flags[c] \cap {"ERROR", "CLOSED"} = {}
  /\ flags' = [flags EXCEPT ![c] = (@ \ {"SENDING"}) \cup {"MESSAGE_SENT"}]
  /\ wire' = [wire EXCEPT ![c] = Append(@, sendBuf[c])]
  /\ UNCHANGED <<rpos, rlen, peer, nRecvd, sendBuf, nSends>>

(* MessageSent -> MessageSentConsumed -> the send axis is free again. *)
TransportSentConsumed(c) ==
  /\ "MESSAGE_SENT" \in flags[c]
  /\ flags' = Clearf(c, {"MESSAGE_SENT", "MESSAGE_SENT_CONSUMED"})
  /\ UNCHANGED <<rpos, rlen, peer, nRecvd, sendBuf, nSends, wire>>

(* A socket error on a connection in use; ERROR is sticky. *)
TransportError(c) ==
  /\ "CONNECTED" \in flags[c] /\ "ERROR" \notin flags[c]
  /\ flags' = Setf(c, {"ERROR"})
  /\ UNCHANGED <<rpos, rlen, peer, nRecvd, sendBuf, nSends, wire>>

TransportClose(c) ==
  /\ "CLOSE_REQUESTED" \in flags[c] /\ "CLOSED" \notin flags[c]
  /\ flags' = Setf(c, {"CLOSED"})
  /\ UNCHANGED <<rpos, rlen, peer, nRecvd, sendBuf, nSends, wire>>

(* The event loop consumes the closed event: the slot is reset to IDLE. *)
ConsumeClosed(c) ==
  /\ "CLOSED" \in flags[c]
  /\ ResetState(c) /\ peer' = [peer EXCEPT ![c] = NoPeer]
  /\ UNCHANGED <<nRecvd, sendBuf, nSends, wire>>

-----------------------------------------------------------------------------
Next ==
  \E c \in Conns :
    \/ ReceiveConsume(c) \/ SendMessage(c) \/ Close(c)
    \/ TransportAccept(c) \/ TransportReceive(c) \/ TransportReceiveNext(c)
    \/ TransportStartSend(c) \/ TransportSent(c) \/ TransportSentConsumed(c)
    \/ TransportError(c) \/ TransportClose(c) \/ ConsumeClosed(c)

Spec == Init /\ [][Next]_connVars

-----------------------------------------------------------------------------
TypeOK ==
  /\ flags \in [Conns -> SUBSET Flags]
  /\ rpos \in [Conns -> Nat] /\ rlen \in [Conns -> Nat]
  /\ peer \in [Conns -> Preambles \cup {NoPeer}]
  /\ nRecvd \in [Conns -> 0 .. MaxRecvs] /\ nSends \in [Conns -> 0 .. MaxSends + MaxRecvs]
  /\ sendBuf \in [Conns -> MsgVals]
  /\ wire \in [Conns -> Seq(MsgIds)]   \* only whole messages are sent

(* A received message is well framed: when MESSAGE_RECEIVED is set, the  *)
(* peer's magic and version were right and the reader message_receive    *)
(* hands out covers exactly the declared message (verify_preamble, the    *)
(* transport's completion test and message_receive together).            *)
ReceivedIsWellFramed ==
  \A c \in Conns :
    "MESSAGE_RECEIVED" \in flags[c] =>
      /\ peer[c].magicOk /\ peer[c].version = 2
      /\ rlen[c] = peer[c].size /\ rpos[c] = rlen[c]

(* The refinement mapping to the one-slot channel.  The outgoing slot    *)
(* holds the send buffer while SEND_REQUESTED or SENDING is set; the      *)
(* incoming slot is full while a received message is not yet consumed;  *)
(* a slot never used (state 0) or IDLE is idle, one with ERROR,          *)
(* CLOSE_REQUESTED or CLOSED is closing.                                  *)
Channel == INSTANCE ConnectionChannel WITH
  life <- [c \in Conns |->
             CASE flags[c] = {} \/ "IDLE" \in flags[c] -> "idle"
               [] flags[c] \cap {"ERROR", "CLOSE_REQUESTED", "CLOSED"} # {} -> "closing"
               [] OTHER -> "open"],
  out <- [c \in Conns |->
            IF flags[c] \cap {"SEND_REQUESTED", "SENDING"} # {} THEN << sendBuf[c] >> ELSE << >>],
  inbox <- [c \in Conns |->
              IF "MESSAGE_RECEIVED" \in flags[c] /\ "MESSAGE_CONSUMED" \notin flags[c]
                THEN "full" ELSE "empty"],
  sent <- wire

(* Refinement: every behaviour of the flag machine is one of the channel: *)
(* begin_send_message hands out a writer only while the connection is    *)
(* open and no earlier message is still queued or being written to the   *)
(* socket, so the transport sends every handed-over message unchanged, in *)
(* order, and nothing is sent on a connection that has failed.          *)
ImplementsChannel == Channel!Spec
=============================================================================
