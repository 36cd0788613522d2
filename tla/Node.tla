------------------------------- MODULE Node ---------------------------------
(* The node event loop of node.c over the connection state machine.  The *)
(* node keeps the connections in a doubly linked list (head, tail, and    *)
(* each connection's next and prev pointers) with a round-robin cursor,   *)
(* connections_next.  The application's loop calls next_event, then      *)
(* event_special_request for a received message, and consume_event; the  *)
(* transport and the application's own calls (send, close, adding and    *)
(* removing connections) happen between the loop's calls.                 *)
(* The is_*_event predicates, consume_connected, consume_closed,          *)
(* connection_error and node_receive_messageentry live in headers and     *)
(* files that are not part of the sources; they are modelled from the     *)
(* spec (section 6).  A peer's message is its preamble plus what node.c   *)
(* reads of it: the entry type, whether the member name is                *)
(* "CreateConnection", and whether receive_messageentry can parse it.     *)
EXTENDS Connection, SequencesExt

CONSTANTS
  Nil,         \* the null connection pointer
  InitList,    \* the connections init_from_array links, in order
  MaxListOps,  \* add_connection and remove_connection calls
  Readd        \* whether a removed connection may be added again

VARIABLES
  head,        \* connections_head
  tail,        \* connections_tail
  cursor,      \* connections_next
  nextp,       \* connection->next
  prevp,       \* connection->prev
  serviced,    \* events_serviced
  ev,          \* the event the loop is handling, or NoEvent
  connEvent,   \* a connected event not yet consumed (is_connected_event)
  seen,        \* connections reported since the last NEXT_CYCLE
  removed,     \* connections removed from the list at least once
  listOps      \* add and remove calls so far

nodeVars == <<head, tail, cursor, nextp, prevp, serviced, ev, connEvent, seen, removed, listOps>>
vars == <<connVars, nodeVars>>

NoEvent == [type |-> "NONE", conn |-> Nil, err |-> "SUCCESS", user |-> FALSE]

EventTypes == {"NEXT_CYCLE", "CONNECTION_CLOSED", "CONNECTION_ERROR",
               "CONNECTION_CONNECTED", "MESSAGE_RECEIVED", "HANG"}

(* The connections reached from x by next, at most n of them. *)
RECURSIVE Chain(_, _)
Chain(x, n) == IF x = Nil \/ n = 0 THEN << >> ELSE << x >> \o Chain(nextp[x], n - 1)

(* The list a walk from connections_head visits. *)
ListSeq == Chain(head, Cardinality(Conns) + 1)
Listed == ToSet(ListSeq)

(* The neighbour of c in InitList at offset d (+1 next, -1 prev), or Nil. *)
InitNeighbour(c, d) ==
  LET i == SelectInSeq(InitList, LAMBDA x : x = c)
  IN IF i # 0 /\ i + d \in 1 .. Len(InitList) THEN InitList[i + d] ELSE Nil

-----------------------------------------------------------------------------
(* connections_init_from_array zeroes and links the slots of InitList;   *)
(* node_init takes its head, walks to the tail and points the cursor at  *)
(* the head.  A connection outside InitList is the caller's own, zeroed.  *)
NodeInit ==
  /\ Init
  /\ head = IF InitList = << >> THEN Nil ELSE InitList[1]
  /\ tail = IF InitList = << >> THEN Nil ELSE Last(InitList)
  /\ cursor = head
  /\ nextp = [c \in Conns |-> InitNeighbour(c, 1)]
  /\ prevp = [c \in Conns |-> InitNeighbour(c, -1)]
  /\ serviced = 0 /\ ev = NoEvent /\ connEvent = [c \in Conns |-> FALSE]
  /\ seen = {} /\ removed = {} /\ listOps = 0

(* robotraconteurlite_node_add_connection: append at the tail.  Nothing  *)
(* resets the connection's own next pointer.                             *)
AddConnection(c) ==
  /\ listOps < MaxListOps /\ c \notin Listed /\ (Readd \/ c \notin removed)
  /\ IF head # Nil
       THEN /\ nextp' = [nextp EXCEPT ![tail] = c]
            /\ prevp' = [prevp EXCEPT ![c] = tail]
            /\ tail' = c /\ UNCHANGED <<head, cursor>>
       ELSE /\ head' = c /\ tail' = c /\ cursor' = c
            /\ UNCHANGED <<nextp, prevp>>
  /\ listOps' = listOps + 1
  /\ UNCHANGED <<connVars, serviced, ev, connEvent, seen, removed>>

(* Mutant: removing the last connection leaves the tail on it. *)
RemoveConnectionKeepsTail(c) ==
  /\ listOps < MaxListOps /\ c \in Listed
  /\ IF prevp[c] # Nil
       THEN nextp' = [nextp EXCEPT ![prevp[c]] = nextp[c]] /\ UNCHANGED head
       ELSE head' = nextp[c] /\ UNCHANGED nextp
  /\ IF nextp[c] # Nil
       THEN prevp' = [prevp EXCEPT ![nextp[c]] = prevp[c]]
       ELSE UNCHANGED prevp
  /\ UNCHANGED tail
  /\ removed' = removed \cup {c} /\ listOps' = listOps + 1
  /\ UNCHANGED <<connVars, cursor, serviced, ev, connEvent, seen>>

(* robotraconteurlite_node_remove_connection: unlink c from its          *)
(* neighbours.  c keeps its own next and prev, and the cursor may still  *)
(* point at it.                                                          *)
RemoveConnection(c) ==
  /\ listOps < MaxListOps /\ c \in Listed
  /\ IF prevp[c] # Nil
       THEN nextp' = [nextp EXCEPT ![prevp[c]] = nextp[c]] /\ UNCHANGED head
       ELSE head' = nextp[c] /\ UNCHANGED nextp
  /\ IF nextp[c] # Nil
       THEN prevp' = [prevp EXCEPT ![nextp[c]] = prevp[c]] /\ UNCHANGED tail
       ELSE tail' = prevp[c] /\ UNCHANGED prevp
  /\ removed' = removed \cup {c} /\ listOps' = listOps + 1
  /\ UNCHANGED <<connVars, cursor, serviced, ev, connEvent, seen>>
-----------------------------------------------------------------------------
(* The event next_event reports for c, in the order it tests them:       *)
(* is_closed_event, is_error, is_connected_event,                        *)
(* is_message_received_event; "NONE" if none holds.                      *)
EventOf(c) ==
  CASE "CLOSED" \in flags[c] -> "CONNECTION_CLOSED"
    [] "ERROR" \in flags[c] -> "CONNECTION_ERROR"
    [] connEvent[c] -> "CONNECTION_CONNECTED"
    [] "MESSAGE_RECEIVED" \in flags[c] /\ "MESSAGE_CONSUMED" \notin flags[c] -> "MESSAGE_RECEIVED"
    [] OTHER -> "NONE"

(* node_receive_messageentry: the status of reading the received         *)
(* message's header and first entry header, through message_receive.    *)
ReceiveEntryStatus(c) ==
  CASE MessageReceiveStatus(c) # "SUCCESS" -> MessageReceiveStatus(c)
    [] peer[c].parses -> "SUCCESS"
    [] OTHER -> "PROTOCOL"

(* The do-while loop of next_event from connection x with fuel steps     *)
(* left: the event found, its connection, its error code and where the   *)
(* cursor is left.  A walk longer than the pool has met a cycle in the   *)
(* next pointers and never returns (HANG).                               *)
RECURSIVE Scan(_, _)
Scan(x, fuel) ==
  CASE x = Nil -> [type |-> "NEXT_CYCLE", conn |-> Nil, err |-> "SUCCESS", next |-> Nil]
    [] fuel = 0 -> [type |-> "HANG", conn |-> Nil, err |-> "SUCCESS", next |-> x]
    [] EventOf(x) = "MESSAGE_RECEIVED" ->
         [type |-> EventOf(x), conn |-> x, err |-> ReceiveEntryStatus(x), next |-> nextp[x]]
    [] EventOf(x) # "NONE" -> [type |-> EventOf(x), conn |-> x, err |-> "SUCCESS", next |-> nextp[x]]
    [] OTHER -> Scan(nextp[x], fuel - 1)

(* Mutant: the cursor is not advanced past a connection that has an event. *)
ReportScanStaysPut(s) ==
  /\ cursor' = IF s.conn = Nil THEN s.next ELSE s.conn
  /\ ev' = [type |-> s.type, conn |-> s.conn, err |-> s.err, user |-> FALSE]
  /\ serviced' = IF s.conn = Nil THEN serviced ELSE serviced + 1
  /\ seen' = IF s.conn = Nil THEN seen ELSE seen \cup {s.conn}

(* next_event's effect once the loop has ended with s. *)
ReportScan(s) ==
  /\ cursor' = s.next
  /\ ev' = [type |-> s.type, conn |-> s.conn, err |-> s.err, user |-> FALSE]
  /\ serviced' = IF s.conn = Nil THEN serviced ELSE serviced + 1
  /\ seen' = IF s.conn = Nil THEN seen ELSE seen \cup {s.conn}

(* robotraconteurlite_node_next_event, called once the previous event is *)
(* handled.                                                               *)
NextEvent ==
  /\ ev = NoEvent
  /\ ReportScan(Scan(cursor, Cardinality(Conns)))
  /\ UNCHANGED <<connVars, head, tail, nextp, prevp, connEvent, removed, listOps>>

(* consume_message_received (message_receive_consume), on the flag set. *)
ConsumeReceived(f) == IF "MESSAGE_RECEIVED" \in f THEN f \cup {"MESSAGE_CONSUMED"} ELSE f

(* Mutant: NEXT_CYCLE leaves the cursor where it is. *)
RewindNoCursor ==
  cursor' = cursor /\ serviced' = 0 /\ seen' = {}

(* consume_event on NEXT_CYCLE: the cursor back to the head. *)
Rewind ==
  cursor' = head /\ serviced' = 0 /\ seen' = {}

(* robotraconteurlite_node_consume_event, for the event the loop holds. *)
ConsumeEvent ==
  /\ ev # NoEvent /\ ev.type # "HANG"
  /\ ev.type = "MESSAGE_RECEIVED" => ev.user
  /\ ev' = NoEvent
  /\ \/ /\ ev.type = "NEXT_CYCLE"
        /\ Rewind
        /\ UNCHANGED <<connVars, head, tail, nextp, prevp, connEvent, removed, listOps>>
     \/ /\ ev.type = "CONNECTION_CLOSED"
        /\ ConsumeClosed(ev.conn)
        /\ connEvent' = [connEvent EXCEPT ![ev.conn] = FALSE]
        /\ UNCHANGED <<head, tail, cursor, nextp, prevp, serviced, seen, removed, listOps>>
     \/ /\ ev.type = "CONNECTION_ERROR"
        /\ UNCHANGED <<connVars, head, tail, cursor, nextp, prevp, serviced, connEvent, seen, removed, listOps>>
     \/ /\ ev.type = "CONNECTION_CONNECTED"
        /\ connEvent' = [connEvent EXCEPT ![ev.conn] = FALSE]
        /\ UNCHANGED <<connVars, head, tail, cursor, nextp, prevp, serviced, seen, removed, listOps>>
     \/ /\ ev.type = "MESSAGE_RECEIVED"
        /\ flags' = [flags EXCEPT ![ev.conn] = ConsumeReceived(@)]
        /\ UNCHANGED <<rpos, rlen, peer, nRecvd, sendBuf, nSends, wire>>
        /\ UNCHANGED <<head, tail, cursor, nextp, prevp, serviced, connEvent, seen, removed, listOps>>

(* Entry types special_request tells apart (message.h). *)
STREAMOP == 1
GETSERVICEDESC == 101
OBJECTTYPENAME == 103
CONNECTCLIENT == 107

(* robotraconteurlite_connection_is_server: the model's connections are *)
(* all accepted by the transport.                                       *)
IsServer(c) == TRUE

(* The loop's step once special_request has returned CONSUMED or RETRY: *)
(* the connection's flags become f, the send outcome o is applied, and  *)
(* the loop drops the event (a message left unconsumed is reported      *)
(* again).                                                               *)
Decided(c, f, o) ==
  /\ flags' = [flags EXCEPT ![c] = f]
  /\ ApplySend(c, o)
  /\ ev' = NoEvent
  /\ UNCHANGED <<rpos, rlen, peer, nRecvd, wire>>

(* No send: the outcome that leaves the send buffer as it is. *)
NoSend(c) == [st |-> "SUCCESS", f |-> flags[c], buf |-> sendBuf[c], n |-> nSends[c]]

(* event_special_request_handle_error after a failed send with outcome o: *)
(* RETRY is passed up, anything else is connection_error and consume.    *)
HandleError(c, o) ==
  IF o.st = "RETRY"
    THEN Decided(c, flags[c], o)
    ELSE Decided(c, ConsumeReceived(o.f \cup {"ERROR"}), o)

(* A handled request: the send with outcome o succeeded or failed; on    *)
(* success the flags S are set and the message consumed.                 *)
Answer(c, o, S) ==
  IF o.st # "SUCCESS" THEN HandleError(c, o)
  ELSE Decided(c, ConsumeReceived(o.f \cup S), o)

(* The user's turn: the call returns SUCCESS and the loop hands the      *)
(* message to the application, which consumes it.                        *)
UserTurn ==
  /\ ev' = [ev EXCEPT !.user = TRUE]
  /\ UNCHANGED <<flags, rpos, rlen, peer, nRecvd, sendBuf, nSends, wire>>

(* robotraconteurlite_connection_send_messageentry_error_response: begin *)
(* the response, write errorname and errorstring (fin: both fit), end it; *)
(* each failure returns at once and leaves the partial message behind.    *)
ErrorResponse(c, fin) == SendOutcome(c, fin, TRUE)

(* robotraconteurlite_node_event_special_request on a received message. *)
(* CONNECTCLIENT calls event_special_request_read_message_header and     *)
(* begin_send_messageentry_empty_response, which node.c does not define. *)
(* The first reads a header out of the received message: it succeeds or  *)
(* fails with an error, which goes to handle_error.  The second takes     *)
(* the arguments of send_messageentry_empty_response (node.c:360) and is  *)
(* taken to be it: begin, end, and the send handed to the transport.     *)
SpecialRequest ==
  /\ ev.type = "MESSAGE_RECEIVED" /\ ~ev.user
  /\ LET c == ev.conn
         h == peer[c]
     IN CASE h.etype > 500 -> UserTurn
          [] ev.err # "SUCCESS" ->
               Decided(c, ConsumeReceived(flags[c] \cup {"ERROR"}), NoSend(c))
          [] h.etype = STREAMOP /\ h.create /\ IsServer(c) /\ "ESTABLISHED" \notin flags[c] ->
               \E fin \in BOOLEAN : Answer(c, SendOutcome(c, fin, TRUE), {"ESTABLISHED"})
          [] h.etype \in {GETSERVICEDESC, OBJECTTYPENAME} -> UserTurn
          [] h.etype = CONNECTCLIENT ->
               \/ HandleError(c, [NoSend(c) EXCEPT !.st = "PROTOCOL"])
               \/ \E fin \in BOOLEAN : Answer(c, SendOutcome(c, fin, TRUE), {"CLIENT_ESTABLISHED"})
          [] h.etype % 2 = 1 ->
               \E fin \in BOOLEAN :
                 IF ErrorResponse(c, fin).st = "RETRY"
                   THEN Decided(c, flags[c], NoSend(c))
                   ELSE Decided(c, ConsumeReceived(ErrorResponse(c, fin).f), ErrorResponse(c, fin))
          [] OTHER -> Decided(c, ConsumeReceived(CloseFlags(flags[c])), NoSend(c))
  /\ UNCHANGED <<head, tail, cursor, nextp, prevp, serviced, connEvent, seen, removed, listOps>>

-----------------------------------------------------------------------------
(* The transport, between the loop's calls; an accepted connection has a *)
(* connected event pending.                                               *)
Transport(c) ==
  \/ TransportAccept(c) /\ connEvent' = [connEvent EXCEPT ![c] = TRUE]
     /\ UNCHANGED <<head, tail, cursor, nextp, prevp, serviced, ev, seen, removed, listOps>>
  \/ /\ \/ TransportReceive(c) \/ TransportReceiveNext(c) \/ TransportStartSend(c)
        \/ TransportSent(c) \/ TransportSentConsumed(c) \/ TransportError(c)
        \/ TransportClose(c)
     /\ UNCHANGED nodeVars

(* robotraconteurlite_node_shutdown: close every connection reached from *)
(* connections_head by next until a null pointer.  On a list that has    *)
(* become a cycle the walk never ends: the call does not return, and the *)
(* application's loop is stuck (HANG) like next_event on such a list.    *)
Shutdown ==
  /\ flags' = [c \in Conns |-> IF c \in Listed THEN CloseFlags(flags[c]) ELSE flags[c]]
  /\ UNCHANGED <<rpos, rlen, peer, nRecvd, sendBuf, nSends, wire>>
  /\ ev' = IF Len(ListSeq) > Cardinality(Conns) THEN [NoEvent EXCEPT !.type = "HANG"] ELSE ev
  /\ UNCHANGED <<head, tail, cursor, nextp, prevp, serviced, connEvent, seen, removed, listOps>>

(* The application's own calls on a connection. *)
AppCall(c) ==
  \/ (SendMessage(c) \/ Close(c)) /\ UNCHANGED nodeVars
  \/ AddConnection(c) \/ RemoveConnection(c)

(* The loop: next_event, special_request, consume_event. *)
Loop == NextEvent \/ SpecialRequest \/ ConsumeEvent

NodeNext == Loop \/ Shutdown \/ \E c \in Conns : Transport(c) \/ AppCall(c)

(* The application's loop runs as long as it has work (spec section 6);  *)
(* the transport and the application's other calls get no fairness.      *)
NodeSpec == NodeInit /\ [][NodeNext]_vars /\ WF_vars(Loop)

-----------------------------------------------------------------------------
NodeTypeOK ==
  /\ TypeOK
  /\ {head, tail, cursor} \subseteq Conns \cup {Nil}
  /\ nextp \in [Conns -> Conns \cup {Nil}] /\ prevp \in [Conns -> Conns \cup {Nil}]
  /\ serviced \in Nat /\ seen \subseteq Conns /\ removed \subseteq Conns
  /\ ev.type \in EventTypes \cup {"NONE"} /\ ev.conn \in Conns \cup {Nil}
  /\ ev.err \in Statuses /\ ev.user \in BOOLEAN
  /\ connEvent \in [Conns -> BOOLEAN] /\ listOps \in 0 .. MaxListOps

(* The connection list stays a list after any sequence of add_connection *)
(* and remove_connection: the walk from connections_head ends at Nil     *)
(* within the pool, its last node is connections_tail, and every prev    *)
(* pointer on it is the inverse of the next pointer.                     *)
ListWellFormed ==
  /\ Len(ListSeq) <= Cardinality(Conns)
  /\ (head = Nil) = (tail = Nil)
  /\ ListSeq # << >> => Last(ListSeq) = tail /\ prevp[head] = Nil
  /\ \A i \in 1 .. Len(ListSeq) - 1 : prevp[ListSeq[i + 1]] = ListSeq[i]

(* next_event services each connection at most once per cycle (spec      *)
(* section 5): between two consumed NEXT_CYCLE events it never reports a *)
(* connection it has already reported, even one whose error event        *)
(* cannot be consumed.                                                   *)
ReportedOncePerCycle == [][NextEvent => ev'.conn \notin seen]_vars

(* Round robin: an event pending on a connection in the list is          *)
(* eventually reported by next_event, unless the event goes away or the  *)
(* connection leaves the list first.                                     *)
EveryEventReported ==
  \A c \in Conns :
    (c \in Listed /\ EventOf(c) # "NONE")
      ~> (ev.conn = c \/ c \notin Listed \/ EventOf(c) = "NONE")

(* next_event reports events only of connections in the node's list.    *)
EventsOnlyForListed == [][NextEvent => ev'.conn \in Listed \cup {Nil}]_vars

(* special_request answers every request it consumes itself: a step     *)
(* that consumes a request (odd entry type below 500) hands a response  *)
(* to the transport, unless the connection is failing.                  *)
RequestsAnswered ==
  [][SpecialRequest /\ "MESSAGE_CONSUMED" \in flags'[ev.conn] /\ peer[ev.conn].etype % 2 = 1
       => \/ "SEND_REQUESTED" \in flags'[ev.conn]
          \/ flags'[ev.conn] \cap {"ERROR", "CLOSE_REQUESTED", "CLOSED"} # {}]_vars
====
