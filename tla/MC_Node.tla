------------------------------ MODULE MC_Node --------------------------------
(* The node for TLC.  c1 is a pool slot linked by init_from_array; c2 is   *)
(* a connection of the caller's own that add_connection can append.        *)
(* Peers send well-framed 12-byte messages (the framing itself is checked  *)
(* by the connection run), each with an entry type special_request tells   *)
(* apart.                                                                  *)
EXTENDS Node

CONSTANTS c1, c2, NilConn

MCConns == {c1, c2}
MCOneConn == {c1}
MCInitList == << c1 >>

Msg(t, cr, ok) ==
  [magicOk |-> TRUE, version |-> 2, size |-> 12, etype |-> t, create |-> cr, parses |-> ok]

(* Messages for the application (entry type above 500). *)
MCUserMessages == {Msg(1001, FALSE, TRUE)}

(* Every kind special_request handles: CreateConnection, another stream   *)
(* op, GETSERVICEDESC, CONNECTCLIENT, an unknown request, a response, an  *)
(* application message and one receive_messageentry cannot parse; and the *)
(* preambles that take every path of verify_preamble: wrong magic, wrong  *)
(* version, and a request longer than its preamble, received in two steps. *)
MCRequests == {[Msg(11, FALSE, TRUE) EXCEPT !.magicOk = FALSE],
               [Msg(11, FALSE, TRUE) EXCEPT !.version = 3],
               [Msg(11, FALSE, TRUE) EXCEPT !.size = 64],
               Msg(STREAMOP, TRUE, TRUE), Msg(STREAMOP, FALSE, TRUE),
               Msg(GETSERVICEDESC, FALSE, TRUE), Msg(CONNECTCLIENT, FALSE, TRUE), Msg(11, FALSE, TRUE),
               Msg(12, FALSE, TRUE), Msg(1001, FALSE, TRUE), Msg(0, FALSE, FALSE)}

(* Requests special_request answers itself: CONNECTCLIENT, with its empty *)
(* response, and a request of an unknown type (11), with an error response. *)
MCAnsweredRequests == {Msg(CONNECTCLIENT, FALSE, TRUE), Msg(11, FALSE, TRUE)}
====
