--------------------------- MODULE ConnectionChannel ---------------------------
(* What a connection promises its users (spec section 4.4 and 5): per      *)
(* connection a lifecycle, one slot for an outgoing message that the      *)
(* transport puts on the wire in the order the slot is filled, and one    *)
(* slot for a received message not yet consumed.  A message enters the    *)
(* outgoing slot only while the connection is open and the slot is free;  *)
(* once in the slot it is neither replaced nor lost until it is sent or    *)
(* the connection is reset.  A message taken from the inbox may be       *)
(* answered in the same step, or dropped as the connection fails.        *)
EXTENDS Sequences

CONSTANTS Conns, MsgVals

VARIABLES life, out, inbox, sent

Lives == {"idle", "open", "closing"}

TypeOK ==
  /\ life \in [Conns -> Lives]
  /\ out \in [Conns -> {<< >>} \cup {<< m >> : m \in MsgVals}]
  /\ inbox \in [Conns -> {"empty", "full"}]
  /\ sent \in [Conns -> Seq(MsgVals)]

Init ==
  /\ life = [c \in Conns |-> "idle"]
  /\ out = [c \in Conns |-> << >>]
  /\ inbox = [c \in Conns |-> "empty"]
  /\ sent = [c \in Conns |-> << >>]

Open(c) ==
  /\ life[c] = "idle" /\ life' = [life EXCEPT ![c] = "open"]
  /\ UNCHANGED <<out, inbox, sent>>

Send(c, m) ==
  /\ life[c] = "open" /\ out[c] = << >>
  /\ out' = [out EXCEPT ![c] = << m >>]
  /\ UNCHANGED <<life, inbox, sent>>

Transmit(c) ==
  /\ out[c] # << >>
  /\ sent' = [sent EXCEPT ![c] = @ \o out[c]]
  /\ out' = [out EXCEPT ![c] = << >>]
  /\ UNCHANGED <<life, inbox>>

Arrive(c) ==
  /\ life[c] # "idle" /\ inbox[c] = "empty"
  /\ inbox' = [inbox EXCEPT ![c] = "full"]
  /\ UNCHANGED <<life, out, sent>>

Take(c) ==
  /\ inbox[c] = "full" /\ inbox' = [inbox EXCEPT ![c] = "empty"]
  /\ UNCHANGED <<life, out, sent>>

(* Errors and close requests; each ends in a reset.  A shutdown closes *)
(* the connections of S in one call.                                   *)
Fail(S) ==
  /\ \E c \in S : life[c] # "closing"
  /\ life' = [c \in Conns |-> IF c \in S THEN "closing" ELSE life[c]]
  /\ UNCHANGED <<out, inbox, sent>>

Reset(c) ==
  /\ life[c] = "closing"
  /\ life' = [life EXCEPT ![c] = "idle"]
  /\ out' = [out EXCEPT ![c] = << >>]
  /\ inbox' = [inbox EXCEPT ![c] = "empty"]
  /\ UNCHANGED sent

(* The received message is taken and its reply queued in one step. *)
Reply(c, m) ==
  /\ inbox[c] = "full" /\ life[c] = "open" /\ out[c] = << >>
  /\ inbox' = [inbox EXCEPT ![c] = "empty"]
  /\ out' = [out EXCEPT ![c] = << m >>]
  /\ UNCHANGED <<life, sent>>

(* The received message is dropped as the connection fails. *)
Abandon(c) ==
  /\ inbox[c] = "full"
  /\ inbox' = [inbox EXCEPT ![c] = "empty"]
  /\ life' = [life EXCEPT ![c] = "closing"]
  /\ UNCHANGED <<out, sent>>

Next ==
  \/ \E S \in SUBSET Conns : Fail(S)
  \/ \E c \in Conns :
       \/ Open(c) \/ Transmit(c) \/ Arrive(c) \/ Take(c) \/ Reset(c)
       \/ Abandon(c)
       \/ \E m \in MsgVals : Send(c, m) \/ Reply(c, m)

Spec == Init /\ [][Next]_<<life, out, inbox, sent>>
=============================================================================
