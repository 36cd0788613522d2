------------------------------ MODULE NextWake ------------------------------
(* robotraconteurlite_connection_next_wake as the event loop uses it: one  *)
(* next_wake value, starting at the loop's longest sleep, passed by        *)
(* pointer to next_wake of every connection in turn; the loop then sleeps  *)
(* until it.  A connection is the part of its state next_wake reads: the   *)
(* flags it tests, heartbeat_next_check_ms, heartbeat_period_ms and        *)
(* transport_next_wake.  Times are milliseconds; the clock reads Now.      *)
EXTENDS Integers, FiniteSetsExt

CONSTANTS
  Conns,       \* the connections the loop asks
  FlagSets,    \* connection states, as sets of the flags next_wake tests
  Times,       \* heartbeat and transport deadlines (0: none)
  Now,         \* the time passed as now
  Horizon      \* the loop's longest sleep, the initial next_wake

VARIABLES
  param,       \* each connection's state
  nw,          \* *next_wake
  asked        \* connections already asked

vars == <<param, nw, asked>>

Params == [flags : FlagSets, hbNext : Times, hbPeriod : {0, 1}, tw : Times]

(* next_wake on one connection with state p: the new *next_wake. *)
ConnectionNextWake(p, now, w) ==
  CASE "IDLE" \in p.flags -> w
    [] p.flags \cap {"CLOSE_REQUESTED", "ERROR"} # {} -> now
    [] "MESSAGE_SENT" \in p.flags -> now
    [] "MESSAGE_RECEIVED" \in p.flags -> now
    [] p.hbNext > 0 /\ (now > p.hbNext \/ (p.hbNext = 0 /\ p.hbPeriod > 0)) -> now
    [] OTHER ->
         LET hw == IF p.hbNext > 0 /\ p.hbNext < w THEN p.hbNext ELSE w
         IN IF p.tw > 0 /\ p.tw < hw THEN p.tw ELSE hw

Init ==
  /\ param \in [Conns -> Params]
  /\ nw = Horizon
  /\ asked = {}

(* The loop asks connection c. *)
Wake(c) ==
  /\ c \notin asked
  /\ nw' = ConnectionNextWake(param[c], Now, nw)
  /\ asked' = asked \cup {c}
  /\ UNCHANGED param

Next == \E c \in Conns : Wake(c)

Spec == Init /\ [][Next]_vars

-----------------------------------------------------------------------------
TypeOK ==
  /\ param \in [Conns -> Params]
  /\ nw \in Times \cup {Now, Horizon}
  /\ asked \subseteq Conns

(* next_wake never returns a time before now (spec section 4.4: "must    *)
(* never return a time in the past relative to now except to signal      *)
(* service immediately (returns now)").                                  *)
NeverInPast == nw >= Now
=============================================================================
