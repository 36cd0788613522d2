---------------------------- MODULE MC_NextWake -----------------------------
(* Two connections; deadlines before, at and after now. *)
EXTENDS NextWake

CONSTANTS n1, n2

MCConns == {n1, n2}
(* One state per test of next_wake, and IDLE with a received message to *)
(* show that IDLE is tested first.                                       *)
MCFlagSets == {{}, {"IDLE"}, {"CLOSE_REQUESTED"}, {"ERROR"}, {"MESSAGE_SENT"},
               {"MESSAGE_RECEIVED"}, {"IDLE", "MESSAGE_RECEIVED"}}
MCTimes == 0 .. 3
MCNow == 2
MCHorizon == 4
=============================================================================
