------------------------------ MODULE MCWmEvent -------------------------------
(* Small instances of WmEvent for TLC. *)
EXTENDS WmEvent, TLC

CONSTANTS any, g1, g2, cbA, cbB

\* An exact registration, one of the same group for every type, one for all.
MCEntries ==
  {[group |-> g1, ev |-> 1, cb |-> cbA],
   [group |-> g1, ev |-> any, cb |-> cbA],
   [group |-> any, ev |-> any, cb |-> cbB]}
MCEvents == {[group |-> g1, ev |-> 1], [group |-> g2, ev |-> 1]}

OneEntry == {[group |-> g1, ev |-> 1, cb |-> cbA]}
OneEvent == {[group |-> g1, ev |-> 1]}

\* Once wm_event_init has run beside a task that was left behind, the properties
\* promise nothing more: what follows is not explored.
NotOverrun == ~overrun
===============================================================================
