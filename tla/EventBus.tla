------------------------------- MODULE EventBus -------------------------------
(***************************************************************************)
(* What the event component promises to the rest of the SDK, without its   *)
(* queue, list and task: posted messages are served one at a time in the   *)
(* order in which they were accepted, and an event is handed exactly once  *)
(* to every registration that matches it when the event is taken up - and  *)
(* to no other.  WmEvent is shown to implement this specification.         *)
(***************************************************************************)
EXTENDS Naturals, Sequences

CONSTANTS
  Entries,      \* registrations: [group, ev, cb]
  Events,       \* events a module can send: [group, ev]
  AnyGroup,     \* WM_EVENT_ANY_GROUP
  AnyType,      \* WM_EVENT_ANY_TYPE
  Capacity,     \* most messages that can be pending
  MallocFails   \* whether a registration may be dropped for want of memory

VARIABLES
  subs,      \* the set of registrations in force
  pending,   \* accepted messages not yet taken up, oldest first
  current,   \* the message being served, or NoMsg
  due        \* registrations that still have to receive the current event

busVars == <<subs, pending, current, due>>

NoMsg == [op |-> "NONE"]

BusMsg ==
  [op : {"ADD", "REMOVE"}, entry : Entries] \cup [op : {"EVENT"}, event : Events]

\* A wildcard in a registration matches anything.
Matches(e, x) ==
  /\ e.group \in {AnyGroup, x.group}
  /\ e.ev \in {AnyType, x.ev}

Init ==
  /\ subs = {}
  /\ pending = <<>>
  /\ current = NoMsg
  /\ due = {}

Post(m) ==
  /\ Len(pending) < Capacity
  /\ pending' = Append(pending, m)
  /\ UNCHANGED <<subs, current, due>>

Take ==
  /\ current = NoMsg
  /\ pending # <<>>
  /\ current' = Head(pending)
  /\ pending' = Tail(pending)
  /\ due' = IF current'.op = "EVENT"
              THEN {e \in subs : Matches(e, current'.event)} ELSE {}
  /\ UNCHANGED subs

Call(e) ==
  /\ e \in due
  /\ due' = due \ {e}
  /\ UNCHANGED <<subs, pending, current>>

Register ==
  /\ current.op = "ADD"
  /\ \/ subs' = subs \cup {current.entry}
     \/ MallocFails /\ subs' = subs
  /\ current' = NoMsg
  /\ UNCHANGED <<pending, due>>

Unregister ==
  /\ current.op = "REMOVE"
  /\ subs' = subs \ {current.entry}
  /\ current' = NoMsg
  /\ UNCHANGED <<pending, due>>

Finish ==
  /\ current.op = "EVENT"
  /\ due = {}
  /\ current' = NoMsg
  /\ UNCHANGED <<subs, pending, due>>

Next ==
  \/ \E m \in BusMsg : Post(m)
  \/ Take
  \/ \E e \in Entries : Call(e)
  \/ Register
  \/ Unregister
  \/ Finish

Spec == Init /\ [][Next]_busVars
===============================================================================
