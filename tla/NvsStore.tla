------------------------------ MODULE NvsStore ------------------------------
(***************************************************************************)
(* What the NVS library promises to its callers: one group of a partition  *)
(* is a map from keys to values.  A set takes effect at one point between  *)
(* its call and its return, a set that reports an error has no effect, and *)
(* a power failure stops a set either before or after that point and       *)
(* changes nothing else.                                                   *)
(***************************************************************************)
CONSTANTS Keys,     \* the keys of the group
          Values,   \* the values; each value has one type
          TypeOf,   \* the type of each value
          None      \* no value, no call, no error

VARIABLES store,    \* what each key holds
          call,     \* the set in progress: its key and value, and whether it took effect
          reply     \* what the last call returned

vars == <<store, call, reply>>

Types == {TypeOf[v] : v \in Values}
Errors == {"NOT_FOUND", "NO_SPACE", "SECTOR_FULL"}
Reply(o, k, v, e) == [op |-> o, key |-> k, val |-> v, err |-> e]
NoReply == Reply(None, None, None, None)

Init ==
    /\ store = [k \in Keys |-> None]
    /\ call = None
    /\ reply = NoReply

SetCall(k, v) ==
    /\ call = None
    /\ call' = [key |-> k, val |-> v, done |-> FALSE]
    /\ UNCHANGED <<store, reply>>

SetTakesEffect ==
    /\ call # None
    /\ ~call.done
    /\ call' = [call EXCEPT !.done = TRUE]
    /\ UNCHANGED reply
    /\ store' = [store EXCEPT ![call.key] = call.val]

SetReturns(e) ==
    /\ call # None
    /\ call.done <=> (e = None)
    /\ reply' = Reply("set", call.key, call.val, e)
    /\ call' = None
    /\ UNCHANGED store

\* Setting what the key already holds writes nothing.
SetSame(k, v) ==
    /\ call = None
    /\ reply' = Reply("set", k, v, None)
    /\ store[k] = v
    /\ UNCHANGED <<store, call>>

Holds(k, t) == store[k] # None /\ TypeOf[store[k]] = t

Get(k, t) ==
    /\ call = None
    /\ reply' = IF Holds(k, t) THEN Reply("get", k, store[k], None)
                               ELSE Reply("get", k, None, "NOT_FOUND")
    /\ UNCHANGED <<store, call>>

Del(k, t) ==
    /\ call = None
    /\ IF Holds(k, t)
         THEN /\ reply' = Reply("del", k, None, None)
              /\ store' = [store EXCEPT ![k] = None]
         ELSE /\ reply' = Reply("del", k, None, "NOT_FOUND")
              /\ UNCHANGED store
    /\ UNCHANGED call

PowerLoss ==
    /\ call' = None
    /\ reply' = NoReply
    /\ UNCHANGED store

Next ==
    \/ \E k \in Keys, v \in Values : SetCall(k, v) \/ SetSame(k, v)
    \/ SetTakesEffect
    \/ \E e \in Errors \cup {None} : SetReturns(e)
    \/ \E k \in Keys, t \in Types : Get(k, t) \/ Del(k, t)
    \/ PowerLoss

Spec == Init /\ [][Next]_vars
=============================================================================
