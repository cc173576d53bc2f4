---------------------------- MODULE MCNetManager ----------------------------
(* A small instance of the net manager for TLC. *)
EXTENDS NetManager

(* Bound: of all that may be lost or missed, one thing at a time is.  A    *)
(* loss stands until a later event or message of its kind gets through.    *)
OneLossAtATime ==
    LET losses == <<lostStart, lostChannel, missed, postFailed, lostLink,
                    lostIp, lostAir>>
    IN  \A i, j \in 1 .. Len(losses) : losses[i] /\ losses[j] => i = j

(* Bound: both queues are not busy at once.  The manager's is full only    *)
(* while the event task has nothing to take.                               *)
OneQueueBusy == Len(queue) = QueueSize => events = <<>>
=============================================================================
