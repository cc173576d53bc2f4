SPECIFICATION Spec
\* the application makes at most CallBound calls
CHECK_DEADLOCK FALSE
CONSTANTS
    Channels = {2}
    QueueSize = 2
    EventBound = 2
    CallBound = 2
CONSTRAINTS OneLossAtATime OneQueueBusy
INVARIANTS KeepsTrying StateNotOptimistic ApplicationKnows  StopIsFinal SameChannel
PROPERTY Reconnects
