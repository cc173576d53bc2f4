-------------------------- MODULE NetManagerProofs --------------------------
(***************************************************************************)
(* Proofs about the net manager, for any channels, any queue size and any  *)
(* number of pending events and calls.                                     *)
(***************************************************************************)
EXTENDS NetManager, TLAPS

Asks == \E msg \in Messages : Ask(msg)

LEMMA ApplicationAsks == Application => Asks
BY NetManagerAssumption DEF Application, Asks, StartStation, StopStation,
   StartSoftap,
   StopSoftap, SetSoftapIp, Message, Messages, Known, NoChannel

LEMMA ChannelTypes ==
    /\ NoChannel \in Known /\ DefaultChannel \in Known /\ Channels \subseteq Known
    /\ NoChannel # DefaultChannel /\ NoEvent \in Events /\ NoEvent.type = "none"
BY DEF Known, NoEvent, Event, Events, NoChannel, DefaultChannel

LEMMA RecordTypes ==
    /\ Message("START_CONNECT", FALSE, NoChannel) \in Messages
    /\ \A c \in Known : Message("RF_CHANNEL_CHANGE", FALSE, c) \in Messages
    /\ Event("STA_DISCONNECTED", NoChannel) \in Events
    /\ Event("STA_LOST_IP", NoChannel) \in Events
    /\ Event("STA_GOT_IP", NoChannel) \in Events
    /\ Event("AP_START", NoChannel) \in Events
    /\ Event("AP_STOP", NoChannel) \in Events
    /\ \A c \in Known : Event("STA_CONNECTED", c) \in Events
BY ChannelTypes DEF Message, Messages, Event, Events

(* What is left when the first element is taken. *)
LEMMA FirstTaken ==
    ASSUME NEW S, NEW s \in Seq(S), s # <<>>
    PROVE  /\ Len(s) \in Nat \ {0} /\ Head(s) = s[1] /\ Head(s) \in S
           /\ Tail(s) \in Seq(S) /\ Len(Tail(s)) = Len(s) - 1
           /\ \A i \in 1 .. Len(s) - 1 : Tail(s)[i] = s[i + 1]
OBVIOUS

(* An event that is accepted fits, and one that is refused changes nothing.*)
LEMMA NotifyTypes ==
    ASSUME TypeOK, NEW x \in Events, NEW b \in BOOLEAN, Notify(x, b)
    PROVE  events' \in Seq(Events) /\ Len(events') <= EventBound
<1>1. events \in Seq(Events) /\ Len(events) <= EventBound /\ EventBound \in Nat
  BY NetManagerAssumption DEF TypeOK, QueueTypes
<1>2. CASE b
  BY <1>1, <1>2 DEF Notify
<1>3. CASE ~b
  BY <1>1, <1>3 DEF Notify
<1> QED BY <1>2, <1>3

LEMMA TypeStep == TypeOK /\ [Next]_vars => TypeOK'
<1> SUFFICES ASSUME TypeOK, [Next]_vars PROVE TypeOK'
  OBVIOUS
<1> USE NetManagerAssumption, ChannelTypes DEF manager, station, softap,
   evtask, posts, radio, netifs, lost, refused, wanted
<1>1. CASE Application
  <2>1. PICK msg \in Messages : Ask(msg)
    BY <1>1, ApplicationAsks DEF Asks
  <2>2. FlagTypes'
    BY <2>1, ZenonT(60) DEF TypeOK, FlagTypes, Ask
  <2>3. StateTypes'
    BY <2>1 DEF TypeOK, StateTypes, Ask
  <2>4. QueueTypes'
    BY <2>1 DEF TypeOK, QueueTypes, Ask, Sent
  <2> QED BY <2>2, <2>3, <2>4 DEF TypeOK
<1>2. CASE TimerFires
  <2>1. FlagTypes'
    BY <1>2, ZenonT(60) DEF TypeOK, FlagTypes, TimerFires, Sent, NotSent, Message
  <2>2. StateTypes'
    BY <1>2 DEF TypeOK, StateTypes, TimerFires, Sent, NotSent, Message
  <2>3. QueueTypes'
    <3> DEFINE msg == Message("START_CONNECT", FALSE, NoChannel)
    <3>1. msg \in Messages
      BY RecordTypes
    <3>2. \/ queue' = queue
          \/ Len(queue) < QueueSize /\ queue' = Append(queue, msg)
      BY <1>2 DEF TimerFires, Sent, NotSent
    <3>3. UNCHANGED <<events, handling>>
      BY <1>2 DEF TimerFires
    <3> HIDE DEF msg
    <3> QED BY <3>1, <3>2, <3>3 DEF TypeOK, QueueTypes
  <2> QED BY <2>1, <2>2, <2>3 DEF TypeOK
<1>3. CASE TakeStartIgnored
  <2>1. FlagTypes'
    BY <1>3, ZenonT(60) DEF TypeOK, FlagTypes, TakeStartIgnored, Take, StartIgnored
  <2>2. StateTypes'
    BY <1>3 DEF TypeOK, StateTypes, TakeStartIgnored, Take, StartIgnored
  <2>3. QueueTypes'
    BY <1>3 DEF TypeOK, QueueTypes, TakeStartIgnored,
       Take, StartIgnored
  <2> QED BY <2>1, <2>2, <2>3 DEF TypeOK
<1>4. CASE TakeStart
  <2>1. FlagTypes'
    BY <1>4, ZenonT(60) DEF TypeOK, FlagTypes, TakeStart, Take, StartIgnored
  <2>2. StateTypes'
    BY <1>4 DEF TypeOK, StateTypes, TakeStart, Take, StartIgnored
  <2>3. QueueTypes'
    BY <1>4 DEF TypeOK, QueueTypes, TakeStart, Take,
       StartIgnored
  <2> QED BY <2>1, <2>2, <2>3 DEF TypeOK
<1>5. CASE ConnectFails
  <2>1. FlagTypes'
    BY <1>5, ZenonT(60) DEF TypeOK, FlagTypes, ConnectFails, Armed
  <2>2. StateTypes'
    BY <1>5 DEF TypeOK, StateTypes, ConnectFails, Armed
  <2>3. QueueTypes'
    BY <1>5 DEF TypeOK, QueueTypes, ConnectFails, Armed
  <2> QED BY <2>1, <2>2, <2>3 DEF TypeOK
<1>6. CASE ConnectStarts
  <2>1. FlagTypes'
    BY <1>6, ZenonT(60) DEF TypeOK, FlagTypes, ConnectStarts
  <2>2. StateTypes'
    BY <1>6 DEF TypeOK, StateTypes, ConnectStarts
  <2>3. QueueTypes'
    BY <1>6 DEF TypeOK, QueueTypes, ConnectStarts
  <2> QED BY <2>1, <2>2, <2>3 DEF TypeOK
<1>7. CASE ConnectReturns
  <2>1. FlagTypes'
    BY <1>7, ZenonT(60) DEF TypeOK, FlagTypes, ConnectReturns, Armed
  <2>2. StateTypes'
    BY <1>7 DEF TypeOK, StateTypes, States, ConnectReturns, Armed
  <2>3. QueueTypes'
    BY <1>7 DEF TypeOK, QueueTypes, ConnectReturns, Armed
  <2> QED BY <2>1, <2>2, <2>3 DEF TypeOK
<1>8. CASE TakeDisconnect
  <2>1. FlagTypes'
    BY <1>8, ZenonT(60) DEF TypeOK, FlagTypes, TakeDisconnect, Take, Event, NotifyLink, Notify
  <2>2. StateTypes'
    BY <1>8 DEF TypeOK, StateTypes, TakeDisconnect, Take, Event, NotifyLink, Notify
  <2>3. QueueTypes'
    <3>1. events' \in Seq(Events) /\ Len(events') <= EventBound
      BY <1>8, RecordTypes, NotifyTypes DEF TypeOK, QueueTypes, TakeDisconnect, NotifyLink
    <3> QED BY <1>8, <3>1, FirstTaken DEF TypeOK, QueueTypes, TakeDisconnect, Take
  <2> QED BY <2>1, <2>2, <2>3 DEF TypeOK
<1>9. CASE DisconnectReturns
  <2>1. FlagTypes'
    BY <1>9, ZenonT(60) DEF TypeOK, FlagTypes, DisconnectReturns
  <2>2. StateTypes'
    BY <1>9 DEF TypeOK, StateTypes, States, DisconnectReturns
  <2>3. QueueTypes'
    BY <1>9 DEF TypeOK, QueueTypes, DisconnectReturns
  <2> QED BY <2>1, <2>2, <2>3 DEF TypeOK
<1>10. CASE TakeChannelSame
  <2>1. FlagTypes'
    BY <1>10, ZenonT(60) DEF TypeOK, FlagTypes, TakeChannelSame, Take
  <2>2. StateTypes'
    <3>1. Head(queue) \in Messages
      BY <1>10, FirstTaken DEF TypeOK, QueueTypes, TakeChannelSame, Take
    <3>2. Head(queue).channel \in Known
      BY <3>1 DEF Messages
    <3> QED BY <1>10, <3>2 DEF TypeOK, StateTypes, TakeChannelSame, Take
  <2>3. QueueTypes'
    BY <1>10 DEF TypeOK, QueueTypes, TakeChannelSame, Take
  <2> QED BY <2>1, <2>2, <2>3 DEF TypeOK
<1>11. CASE TakeChannelMove
  <2>1. FlagTypes'
    BY <1>11, ZenonT(60) DEF TypeOK, FlagTypes, TakeChannelMove, Take
  <2>2. StateTypes'
    <3>1. Head(queue) \in Messages
      BY <1>11, FirstTaken DEF TypeOK, QueueTypes, TakeChannelMove, Take
    <3>2. Head(queue).channel \in Known
      BY <3>1 DEF Messages
    <3> QED BY <1>11, <3>2 DEF TypeOK, StateTypes, TakeChannelMove, Take
  <2>3. QueueTypes'
    BY <1>11 DEF TypeOK, QueueTypes, TakeChannelMove, Take
  <2> QED BY <2>1, <2>2, <2>3 DEF TypeOK
<1>12. CASE TakeApStart
  <2>1. FlagTypes'
    <3>1. Head(queue) \in Messages
      BY <1>12, FirstTaken DEF TypeOK, QueueTypes, TakeApStart, Take
    <3>2. Head(queue).ssid \in BOOLEAN
      BY <3>1 DEF Messages
    <3> QED BY <1>12, <3>2, ZenonT(60) DEF TypeOK, FlagTypes, TakeApStart, Take
  <2>2. StateTypes'
    BY <1>12 DEF TypeOK, StateTypes, TakeApStart, Take
  <2>3. QueueTypes'
    BY <1>12 DEF TypeOK, QueueTypes, TakeApStart, Take
  <2> QED BY <2>1, <2>2, <2>3 DEF TypeOK
<1>13. CASE ApConfigIgnored
  <2>1. FlagTypes'
    BY <1>13, ZenonT(60) DEF TypeOK, FlagTypes, ApConfigIgnored
  <2>2. StateTypes'
    BY <1>13 DEF TypeOK, StateTypes, ApConfigIgnored
  <2>3. QueueTypes'
    BY <1>13 DEF TypeOK, QueueTypes, ApConfigIgnored
  <2> QED BY <2>1, <2>2, <2>3 DEF TypeOK
<1>14. CASE ApConfigure
  <2>1. FlagTypes'
    BY <1>14, ZenonT(60) DEF TypeOK, FlagTypes, ApConfigure, ApIgnored, ApChannel
  <2>2. StateTypes'
    BY <1>14 DEF TypeOK, StateTypes, ApConfigure, ApIgnored, ApChannel
  <2>3. QueueTypes'
    BY <1>14 DEF TypeOK, QueueTypes, ApConfigure,
       ApIgnored, ApChannel
  <2> QED BY <2>1, <2>2, <2>3 DEF TypeOK
<1>15. CASE ApStartFails
  <2>1. FlagTypes'
    BY <1>15, ZenonT(60) DEF TypeOK, FlagTypes, ApStartFails
  <2>2. StateTypes'
    BY <1>15 DEF TypeOK, StateTypes, ApStartFails
  <2>3. QueueTypes'
    BY <1>15 DEF TypeOK, QueueTypes, ApStartFails
  <2> QED BY <2>1, <2>2, <2>3 DEF TypeOK
<1>16. CASE ApStartOk
  <2>1. FlagTypes'
    <3>1. lostAir' \in BOOLEAN
      BY <1>16, ZenonT(60) DEF TypeOK, FlagTypes, ApStartOk, NotifyAir
    <3> QED BY <1>16, <3>1, ZenonT(60) DEF TypeOK, FlagTypes, ApStartOk
  <2>2. StateTypes'
    BY <1>16 DEF TypeOK, StateTypes, ApStartOk, NotifyAir, Notify, Event
  <2>3. QueueTypes'
    <3>1. events' \in Seq(Events) /\ Len(events') <= EventBound
      BY <1>16, RecordTypes, NotifyTypes DEF TypeOK, QueueTypes, ApStartOk, NotifyAir
    <3> QED BY <1>16, <3>1 DEF TypeOK, QueueTypes, ApStartOk
  <2> QED BY <2>1, <2>2, <2>3 DEF TypeOK
<1>17. CASE TakeApStop
  <2>1. FlagTypes'
    BY <1>17, ZenonT(60) DEF TypeOK, FlagTypes, TakeApStop, Take, Event, NotifyAir, Notify
  <2>2. StateTypes'
    BY <1>17 DEF TypeOK, StateTypes, TakeApStop, Take, Event, NotifyAir, Notify
  <2>3. QueueTypes'
    <3>1. events' \in Seq(Events) /\ Len(events') <= EventBound
      BY <1>17, RecordTypes, NotifyTypes DEF TypeOK, QueueTypes, TakeApStop, NotifyAir
    <3> QED BY <1>17, <3>1, FirstTaken DEF TypeOK, QueueTypes, TakeApStop, Take
  <2> QED BY <2>1, <2>2, <2>3 DEF TypeOK
<1>18. CASE ApStopReturns
  <2>1. FlagTypes'
    BY <1>18, ZenonT(60) DEF TypeOK, FlagTypes, ApStopReturns
  <2>2. StateTypes'
    BY <1>18 DEF TypeOK, StateTypes, ApStopReturns
  <2>3. QueueTypes'
    BY <1>18 DEF TypeOK, QueueTypes, ApStopReturns
  <2> QED BY <2>1, <2>2, <2>3 DEF TypeOK
<1>19. CASE ConnectedTaken
  <2>1. FlagTypes'
    BY <1>19, ZenonT(60) DEF TypeOK, FlagTypes, ConnectedTaken, TakeEvent, Heads
  <2>2. StateTypes'
    BY <1>19 DEF TypeOK, StateTypes, ConnectedTaken, TakeEvent, Heads
  <2>3. QueueTypes'
    BY <1>19, RecordTypes, FirstTaken DEF TypeOK, QueueTypes,
       ConnectedTaken, TakeEvent, Heads
  <2> QED BY <2>1, <2>2, <2>3 DEF TypeOK
<1>20. CASE ConnectedHandled
  <2>1. FlagTypes'
    BY <1>20, ZenonT(60) DEF TypeOK, FlagTypes, ConnectedHandled, Handled, Sent,
       NotSent, Message, TimerAfterConnect
  <2>2. StateTypes'
    BY <1>20 DEF TypeOK, StateTypes, States, ConnectedHandled, Handled, Sent, NotSent, Message, TimerAfterConnect
  <2>3. QueueTypes'
    <3>1. handling.channel \in Known
      BY DEF TypeOK, QueueTypes, Events
    <3> DEFINE msg == Message("RF_CHANNEL_CHANGE", FALSE, handling.channel)
    <3>2. msg \in Messages
      BY <3>1, RecordTypes
    <3>3. \/ queue' = queue
          \/ Len(queue) < QueueSize /\ queue' = Append(queue, msg)
      BY <1>20 DEF ConnectedHandled, Sent, NotSent
    <3>4. events' = events /\ handling' \in Events
      BY <1>20 DEF ConnectedHandled, Handled
    <3> HIDE DEF msg
    <3> QED BY <3>2, <3>3, <3>4 DEF TypeOK, QueueTypes
  <2> QED BY <2>1, <2>2, <2>3 DEF TypeOK
<1>21. CASE DisconnectedTaken
  <2>1. FlagTypes'
    BY <1>21, ZenonT(60) DEF TypeOK, FlagTypes, DisconnectedTaken, TakeEvent,
       Heads, PostSta, LastEvent
  <2>2. StateTypes'
    BY <1>21 DEF TypeOK, StateTypes, DisconnectedTaken, TakeEvent, Heads, PostSta, LastEvent
  <2>3. QueueTypes'
    BY <1>21, RecordTypes, FirstTaken DEF TypeOK, QueueTypes,
       DisconnectedTaken, TakeEvent, Heads
  <2> QED BY <2>1, <2>2, <2>3 DEF TypeOK
<1>22. CASE DisconnectedHandled
  <2>1. FlagTypes'
    BY <1>22, ZenonT(60) DEF TypeOK, FlagTypes, DisconnectedHandled, Handled,
       TimerAfterDisconnect, Armed, Event, NotifyIp, Notify
  <2>2. StateTypes'
    BY <1>22 DEF TypeOK, StateTypes, States, DisconnectedHandled, Handled, TimerAfterDisconnect, Armed, Event, NotifyIp, Notify
  <2>3. QueueTypes'
    <3>1. events' \in Seq(Events) /\ Len(events') <= EventBound
      BY <1>22, RecordTypes, NotifyTypes DEF TypeOK, QueueTypes, DisconnectedHandled,
         NotifyIp
    <3> QED BY <1>22, <3>1 DEF TypeOK, QueueTypes, DisconnectedHandled, Handled
  <2> QED BY <2>1, <2>2, <2>3 DEF TypeOK
<1>23. CASE GotIpHandled
  <2>1. FlagTypes'
    BY <1>23, ZenonT(60) DEF TypeOK, FlagTypes, GotIpHandled, Heads, PostSta,
       LastEvent
  <2>2. StateTypes'
    BY <1>23 DEF TypeOK, StateTypes, States, GotIpHandled, Heads, PostSta, LastEvent
  <2>3. QueueTypes'
    BY <1>23 DEF TypeOK, QueueTypes, GotIpHandled, Heads,
       PostSta, LastEvent
  <2> QED BY <2>1, <2>2, <2>3 DEF TypeOK
<1>24. CASE LostIpHandled
  <2>1. FlagTypes'
    BY <1>24, ZenonT(60) DEF TypeOK, FlagTypes, LostIpHandled, Heads, PostSta,
       LastEvent
  <2>2. StateTypes'
    BY <1>24 DEF TypeOK, StateTypes, States, LostIpHandled, Heads, PostSta, LastEvent
  <2>3. QueueTypes'
    BY <1>24 DEF TypeOK, QueueTypes, LostIpHandled, Heads,
       PostSta, LastEvent
  <2> QED BY <2>1, <2>2, <2>3 DEF TypeOK
<1>25. CASE ApStartedTaken
  <2>1. FlagTypes'
    BY <1>25, ZenonT(60) DEF TypeOK, FlagTypes, ApStartedTaken, TakeEvent, Heads
  <2>2. StateTypes'
    BY <1>25 DEF TypeOK, StateTypes, ApStartedTaken, TakeEvent, Heads
  <2>3. QueueTypes'
    BY <1>25, RecordTypes, FirstTaken DEF TypeOK, QueueTypes,
       ApStartedTaken, TakeEvent, Heads
  <2> QED BY <2>1, <2>2, <2>3 DEF TypeOK
<1>26. CASE ApStartedHandled
  <2>1. FlagTypes'
    BY <1>26, ZenonT(60) DEF TypeOK, FlagTypes, ApStartedHandled, Handled, LastEvent
  <2>2. StateTypes'
    BY <1>26 DEF TypeOK, StateTypes, ApStartedHandled, Handled, LastEvent
  <2>3. QueueTypes'
    BY <1>26 DEF TypeOK, QueueTypes, ApStartedHandled,
       Handled, LastEvent
  <2> QED BY <2>1, <2>2, <2>3 DEF TypeOK
<1>27. CASE ApStoppedTaken
  <2>1. FlagTypes'
    BY <1>27, ZenonT(60) DEF TypeOK, FlagTypes, ApStoppedTaken, TakeEvent, Heads
  <2>2. StateTypes'
    BY <1>27 DEF TypeOK, StateTypes, ApStoppedTaken, TakeEvent, Heads
  <2>3. QueueTypes'
    BY <1>27, RecordTypes, FirstTaken DEF TypeOK, QueueTypes,
       ApStoppedTaken, TakeEvent, Heads
  <2> QED BY <2>1, <2>2, <2>3 DEF TypeOK
<1>28. CASE ApStoppedHandled
  <2>1. FlagTypes'
    BY <1>28, ZenonT(60) DEF TypeOK, FlagTypes, ApStoppedHandled, Handled
  <2>2. StateTypes'
    BY <1>28 DEF TypeOK, StateTypes, ApStoppedHandled, Handled
  <2>3. QueueTypes'
    BY <1>28 DEF TypeOK, QueueTypes, ApStoppedHandled,
       Handled
  <2> QED BY <2>1, <2>2, <2>3 DEF TypeOK
<1>29. CASE Associated
  <2>1. FlagTypes'
    BY <1>29, ZenonT(60) DEF TypeOK, FlagTypes, Associated, NotifyLink, Notify, Event
  <2>2. StateTypes'
    BY <1>29 DEF TypeOK, StateTypes, Associated, NotifyLink, Notify, Event
  <2>3. QueueTypes'
    BY <1>29, RecordTypes DEF TypeOK, QueueTypes, Associated, NotifyLink, Notify
  <2> QED BY <2>1, <2>2, <2>3 DEF TypeOK
<1>30. CASE LinkLost
  <2>1. FlagTypes'
    BY <1>30, ZenonT(60) DEF TypeOK, FlagTypes, LinkLost, NotifyLink, Notify, Event
  <2>2. StateTypes'
    BY <1>30 DEF TypeOK, StateTypes, LinkLost, NotifyLink, Notify, Event
  <2>3. QueueTypes'
    BY <1>30, RecordTypes DEF TypeOK, QueueTypes, LinkLost, NotifyLink, Notify
  <2> QED BY <2>1, <2>2, <2>3 DEF TypeOK
<1>31. CASE GetsIp
  <2>1. FlagTypes'
    BY <1>31, ZenonT(60) DEF TypeOK, FlagTypes, GetsIp, NotifyIp, Notify, Event
  <2>2. StateTypes'
    BY <1>31 DEF TypeOK, StateTypes, GetsIp, NotifyIp, Notify, Event
  <2>3. QueueTypes'
    BY <1>31, RecordTypes DEF TypeOK, QueueTypes, GetsIp, NotifyIp, Notify
  <2> QED BY <2>1, <2>2, <2>3 DEF TypeOK
<1>32. CASE LosesIp
  <2>1. FlagTypes'
    BY <1>32, ZenonT(60) DEF TypeOK, FlagTypes, LosesIp, NotifyIp, Notify, Event
  <2>2. StateTypes'
    BY <1>32 DEF TypeOK, StateTypes, LosesIp, NotifyIp, Notify, Event
  <2>3. QueueTypes'
    BY <1>32, RecordTypes DEF TypeOK, QueueTypes, LosesIp, NotifyIp, Notify
  <2> QED BY <2>1, <2>2, <2>3 DEF TypeOK
<1>33. CASE ApOnAir
  <2>1. FlagTypes'
    BY <1>33, ZenonT(60) DEF TypeOK, FlagTypes, ApOnAir, NotifyAir, Notify, Event
  <2>2. StateTypes'
    BY <1>33 DEF TypeOK, StateTypes, ApOnAir, NotifyAir, Notify, Event
  <2>3. QueueTypes'
    BY <1>33, RecordTypes DEF TypeOK, QueueTypes, ApOnAir, NotifyAir, Notify
  <2> QED BY <2>1, <2>2, <2>3 DEF TypeOK
<1>34. CASE UNCHANGED vars
  BY <1>34 DEF vars, TypeOK, FlagTypes, StateTypes, QueueTypes
<1> QED
  BY <1>1, <1>2, <1>3, <1>4, <1>5, <1>6, <1>7, <1>8, <1>9, <1>10, <1>11,
     <1>12, <1>13, <1>14, <1>15, <1>16, <1>17, <1>18, <1>19, <1>20, <1>21,
     <1>22, <1>23, <1>24, <1>25, <1>26, <1>27, <1>28, <1>29, <1>30, <1>31,
     <1>32, <1>33, <1>34 DEF Next, Manager, EventTask, World

(* Whatever keeps an interface up has its configuration, and the           *)
(* configuration exists only while the application wants the interface.    *)
StationHeld ==
    /\ link # "down" => staConfig
    /\ pc \in {"connect", "connecting"} => staConfig
    /\ pc = "disconnect" => link = "down"
    /\ staConfig => staWanted
SoftapHeld ==
    /\ air # "off" => apConfig # NoChannel
    /\ pc = "apstart" => apConfig # NoChannel
    /\ pc = "apstop" => air = "off"
    /\ apConfig # NoChannel => apWanted

LEMMA HeldStep == StationHeld /\ SoftapHeld /\ [Next]_vars => StationHeld' /\ SoftapHeld'
<1> SUFFICES ASSUME StationHeld, SoftapHeld, [Next]_vars PROVE StationHeld' /\ SoftapHeld'
  OBVIOUS
<1> USE ChannelTypes DEF manager, station, softap, evtask, posts, radio,
   netifs, lost, refused, wanted
<1>1. CASE Application
  <2>1. PICK msg \in Messages : Ask(msg)
    BY <1>1, ApplicationAsks DEF Asks
  <2> QED BY <2>1 DEF StationHeld, SoftapHeld, Ask
<1>2. CASE TimerFires
  BY <1>2 DEF StationHeld, SoftapHeld, TimerFires, Sent, NotSent, Message
<1>3. CASE TakeStartIgnored
  BY <1>3 DEF StationHeld, SoftapHeld, TakeStartIgnored, Take, StartIgnored
<1>4. CASE TakeStart
  BY <1>4 DEF StationHeld, SoftapHeld, TakeStart, Take, StartIgnored
<1>5. CASE ConnectFails
  BY <1>5 DEF StationHeld, SoftapHeld, ConnectFails, Armed
<1>6. CASE ConnectStarts
  BY <1>6 DEF StationHeld, SoftapHeld, ConnectStarts
<1>7. CASE ConnectReturns
  BY <1>7 DEF StationHeld, SoftapHeld, ConnectReturns, Armed
<1>8. CASE TakeDisconnect
  BY <1>8 DEF StationHeld, SoftapHeld, TakeDisconnect, Take, Event, NotifyLink, Notify
<1>9. CASE DisconnectReturns
  BY <1>9 DEF StationHeld, SoftapHeld, DisconnectReturns
<1>10. CASE TakeChannelSame
  BY <1>10 DEF StationHeld, SoftapHeld, TakeChannelSame, Take
<1>11. CASE TakeChannelMove
  BY <1>11 DEF StationHeld, SoftapHeld, TakeChannelMove, Take
<1>12. CASE TakeApStart
  BY <1>12 DEF StationHeld, SoftapHeld, TakeApStart, Take
<1>13. CASE ApConfigIgnored
  BY <1>13 DEF StationHeld, SoftapHeld, ApConfigIgnored
<1>14. CASE ApConfigure
  BY <1>14 DEF StationHeld, SoftapHeld, ApConfigure, ApIgnored, ApChannel
<1>15. CASE ApStartFails
  BY <1>15 DEF StationHeld, SoftapHeld, ApStartFails
<1>16. CASE ApStartOk
  BY <1>16 DEF StationHeld, SoftapHeld, ApStartOk, NotifyAir, Notify, Event
<1>17. CASE TakeApStop
  BY <1>17 DEF StationHeld, SoftapHeld, TakeApStop, Take, Event, NotifyAir, Notify
<1>18. CASE ApStopReturns
  BY <1>18 DEF StationHeld, SoftapHeld, ApStopReturns
<1>19. CASE ConnectedTaken
  BY <1>19 DEF StationHeld, SoftapHeld, ConnectedTaken, TakeEvent, Heads
<1>20. CASE ConnectedHandled
  BY <1>20 DEF StationHeld, SoftapHeld, ConnectedHandled, Handled, Sent,
     NotSent, Message, TimerAfterConnect
<1>21. CASE DisconnectedTaken
  BY <1>21 DEF StationHeld, SoftapHeld, DisconnectedTaken, TakeEvent, Heads,
     PostSta, LastEvent
<1>22. CASE DisconnectedHandled
  BY <1>22 DEF StationHeld, SoftapHeld, DisconnectedHandled, Handled,
     TimerAfterDisconnect, Armed, Event, NotifyIp, Notify
<1>23. CASE GotIpHandled
  BY <1>23 DEF StationHeld, SoftapHeld, GotIpHandled, Heads, PostSta, LastEvent
<1>24. CASE LostIpHandled
  BY <1>24 DEF StationHeld, SoftapHeld, LostIpHandled, Heads, PostSta,
     LastEvent
<1>25. CASE ApStartedTaken
  BY <1>25 DEF StationHeld, SoftapHeld, ApStartedTaken, TakeEvent, Heads
<1>26. CASE ApStartedHandled
  BY <1>26 DEF StationHeld, SoftapHeld, ApStartedHandled, Handled, LastEvent
<1>27. CASE ApStoppedTaken
  BY <1>27 DEF StationHeld, SoftapHeld, ApStoppedTaken, TakeEvent, Heads
<1>28. CASE ApStoppedHandled
  BY <1>28 DEF StationHeld, SoftapHeld, ApStoppedHandled, Handled
<1>29. CASE Associated
  BY <1>29 DEF StationHeld, SoftapHeld, Associated, NotifyLink, Notify, Event
<1>30. CASE LinkLost
  BY <1>30 DEF StationHeld, SoftapHeld, LinkLost, NotifyLink, Notify, Event
<1>31. CASE GetsIp
  BY <1>31 DEF StationHeld, SoftapHeld, GetsIp, NotifyIp, Notify, Event
<1>32. CASE LosesIp
  BY <1>32 DEF StationHeld, SoftapHeld, LosesIp, NotifyIp, Notify, Event
<1>33. CASE ApOnAir
  BY <1>33 DEF StationHeld, SoftapHeld, ApOnAir, NotifyAir, Notify, Event
<1>34. CASE UNCHANGED vars
  BY <1>34 DEF vars, StationHeld, SoftapHeld
<1> QED
  BY <1>1, <1>2, <1>3, <1>4, <1>5, <1>6, <1>7, <1>8, <1>9, <1>10, <1>11,
     <1>12, <1>13, <1>14, <1>15, <1>16, <1>17, <1>18, <1>19, <1>20, <1>21,
     <1>22, <1>23, <1>24, <1>25, <1>26, <1>27, <1>28, <1>29, <1>30, <1>31,
     <1>32, <1>33, <1>34 DEF Next, Manager, EventTask, World

(* While the station is configured and its link is not up, something is    *)
(* left that leads to the next attempt.                                    *)
HasStart == \E i \in 1 .. Len(queue) : queue[i].type = "START_CONNECT"
HasLoss == \E i \in 1 .. Len(events) : events[i].type = "STA_DISCONNECTED"
Trying ==
    staConfig /\ link # "up" /\ ~lostLink =>
        \/ timer \/ lostStart \/ HasStart
        \/ pc \in {"connect", "connecting", "disconnect"}
        \/ HasLoss \/ handling.type = "STA_DISCONNECTED"

(* A connection that is reported late has its loss reported behind it. *)
LossFollows ==
    link # "up" /\ ~lostLink =>
        /\ \A i \in 1 .. Len(events) : events[i].type = "STA_CONNECTED" =>
              \E j \in i + 1 .. Len(events) : events[j].type = "STA_DISCONNECTED"
        /\ handling.type = "STA_CONNECTED" => HasLoss

LEMMA MessageTaken ==
    ASSUME TypeOK, NEW T, T # "START_CONNECT", Take(T)
    PROVE  HasStart => HasStart'
<1> SUFFICES ASSUME NEW i \in 1 .. Len(queue), queue[i].type = "START_CONNECT"
             PROVE  \E j \in 1 .. Len(queue') : queue'[j].type = "START_CONNECT"
  BY DEF HasStart
<1>1. queue \in Seq(Messages) /\ queue # <<>> /\ queue' = Tail(queue)
      /\ Head(queue).type # "START_CONNECT"
  BY DEF TypeOK, QueueTypes, Take
<1>2. i # 1
  BY <1>1, FirstTaken
<1>3. i - 1 \in 1 .. Len(queue') /\ queue'[i - 1] = queue[i]
  BY <1>1, <1>2, FirstTaken
<1> QED BY <1>3

LEMMA EventTaken ==
    ASSUME TypeOK, LossFollows, events # <<>>, events' = Tail(events), link' = link,
           lostLink' = lostLink
    PROVE  /\ link # "up" /\ ~lostLink => \A i \in 1 .. Len(events') :
                events'[i].type = "STA_CONNECTED" =>
                \E j \in i + 1 .. Len(events') : events'[j].type = "STA_DISCONNECTED"
           /\ link # "up" /\ ~lostLink /\ Head(events).type = "STA_CONNECTED" => HasLoss'
           /\ HasLoss /\ Head(events).type # "STA_DISCONNECTED" => HasLoss'
<1>1. /\ Len(events) \in Nat \ {0} /\ Head(events) = events[1]
      /\ Len(events') = Len(events) - 1
      /\ \A i \in 1 .. Len(events) - 1 : events'[i] = events[i + 1]
  BY FirstTaken DEF TypeOK, QueueTypes
<1>2. \A j \in 2 .. Len(events) :
        j - 1 \in 1 .. Len(events') /\ events'[j - 1] = events[j]
  BY <1>1
<1>3. ASSUME link # "up", ~lostLink, NEW i \in 1 .. Len(events'), events'[i].type = "STA_CONNECTED"
      PROVE  \E j \in i + 1 .. Len(events') : events'[j].type = "STA_DISCONNECTED"
  <2>1. i + 1 \in 1 .. Len(events) /\ events[i + 1].type = "STA_CONNECTED"
    BY <1>1, <1>3
  <2>2. PICK j \in i + 2 .. Len(events) : events[j].type = "STA_DISCONNECTED"
    BY <2>1, <1>3 DEF LossFollows
  <2>3. j \in 2 .. Len(events) /\ j - 1 \in i + 1 .. Len(events')
    BY <1>1, <1>3, <2>2
  <2> QED BY <1>2, <2>2, <2>3
<1>4. ASSUME link # "up", ~lostLink, Head(events).type = "STA_CONNECTED" PROVE HasLoss'
  <2>1. PICK j \in 2 .. Len(events) : events[j].type = "STA_DISCONNECTED"
    BY <1>1, <1>4 DEF LossFollows
  <2> QED BY <1>2, <2>1 DEF HasLoss
<1>5. ASSUME HasLoss, Head(events).type # "STA_DISCONNECTED" PROVE HasLoss'
  <2>1. PICK j \in 1 .. Len(events) : events[j].type = "STA_DISCONNECTED"
    BY <1>5 DEF HasLoss
  <2>2. j \in 2 .. Len(events)
    BY <1>1, <1>5, <2>1
  <2> QED BY <1>2, <2>1, <2>2 DEF HasLoss
<1> QED BY <1>3, <1>4, <1>5

(* An event that is not about the link leaves those that are in order. *)
LEMMA OtherNotified ==
    ASSUME TypeOK, LossFollows, NEW x \in Events,
           x.type \notin {"STA_CONNECTED", "STA_DISCONNECTED"},
           NEW b \in BOOLEAN, Notify(x, b), UNCHANGED <<link, lostLink>>,
           handling' \in {handling, NoEvent}
    PROVE  LossFollows' /\ (HasLoss => HasLoss')
<1>1. events \in Seq(Events)
  BY DEF TypeOK, QueueTypes
<1>2. CASE b
  BY <1>2, ChannelTypes DEF Notify, LossFollows, HasLoss
<1>3. CASE ~b
  <2>1. events' = Append(events, x)
    BY <1>3 DEF Notify
  <2>2. HasLoss => HasLoss'
    BY <1>1, <2>1 DEF HasLoss
  <2>3. /\ Len(events') = Len(events) + 1 /\ Len(events) \in Nat
        /\ events'[Len(events) + 1] = x
        /\ \A i \in 1 .. Len(events) : events'[i] = events[i]
    BY <1>1, <2>1
  <2>4. ASSUME link # "up", ~lostLink, NEW i \in 1 .. Len(events'),
               events'[i].type = "STA_CONNECTED"
        PROVE  \E j \in i + 1 .. Len(events') : events'[j].type = "STA_DISCONNECTED"
    <3>1. i \in 1 .. Len(events) /\ events[i].type = "STA_CONNECTED"
      BY <2>3, <2>4
    <3>2. PICK j \in i + 1 .. Len(events) : events[j].type = "STA_DISCONNECTED"
      BY <2>4, <3>1 DEF LossFollows
    <3>3. j \in 1 .. Len(events) /\ j \in i + 1 .. Len(events')
      BY <2>3, <3>1, <3>2
    <3> QED BY <2>3, <3>2, <3>3
  <2> QED BY <2>2, <2>4, ChannelTypes DEF LossFollows
<1> QED BY <1>2, <1>3

LEMMA OtherTypes ==
    /\ \A t \in {"AP_START", "AP_STOP", "STA_GOT_IP", "STA_LOST_IP"} :
          Event(t, NoChannel).type \notin {"STA_CONNECTED", "STA_DISCONNECTED"}
BY DEF Event

LEMMA TryStep == TypeOK /\ Trying /\ LossFollows /\ [Next]_vars => Trying' /\ LossFollows'
<1> SUFFICES ASSUME TypeOK, Trying, LossFollows, [Next]_vars PROVE Trying' /\ LossFollows'
  OBVIOUS
<1> USE ChannelTypes DEF manager, station, softap, evtask, posts, radio,
   netifs, lost, refused, wanted
<1>q. queue \in Seq(Messages) /\ events \in Seq(Events) /\ handling \in Events
  BY DEF TypeOK, QueueTypes
<1>1. CASE Application
  <2>1. PICK msg \in Messages : Ask(msg)
    BY <1>1, ApplicationAsks DEF Asks
  <2> QED BY <1>q, <2>1 DEF Trying, LossFollows, HasStart, HasLoss, Ask, Sent
<1>2. CASE TimerFires
  <2>1. Trying'
    BY <1>q, <1>2 DEF Trying, HasStart, HasLoss, LossFollows, Messages,
       Events, TimerFires, Sent, NotSent, Message
  <2>2. LossFollows'
    BY <1>q, <1>2 DEF HasLoss, LossFollows, Events, TimerFires, Sent,
       NotSent, Message
  <2> QED BY <2>1, <2>2
<1>3. CASE TakeStartIgnored
  BY <1>3 DEF Trying, LossFollows, HasStart, HasLoss, TakeStartIgnored,
     Take, StartIgnored
<1>4. CASE TakeStart
  BY <1>4 DEF Trying, LossFollows, HasStart, HasLoss, TakeStart, Take,
     StartIgnored
<1>5. CASE ConnectFails
  BY <1>5 DEF Trying, LossFollows, HasStart, HasLoss, ConnectFails, Armed
<1>6. CASE ConnectStarts
  BY <1>6 DEF Trying, LossFollows, HasStart, HasLoss, ConnectStarts
<1>7. CASE ConnectReturns
  BY <1>7 DEF Trying, LossFollows, HasStart, HasLoss, ConnectReturns, Armed
<1>8. CASE TakeDisconnect
  <2>1. Trying'
    BY <1>q, <1>8 DEF Trying, HasStart, HasLoss, LossFollows, Messages,
       Events, TakeDisconnect, Take, Event, NotifyLink, Notify
  <2>2. LossFollows'
    BY <1>q, <1>8 DEF HasLoss, LossFollows, Events, TakeDisconnect, Take, Event, NotifyLink, Notify
  <2> QED BY <2>1, <2>2
<1>9. CASE DisconnectReturns
  BY <1>9 DEF Trying, LossFollows, HasStart, HasLoss, DisconnectReturns
<1>10. CASE TakeChannelSame
  <2>1. Trying'
    <3>1. HasStart => HasStart'
      BY <1>10, MessageTaken DEF TakeChannelSame
    <3> QED BY <1>10, <3>1 DEF Trying, HasLoss, Take, TakeChannelSame
  <2>2. LossFollows'
    BY <1>q, <1>10 DEF HasLoss, LossFollows, Events, TakeChannelSame, Take
  <2> QED BY <2>1, <2>2
<1>11. CASE TakeChannelMove
  <2>1. Trying'
    <3>1. HasStart => HasStart'
      BY <1>11, MessageTaken DEF TakeChannelMove
    <3> QED BY <1>11, <3>1 DEF Trying, HasLoss, Take, TakeChannelMove
  <2>2. LossFollows'
    BY <1>q, <1>11 DEF HasLoss, LossFollows, Events, TakeChannelMove, Take
  <2> QED BY <2>1, <2>2
<1>12. CASE TakeApStart
  <2>1. Trying'
    <3>1. HasStart => HasStart'
      BY <1>12, MessageTaken DEF TakeApStart
    <3> QED BY <1>12, <3>1 DEF Trying, HasLoss, Take, TakeApStart
  <2>2. LossFollows'
    BY <1>q, <1>12 DEF HasLoss, LossFollows, Events, TakeApStart, Take
  <2> QED BY <2>1, <2>2
<1>13. CASE ApConfigIgnored
  BY <1>13 DEF Trying, LossFollows, HasStart, HasLoss, ApConfigIgnored
<1>14. CASE ApConfigure
  BY <1>14 DEF Trying, LossFollows, HasStart, HasLoss, ApConfigure,
     ApIgnored, ApChannel
<1>15. CASE ApStartFails
  BY <1>15 DEF Trying, LossFollows, HasStart, HasLoss, ApStartFails
<1>16. CASE ApStartOk
  BY <1>16 DEF Trying, LossFollows, HasStart, HasLoss, ApStartOk, NotifyAir, Notify, Event
<1>17. CASE TakeApStop
  <2>1. Trying'
    <3>1. HasStart => HasStart'
      BY <1>17, MessageTaken DEF TakeApStop
    <3>2. HasLoss => HasLoss'
      BY <1>q, <1>17 DEF HasLoss, TakeApStop, Event, NotifyAir, Notify
    <3> QED BY <1>17, <3>1, <3>2 DEF Trying, Take, TakeApStop
  <2>2. ASSUME UNCHANGED events PROVE LossFollows'
    BY <1>17, <2>2 DEF HasLoss, LossFollows, TakeApStop
  <2>3. ASSUME NotifyAir(Event("AP_STOP", NoChannel)) PROVE LossFollows'
    <3>1. PICK b \in BOOLEAN : Notify(Event("AP_STOP", NoChannel), b)
      BY <2>3 DEF NotifyAir
    <3>2. UNCHANGED <<link, lostLink, handling>>
      BY <1>17 DEF TakeApStop
    <3> QED BY <3>1, <3>2, OtherNotified, OtherTypes, RecordTypes
  <2>4. LossFollows'
    BY <1>17, <2>2, <2>3 DEF TakeApStop
  <2> QED BY <2>1, <2>4
<1>18. CASE ApStopReturns
  BY <1>18 DEF Trying, LossFollows, HasStart, HasLoss, ApStopReturns
<1>19. CASE ConnectedTaken
  <2>1. /\ events # <<>> /\ events' = Tail(events) /\ handling = NoEvent /\ handling' = Head(events)
        /\ Head(events).type = "STA_CONNECTED"
        /\ UNCHANGED <<link, lostLink, staConfig, timer, lostStart, queue, pc>>
    BY <1>19 DEF ConnectedTaken, TakeEvent, Heads
  <2>2. HasStart' <=> HasStart
    BY <2>1 DEF HasStart
  <2>3. Trying'
    BY <2>1, <2>2, EventTaken DEF Trying
  <2>4. LossFollows'
    BY <2>1, EventTaken DEF LossFollows
  <2> QED BY <2>3, <2>4
<1>20. CASE ConnectedHandled
  <2>1. Trying'
    BY <1>q, <1>20 DEF Trying, HasStart, HasLoss, LossFollows, Messages,
       Events, ConnectedHandled, Handled, Sent, NotSent, Message,
       TimerAfterConnect
  <2>2. LossFollows'
    BY <1>q, <1>20 DEF HasLoss, LossFollows, Events, ConnectedHandled,
       Handled, Sent, NotSent, Message, TimerAfterConnect
  <2> QED BY <2>1, <2>2
<1>21. CASE DisconnectedTaken
  <2>1. /\ events # <<>> /\ events' = Tail(events) /\ handling = NoEvent /\ handling' = Head(events)
        /\ Head(events).type = "STA_DISCONNECTED"
        /\ UNCHANGED <<link, lostLink, staConfig, timer, lostStart, queue, pc>>
    BY <1>21 DEF DisconnectedTaken, TakeEvent, Heads
  <2>2. HasStart' <=> HasStart
    BY <2>1 DEF HasStart
  <2>3. Trying'
    BY <2>1, <2>2, EventTaken DEF Trying
  <2>4. LossFollows'
    BY <2>1, EventTaken DEF LossFollows
  <2> QED BY <2>3, <2>4
<1>22. CASE DisconnectedHandled
  <2>1. Trying'
    BY <1>q, <1>22 DEF Trying, HasStart, HasLoss, LossFollows, Messages,
       Events, DisconnectedHandled, Handled, TimerAfterDisconnect, Armed, Event, NotifyIp, Notify
  <2>2. handling' = NoEvent /\ UNCHANGED <<link, lostLink>>
    BY <1>22 DEF DisconnectedHandled, Handled
  <2>3. ASSUME UNCHANGED events PROVE LossFollows'
    BY <2>2, <2>3, ChannelTypes DEF LossFollows, HasLoss
  <2>4. ASSUME NotifyIp(Event("STA_LOST_IP", NoChannel)) PROVE LossFollows'
    <3>1. PICK b \in BOOLEAN : Notify(Event("STA_LOST_IP", NoChannel), b)
      BY <2>4 DEF NotifyIp
    <3> QED BY <2>2, <3>1, OtherNotified, OtherTypes, RecordTypes
  <2>5. LossFollows'
    BY <1>22, <2>3, <2>4 DEF DisconnectedHandled
  <2> QED BY <2>1, <2>5
<1>23. CASE GotIpHandled
  <2>1. /\ events # <<>> /\ events' = Tail(events) /\ handling' = handling
        /\ Head(events).type = "STA_GOT_IP"
        /\ UNCHANGED <<link, lostLink, staConfig, timer, lostStart, queue, pc>>
    BY <1>23 DEF GotIpHandled, Heads
  <2>2. HasStart' <=> HasStart
    BY <2>1 DEF HasStart
  <2>3. Trying'
    BY <2>1, <2>2, EventTaken DEF Trying
  <2>4. LossFollows'
    BY <2>1, EventTaken DEF LossFollows
  <2> QED BY <2>3, <2>4
<1>24. CASE LostIpHandled
  <2>1. /\ events # <<>> /\ events' = Tail(events) /\ handling' = handling
        /\ Head(events).type = "STA_LOST_IP"
        /\ UNCHANGED <<link, lostLink, staConfig, timer, lostStart, queue, pc>>
    BY <1>24 DEF LostIpHandled, Heads
  <2>2. HasStart' <=> HasStart
    BY <2>1 DEF HasStart
  <2>3. Trying'
    BY <2>1, <2>2, EventTaken DEF Trying
  <2>4. LossFollows'
    BY <2>1, EventTaken DEF LossFollows
  <2> QED BY <2>3, <2>4
<1>25. CASE ApStartedTaken
  <2>1. /\ events # <<>> /\ events' = Tail(events) /\ handling = NoEvent /\ handling' = Head(events)
        /\ Head(events).type = "AP_START"
        /\ UNCHANGED <<link, lostLink, staConfig, timer, lostStart, queue, pc>>
    BY <1>25 DEF ApStartedTaken, TakeEvent, Heads
  <2>2. HasStart' <=> HasStart
    BY <2>1 DEF HasStart
  <2>3. Trying'
    BY <2>1, <2>2, EventTaken DEF Trying
  <2>4. LossFollows'
    BY <2>1, EventTaken DEF LossFollows
  <2> QED BY <2>3, <2>4
<1>26. CASE ApStartedHandled
  BY <1>26 DEF Trying, LossFollows, HasStart, HasLoss, ApStartedHandled,
     Handled, LastEvent
<1>27. CASE ApStoppedTaken
  <2>1. /\ events # <<>> /\ events' = Tail(events) /\ handling = NoEvent /\ handling' = Head(events)
        /\ Head(events).type = "AP_STOP"
        /\ UNCHANGED <<link, lostLink, staConfig, timer, lostStart, queue, pc>>
    BY <1>27 DEF ApStoppedTaken, TakeEvent, Heads
  <2>2. HasStart' <=> HasStart
    BY <2>1 DEF HasStart
  <2>3. Trying'
    BY <2>1, <2>2, EventTaken DEF Trying
  <2>4. LossFollows'
    BY <2>1, EventTaken DEF LossFollows
  <2> QED BY <2>3, <2>4
<1>28. CASE ApStoppedHandled
  BY <1>28 DEF Trying, LossFollows, HasStart, HasLoss, ApStoppedHandled,
     Handled
<1>29. CASE Associated
  <2>1. Trying'
    BY <1>q, <1>29 DEF Trying, HasStart, HasLoss, LossFollows, Messages,
       Events, Associated, NotifyLink, Notify, Event
  <2>2. LossFollows'
    BY <1>q, <1>29 DEF HasLoss, LossFollows, Events, Associated, NotifyLink, Notify, Event
  <2> QED BY <2>1, <2>2
<1>30. CASE LinkLost
  <2>1. Trying'
    BY <1>q, <1>30 DEF Trying, HasStart, HasLoss, LossFollows, Messages,
       Events, LinkLost, NotifyLink, Notify, Event
  <2>2. LossFollows'
    BY <1>q, <1>30 DEF HasLoss, LossFollows, Events, LinkLost, NotifyLink, Notify, Event
  <2> QED BY <2>1, <2>2
<1>31. CASE GetsIp
  <2>1. /\ NotifyIp(Event("STA_GOT_IP", NoChannel))
        /\ UNCHANGED <<link, lostLink, handling, staConfig, timer, lostStart, queue, pc>>
    BY <1>31 DEF GetsIp
  <2>2. LossFollows' /\ (HasLoss => HasLoss')
    BY <2>1, OtherNotified, OtherTypes, RecordTypes DEF NotifyIp
  <2> QED BY <2>1, <2>2 DEF Trying, HasStart
<1>32. CASE LosesIp
  <2>1. /\ NotifyIp(Event("STA_LOST_IP", NoChannel))
        /\ UNCHANGED <<link, lostLink, handling, staConfig, timer, lostStart, queue, pc>>
    BY <1>32 DEF LosesIp
  <2>2. LossFollows' /\ (HasLoss => HasLoss')
    BY <2>1, OtherNotified, OtherTypes, RecordTypes DEF NotifyIp
  <2> QED BY <2>1, <2>2 DEF Trying, HasStart
<1>33. CASE ApOnAir
  <2>1. /\ NotifyAir(Event("AP_START", NoChannel))
        /\ UNCHANGED <<link, lostLink, handling, staConfig, timer, lostStart, queue, pc>>
    BY <1>33 DEF ApOnAir
  <2>2. LossFollows' /\ (HasLoss => HasLoss')
    BY <2>1, OtherNotified, OtherTypes, RecordTypes DEF NotifyAir
  <2> QED BY <2>1, <2>2 DEF Trying, HasStart
<1>34. CASE UNCHANGED vars
  BY <1>34 DEF vars, Trying, LossFollows, HasStart, HasLoss
<1> QED
  BY <1>1, <1>2, <1>3, <1>4, <1>5, <1>6, <1>7, <1>8, <1>9, <1>10, <1>11,
     <1>12, <1>13, <1>14, <1>15, <1>16, <1>17, <1>18, <1>19, <1>20, <1>21,
     <1>22, <1>23, <1>24, <1>25, <1>26, <1>27, <1>28, <1>29, <1>30, <1>31,
     <1>32, <1>33, <1>34 DEF Next, Manager, EventTask, World

Inv == TypeOK /\ StationHeld /\ SoftapHeld /\ Trying /\ LossFollows

LEMMA InitInv == Init => Inv
<1> SUFFICES ASSUME Init PROVE Inv
  OBVIOUS
<1>1. FlagTypes
  BY Zenon DEF Init, FlagTypes
<1>2. StateTypes
  BY NetManagerAssumption, ChannelTypes DEF Init, StateTypes, States
<1>3. QueueTypes
  BY NetManagerAssumption, ChannelTypes DEF Init, QueueTypes
<1>4. StationHeld /\ SoftapHeld /\ Trying /\ LossFollows
  BY ChannelTypes DEF Init, StationHeld, SoftapHeld, Trying, LossFollows
<1> QED BY <1>1, <1>2, <1>3, <1>4 DEF Inv, TypeOK

(* The inductive invariant of the net manager holds throughout. *)
THEOREM SpecInv == Spec => []Inv
<1>1. Inv /\ [Next]_vars => Inv'
  BY TypeStep, HeldStep, TryStep DEF Inv
<1> QED BY <1>1, InitInv, PTL DEF Spec

(* The values of s_nm_wifi and of the two tasks keep their types; the      *)
(* queue never holds more than WM_NM_QUEUE_SIZE messages.                  *)
THEOREM NetManagerTypes == Spec => []TypeOK
BY SpecInv, PTL DEF Inv

(* Nothing left over brings an interface back after the application        *)
(* stopped it: the retry in the queue or the timer finds no configuration, *)
(* and so does a channel change that restarts the softAP.                  *)
THEOREM StoppedStaysDown == Spec => []StopIsFinal
<1>1. Inv => StopIsFinal
  BY DEF Inv, StationHeld, SoftapHeld, StopIsFinal
<1> QED BY <1>1, SpecInv, PTL

(* The reconnection never dies out silently: a configured station without  *)
(* a link has its timer running or its message queued, whatever the order  *)
(* of late events and requests, unless the timer's message or the event of *)
(* the lost link was refused.                                              *)
THEOREM RetryAlwaysAhead == Spec => []KeepsTrying
<1>1. Inv => KeepsTrying
  <2> SUFFICES ASSUME Inv, Quiet, staConfig, link # "up", ~lostLink
               PROVE  timer \/ lostStart \/ HasStart
    BY DEF KeepsTrying, HasStart
  <2>1. ~HasLoss /\ handling.type # "STA_DISCONNECTED"
    BY ChannelTypes DEF Quiet, EventsDone, HasLoss
  <2> QED BY <2>1 DEF Inv, Trying, Quiet
<1> QED BY <1>1, SpecInv, PTL
-------------------------------------------------------------------------------
(***************************************************************************)
(* What the net manager and the application know of the link, the address  *)
(* and the channel agrees with the radio once every event is handled.      *)
(*                                                                         *)
(* The events under way tell what is not known yet.  The invariant says    *)
(* that the last of them that concerns a piece of state tells its present  *)
(* value, and that what is recorded is right when there is none.  Each     *)
(* kind of event says so as long as the latest of the kind was not         *)
(* refused.                                                                *)
(***************************************************************************)

(* None of s is of a type in T; the last of s of a type in T is e. *)
NoneOf(s, T) == \A i \in 1 .. Len(s) : s[i].type \notin T
LastOf(s, T, e) ==
    \E i \in 1 .. Len(s) :
        /\ s[i] = e /\ e.type \in T
        /\ \A j \in i + 1 .. Len(s) : s[j].type \notin T

LinkEvents == {"STA_CONNECTED", "STA_DISCONNECTED"}
SoftapEvents == {"AP_START", "AP_STOP"}
IpEvents == {"STA_GOT_IP", "STA_LOST_IP"}
Change == {"RF_CHANNEL_CHANGE"}

(* The events not handled yet, the one whose handler is blocked first. *)
Pending == IF handling = NoEvent THEN events ELSE <<handling>> \o events

LinkKnown == NoneOf(Pending, LinkEvents)
LinkSays(e) ==
    IF e.type = "STA_CONNECTED" THEN link = "up" /\ e.channel = linkCh
    ELSE link # "up"
LinkOrder ==
    ~lostLink =>
      /\ \A e \in Events : LastOf(Pending, LinkEvents, e) => LinkSays(e)
      /\ LinkKnown => (staNetif <=> link = "up")

SoftapSays(e) == e.type = "AP_START" <=> air = "on"
SoftapOrder ==
    ~lostAir =>
      /\ \A e \in Events : LastOf(Pending, SoftapEvents, e) => SoftapSays(e)
      /\ NoneOf(Pending, SoftapEvents) => (apNetif <=> air = "on")

IpKnown == NoneOf(Pending, IpEvents)
IpOrder ==
    /\ ~lostIp => \A e \in Events :
          LastOf(Pending, IpEvents, e) => (e.type = "STA_GOT_IP" <=> ip)
    /\ ip => staNetif

StateOrder ==
    /\ ~lostIp /\ IpKnown /\ staState = "GOT_IP" => ip
    /\ ~lostLink /\ LinkKnown /\ staState = "CONNECTED" => link = "up"

(* The filter remembers what it let through, or a softAP event since. *)
FilterExact ==
    /\ lastEvent = "GOT_IP" => told = "GOT_IP"
    /\ lastEvent = "LOST_IP" => told = "LOST_IP"
ToldOrder ==
    ~postFailed =>
      /\ handling.type = "STA_DISCONNECTED" => told # "GOT_IP"
      /\ ~lostIp /\ IpKnown /\ handling.type # "STA_DISCONNECTED" =>
            (told = "GOT_IP" <=> ip)

(* Connections and changes of channel name a real channel. *)
Named(s, T) == \A i \in 1 .. Len(s) : s[i].type \in T => s[i].channel # NoChannel
Ups == {"STA_CONNECTED"}
ChannelNamed ==
    /\ Named(Pending, Ups) /\ Named(queue, Change)
    /\ link = "up" => linkCh # NoChannel

(* The last change of channel under way is the one to the channel of the   *)
(* link; when there is none, the manager knows that channel.               *)
ChannelOrder ==
    LinkKnown /\ link = "up" /\ ~lostLink /\ ~lostChannel =>
      /\ \A m : LastOf(queue, Change, m) => m.channel = linkCh
      /\ NoneOf(queue, Change) => channel = linkCh

(* A softAP that is started, or about to be, has the manager's channel,    *)
(* unless it is about to move or the move was missed.                      *)
SoftapChannel ==
    /\ ~missed /\ pc # "apconfig"
    /\ air # "off" \/ pc = "apstart"
    => apConfig = ApChannel

Order ==
    /\ LinkOrder /\ SoftapOrder /\ IpOrder /\ StateOrder /\ FilterExact
    /\ ToldOrder /\ ChannelNamed /\ ChannelOrder /\ SoftapChannel

-----------------------------------------------------------------------------
(* Queues *)

LEMMA AppendLast ==
    ASSUME NEW S, NEW s \in Seq(S), NEW x \in S, NEW T
    PROVE  /\ \A e : LastOf(Append(s, x), T, e)
                       <=> IF x.type \in T THEN e = x ELSE LastOf(s, T, e)
           /\ NoneOf(Append(s, x), T) <=> x.type \notin T /\ NoneOf(s, T)
<1> DEFINE t == Append(s, x)
<1>1. /\ Len(s) \in Nat /\ Len(t) = Len(s) + 1 /\ t[Len(s) + 1] = x
      /\ \A i \in 1 .. Len(s) : t[i] = s[i]
  OBVIOUS
<1> HIDE DEF t
<1>2. NoneOf(t, T) <=> x.type \notin T /\ NoneOf(s, T)
  BY <1>1 DEF NoneOf
<1>3. ASSUME NEW e, x.type \in T PROVE LastOf(t, T, e) <=> e = x
  BY <1>1, <1>3 DEF LastOf
<1>4. ASSUME NEW e, x.type \notin T PROVE LastOf(t, T, e) <=> LastOf(s, T, e)
  <2>1. ASSUME LastOf(s, T, e) PROVE LastOf(t, T, e)
    <3>1. PICK i \in 1 .. Len(s) :
             /\ s[i] = e /\ e.type \in T
             /\ \A j \in i + 1 .. Len(s) : s[j].type \notin T
      BY <2>1 DEF LastOf
    <3>2. \A j \in i + 1 .. Len(t) : t[j].type \notin T
      BY <1>1, <1>4, <3>1
    <3> QED BY <1>1, <3>1, <3>2 DEF LastOf
  <2>2. ASSUME LastOf(t, T, e) PROVE LastOf(s, T, e)
    <3>1. PICK i \in 1 .. Len(t) :
             /\ t[i] = e /\ e.type \in T
             /\ \A j \in i + 1 .. Len(t) : t[j].type \notin T
      BY <2>2 DEF LastOf
    <3>2. i \in 1 .. Len(s)
      BY <1>1, <1>4, <3>1
    <3>3. \A j \in i + 1 .. Len(s) : s[j].type \notin T
      BY <1>1, <3>1, <3>2
    <3> QED BY <1>1, <3>1, <3>2, <3>3 DEF LastOf
  <2> QED BY <2>1, <2>2
<1> QED BY <1>2, <1>3, <1>4 DEF t

LEMMA TailLast ==
    ASSUME NEW S, NEW s \in Seq(S), s # <<>>, NEW T
    PROVE  /\ \A e : LastOf(Tail(s), T, e) => LastOf(s, T, e)
           /\ NoneOf(Tail(s), T) =>
                IF Head(s).type \in T THEN LastOf(s, T, Head(s)) ELSE NoneOf(s, T)
<1> DEFINE t == Tail(s)
<1>1. /\ Len(s) \in Nat \ {0} /\ Head(s) = s[1] /\ Len(t) = Len(s) - 1
      /\ \A i \in 1 .. Len(s) - 1 : t[i] = s[i + 1]
  BY FirstTaken
<1> HIDE DEF t
<1>2. ASSUME NEW e, LastOf(t, T, e) PROVE LastOf(s, T, e)
  <2>1. PICK i \in 1 .. Len(t) :
           /\ t[i] = e /\ e.type \in T
           /\ \A j \in i + 1 .. Len(t) : t[j].type \notin T
    BY <1>2 DEF LastOf
  <2>2. i + 1 \in 1 .. Len(s) /\ s[i + 1] = e
    BY <1>1, <2>1
  <2>3. ASSUME NEW j \in i + 2 .. Len(s) PROVE s[j].type \notin T
    <3>1. j - 1 \in i + 1 .. Len(t) /\ t[j - 1] = s[j]
      BY <1>1, <2>1
    <3> QED BY <2>1, <3>1
  <2> QED BY <2>1, <2>2, <2>3 DEF LastOf
<1>3. ASSUME NoneOf(t, T) PROVE \A j \in 2 .. Len(s) : s[j].type \notin T
  <2>1. ASSUME NEW j \in 2 .. Len(s) PROVE s[j].type \notin T
    <3>1. j - 1 \in 1 .. Len(t) /\ t[j - 1] = s[j]
      BY <1>1
    <3> QED BY <1>3, <3>1 DEF NoneOf
  <2> QED BY <2>1
<1>4. ASSUME NoneOf(t, T), Head(s).type \in T PROVE LastOf(s, T, Head(s))
  BY <1>1, <1>3, <1>4 DEF LastOf
<1>5. ASSUME NoneOf(t, T), Head(s).type \notin T PROVE NoneOf(s, T)
  BY <1>1, <1>3, <1>5 DEF NoneOf
<1> QED BY <1>2, <1>4, <1>5 DEF t

LEMMA EmptyNone == \A T : NoneOf(<<>>, T) /\ \A e : ~LastOf(<<>>, T, e)
BY DEF NoneOf, LastOf

-----------------------------------------------------------------------------
(* Steps *)

(* What a step does to the state the events are about.  The steps of the   *)
(* model that differ in nothing else fall together.                        *)
Calm ==
    /\ UNCHANGED <<Pending, handling, link, linkCh, air, staNetif, apNetif, ip,
                   posts, refused>>
    /\ staState' \in {staState, "CONNECTING", "EXIT"}
LinkStays ==
    /\ link # "up" /\ link' # "up"
    /\ UNCHANGED <<Pending, handling, air, staNetif, apNetif, ip, staState, posts, refused>>
LinkDrops ==
    /\ Pending' = Append(Pending, Event("STA_DISCONNECTED", NoChannel))
    /\ link' = "down" /\ lostLink' = FALSE
    /\ UNCHANGED <<handling, air, staNetif, apNetif, ip, staState, posts, lostIp, lostAir>>
LinkRises ==
    /\ \E c \in Channels :
          linkCh' = c /\ Pending' = Append(Pending, Event("STA_CONNECTED", c))
    /\ link' = "up" /\ lostLink' = FALSE
    /\ UNCHANGED <<handling, air, staNetif, apNetif, ip, staState, posts, lostIp, lostAir>>
LinkUnheard ==
    /\ lostLink' = TRUE /\ (link' = "up" => linkCh' \in Channels)
    /\ UNCHANGED <<Pending, handling, air, staNetif, apNetif, ip, staState, posts, lostIp, lostAir>>
SoftapStarts ==
    /\ air # "on" /\ air' # "on"
    /\ UNCHANGED <<Pending, handling, link, linkCh, staNetif, apNetif, ip, staState, posts, refused>>
SoftapDrops ==
    /\ Pending' = Append(Pending, Event("AP_STOP", NoChannel))
    /\ air' # "on" /\ lostAir' = FALSE
    /\ UNCHANGED <<handling, link, linkCh, staNetif, apNetif, ip, staState, posts, lostLink, lostIp>>
SoftapRises ==
    /\ Pending' = Append(Pending, Event("AP_START", NoChannel))
    /\ air' = "on" /\ lostAir' = FALSE
    /\ UNCHANGED <<handling, link, linkCh, staNetif, apNetif, ip, staState, posts, lostLink, lostIp>>
SoftapUnheard ==
    /\ lostAir' = TRUE
    /\ UNCHANGED <<Pending, handling, link, linkCh, staNetif, apNetif, ip, staState, posts,
                   lostLink, lostIp>>
IpComes ==
    /\ Pending' = Append(Pending, Event("STA_GOT_IP", NoChannel))
    /\ staNetif /\ ip' /\ lostIp' = FALSE
    /\ UNCHANGED <<handling, link, linkCh, air, staNetif, apNetif, staState, posts, lostLink, lostAir>>
IpGoes ==
    /\ Pending' = Append(Pending, Event("STA_LOST_IP", NoChannel))
    /\ ip' = FALSE /\ lostIp' = FALSE
    /\ UNCHANGED <<handling, link, linkCh, air, staNetif, apNetif, staState, posts, lostLink, lostAir>>
IpUnheard ==
    /\ lostIp' = TRUE /\ (ip' => staNetif)
    /\ UNCHANGED <<Pending, handling, link, linkCh, air, staNetif, apNetif, staState, posts,
                   lostLink, lostAir>>
HandlerBlocks ==
    /\ handling.type = "none" /\ handling'.type # "STA_DISCONNECTED"
    /\ UNCHANGED <<Pending, link, linkCh, air, staNetif, apNetif, ip, staState, posts, refused>>
LossTold ==
    /\ handling'.type = "STA_DISCONNECTED" /\ PostSta("LOST_IP")
    /\ UNCHANGED <<Pending, link, linkCh, air, staNetif, apNetif, ip, staState, refused>>
First(type) ==
    /\ Pending # <<>> /\ Head(Pending).type = type
    /\ handling.type \in {"none", type} /\ handling'.type = "none"
Served(type) == First(type) /\ Pending' = Tail(Pending)
UpServed ==
    /\ Served("STA_CONNECTED") /\ handling = Head(Pending)
    /\ staNetif' /\ staState' = "CONNECTED"
    /\ UNCHANGED <<link, linkCh, air, apNetif, ip, posts, refused>>
LossReplaced ==
    ip /\ lostIp' = FALSE
       /\ Pending' = Append(Tail(Pending), Event("STA_LOST_IP", NoChannel))
LossRemoved == lostIp' = TRUE \/ (~ip /\ lostIp' = lostIp)
LossServed ==
    /\ First("STA_DISCONNECTED") /\ handling.type = "STA_DISCONNECTED"
    /\ LossReplaced \/ (LossRemoved /\ Pending' = Tail(Pending))
    /\ staNetif' = FALSE /\ ip' = FALSE /\ staState' = "DISCONNECTED"
    /\ UNCHANGED <<link, linkCh, air, apNetif, posts, lostLink, lostAir>>
IpServed ==
    /\ Served("STA_GOT_IP") /\ staState' = "GOT_IP" /\ PostSta("GOT_IP")
    /\ UNCHANGED <<link, linkCh, air, staNetif, apNetif, ip, refused>>
NoIpServed ==
    /\ Served("STA_LOST_IP") /\ staState' = "LOST_IP" /\ PostSta("LOST_IP")
    /\ UNCHANGED <<link, linkCh, air, staNetif, apNetif, ip, refused>>
SoftapServed ==
    /\ Served("AP_START") /\ apNetif' /\ lastEvent' \in {lastEvent, "AP_READY"}
    /\ UNCHANGED <<link, linkCh, air, staNetif, ip, staState, told, postFailed, refused>>
NoSoftapServed ==
    /\ Served("AP_STOP") /\ apNetif' = FALSE
    /\ UNCHANGED <<link, linkCh, air, staNetif, ip, staState, posts, refused>>

LEMMA PendingType == ASSUME TypeOK PROVE Pending \in Seq(Events)
BY DEF Pending, TypeOK, QueueTypes

LEMMA PendingSame ==
    ASSUME UNCHANGED <<events, handling>> PROVE Pending' = Pending
BY DEF Pending

LEMMA PendingAdded ==
    ASSUME TypeOK, NEW x \in Events, events' = Append(events, x), handling' = handling
    PROVE  Pending' = Append(Pending, x)
<1>1. events \in Seq(Events) /\ handling \in Events
  BY DEF TypeOK, QueueTypes
<1>2. <<handling>> \o Append(events, x) = Append(<<handling>> \o events, x)
  BY <1>1
<1> QED BY <1>2 DEF Pending

LEMMA PendingTaken ==
    ASSUME TypeOK, NEW t, t # "none", TakeEvent(t)
    PROVE  Pending' = Pending /\ handling'.type = t /\ handling.type = "none"
<1>1. events \in Seq(Events) /\ events # <<>> /\ handling = NoEvent
  BY DEF TypeOK, QueueTypes, TakeEvent, Heads
<1>2. events' = Tail(events) /\ handling' = Head(events) /\ Head(events).type = t
  BY DEF TakeEvent, Heads
<1>3. Head(events) # NoEvent
  BY <1>2, ChannelTypes
<1>4. <<Head(events)>> \o Tail(events) = events
  BY <1>1
<1> QED BY <1>1, <1>2, <1>3, <1>4, ChannelTypes DEF Pending

LEMMA PendingServed ==
    ASSUME TypeOK, NEW t, t # "none"
    PROVE  /\ Handled(t) =>
                 /\ Pending = <<handling>> \o events
                 /\ First(t) /\ handling.type = t /\ Tail(Pending) = events
                 /\ Head(Pending) = handling
           /\ Heads(t) /\ handling' = handling =>
                 Pending = events /\ First(t) /\ Tail(Pending) = Tail(events)
<1>1. events \in Seq(Events) /\ handling \in Events
  BY DEF TypeOK, QueueTypes
<1>2. ASSUME Handled(t)
      PROVE  /\ Pending = <<handling>> \o events
             /\ First(t) /\ handling.type = t /\ Tail(Pending) = events
             /\ Head(Pending) = handling
  <2>1. handling.type = t /\ handling # NoEvent /\ handling' = NoEvent
    BY <1>2, ChannelTypes DEF Handled
  <2>2. Pending = <<handling>> \o events
    BY <2>1 DEF Pending
  <2>3. /\ <<handling>> \o events # <<>> /\ Head(<<handling>> \o events) = handling
        /\ Tail(<<handling>> \o events) = events
    BY <1>1
  <2> QED BY <2>1, <2>2, <2>3, ChannelTypes DEF First
<1>3. ASSUME Heads(t), handling' = handling
      PROVE  Pending = events /\ First(t) /\ Tail(Pending) = Tail(events)
  BY <1>3, ChannelTypes DEF Heads, Pending, First
<1> QED BY <1>2, <1>3

(* Every step is one of these. *)
Effect ==
    \/ Calm \/ LinkStays \/ LinkDrops \/ LinkRises \/ SoftapStarts
    \/ SoftapDrops \/ SoftapRises \/ IpComes \/ IpGoes \/ HandlerBlocks
    \/ LossTold \/ UpServed \/ LossServed \/ IpServed \/ NoIpServed
    \/ SoftapServed \/ NoSoftapServed
    \/ LinkUnheard \/ SoftapUnheard \/ IpUnheard

LEMMA StepEffect == ASSUME TypeOK, [Next]_vars PROVE Effect
<1> USE DEF manager, station, softap, evtask, posts, radio, netifs, lost, refused, wanted
<1>1. ASSUME UNCHANGED <<events, handling, link, linkCh, air, staNetif, apNetif, ip,
                         lastEvent, told, postFailed, refused>>,
             staState' \in {staState, "CONNECTING", "EXIT"}
      PROVE  Effect
  BY <1>1, PendingSame DEF Effect, Calm
<1>2. CASE Application
  <2>1. PICK msg \in Messages : Ask(msg)
    BY <1>2, ApplicationAsks DEF Asks
  <2> QED BY <1>1, <2>1 DEF Ask
<1>3. CASE TimerFires
  BY <1>1, <1>3 DEF TimerFires
<1>4. CASE TakeStartIgnored
  BY <1>1, <1>4 DEF TakeStartIgnored
<1>5. CASE TakeStart
  BY <1>1, <1>5 DEF TakeStart
<1>6. CASE ConnectFails
  BY <1>1, <1>6 DEF ConnectFails
<1>7. CASE ConnectReturns
  BY <1>1, <1>7 DEF ConnectReturns
<1>8. CASE DisconnectReturns
  BY <1>1, <1>8 DEF DisconnectReturns
<1>9. CASE TakeChannelSame
  BY <1>1, <1>9 DEF TakeChannelSame
<1>10. CASE TakeChannelMove
  BY <1>1, <1>10 DEF TakeChannelMove
<1>11. CASE TakeApStart
  BY <1>1, <1>11 DEF TakeApStart
<1>12. CASE ApConfigIgnored
  BY <1>1, <1>12 DEF ApConfigIgnored
<1>13. CASE ApConfigure
  BY <1>1, <1>13 DEF ApConfigure
<1>14. CASE ApStartFails
  BY <1>1, <1>14 DEF ApStartFails
<1>15. CASE ApStopReturns
  BY <1>1, <1>15 DEF ApStopReturns
<1>16. CASE UNCHANGED vars
  BY <1>1, <1>16 DEF vars
<1>17. CASE ConnectStarts
  BY <1>17, PendingSame DEF ConnectStarts, Effect, LinkStays
<1>18. CASE ApStartOk
  <2>1. CASE air # "on" /\ air' = "starting" /\ UNCHANGED <<events, lostAir>>
    BY <1>18, <2>1, PendingSame DEF ApStartOk, Effect, SoftapStarts
  <2>2. CASE /\ air = "on" /\ air' = "starting" /\ lostAir' = FALSE
             /\ Notify(Event("AP_STOP", NoChannel), FALSE)
    BY <1>18, <2>2, PendingAdded, RecordTypes DEF ApStartOk, Notify, Effect, SoftapDrops
  <2>3. CASE lostAir' = TRUE /\ Notify(Event("AP_STOP", NoChannel), TRUE)
    BY <1>18, <2>3, PendingSame DEF ApStartOk, Notify, Effect, SoftapUnheard
  <2>4. CASE air = "on" /\ UNCHANGED <<air, events, lostAir>>
    BY <1>1, <1>18, <2>4 DEF ApStartOk
  <2> QED BY <1>18, <2>1, <2>2, <2>3, <2>4 DEF ApStartOk, NotifyAir
<1>19. CASE TakeDisconnect
  <2>1. CASE link = "down"
    BY <1>19, <2>1, PendingSame DEF TakeDisconnect, Effect, LinkStays
  <2>2. CASE lostLink' = FALSE /\ Notify(Event("STA_DISCONNECTED", NoChannel), FALSE)
             /\ link # "down"
    BY <1>19, <2>2, PendingAdded, RecordTypes DEF TakeDisconnect, Notify, Effect, LinkDrops
  <2>3. CASE lostLink' = TRUE /\ Notify(Event("STA_DISCONNECTED", NoChannel), TRUE)
             /\ link # "down"
    BY <1>19, <2>3, PendingSame DEF TakeDisconnect, Notify, Effect, LinkUnheard
  <2> QED BY <1>19, <2>1, <2>2, <2>3 DEF TakeDisconnect, NotifyLink
<1>20. CASE TakeApStop
  <2>1. CASE air # "on"
    BY <1>20, <2>1, PendingSame DEF TakeApStop, Effect, SoftapStarts
  <2>2. CASE lostAir' = FALSE /\ Notify(Event("AP_STOP", NoChannel), FALSE) /\ air = "on"
    BY <1>20, <2>2, PendingAdded, RecordTypes DEF TakeApStop, Notify, Effect, SoftapDrops
  <2>3. CASE lostAir' = TRUE /\ Notify(Event("AP_STOP", NoChannel), TRUE) /\ air = "on"
    BY <1>20, <2>3, PendingSame DEF TakeApStop, Notify, Effect, SoftapUnheard
  <2> QED BY <1>20, <2>1, <2>2, <2>3 DEF TakeApStop, NotifyAir
<1>21. CASE Associated
  <2>1. PICK c \in Channels : linkCh' = c /\ NotifyLink(Event("STA_CONNECTED", c))
    BY <1>21 DEF Associated
  <2>2. Event("STA_CONNECTED", c) \in Events
    BY ChannelTypes, RecordTypes
  <2>3. CASE lostLink' = FALSE /\ Notify(Event("STA_CONNECTED", c), FALSE)
    <3>1. Pending' = Append(Pending, Event("STA_CONNECTED", c))
      BY <1>21, <2>2, <2>3, PendingAdded DEF Associated, Notify
    <3> QED BY <1>21, <2>1, <2>3, <3>1 DEF Associated, Effect, LinkRises
  <2>4. CASE lostLink' = TRUE /\ Notify(Event("STA_CONNECTED", c), TRUE)
    BY <1>21, <2>1, <2>4, PendingSame DEF Associated, Notify, Effect, LinkUnheard
  <2> QED BY <2>1, <2>3, <2>4 DEF NotifyLink
<1>22. CASE LinkLost
  <2>1. CASE lostLink' = FALSE /\ Notify(Event("STA_DISCONNECTED", NoChannel), FALSE)
    BY <1>22, <2>1, PendingAdded, RecordTypes DEF LinkLost, Notify, Effect, LinkDrops
  <2>2. CASE lostLink' = TRUE /\ Notify(Event("STA_DISCONNECTED", NoChannel), TRUE)
    BY <1>22, <2>2, PendingSame DEF LinkLost, Notify, Effect, LinkUnheard
  <2> QED BY <1>22, <2>1, <2>2 DEF LinkLost, NotifyLink
<1>23. CASE GetsIp
  <2>1. CASE lostIp' = FALSE /\ Notify(Event("STA_GOT_IP", NoChannel), FALSE)
    BY <1>23, <2>1, PendingAdded, RecordTypes DEF GetsIp, Notify, Effect, IpComes
  <2>2. CASE lostIp' = TRUE /\ Notify(Event("STA_GOT_IP", NoChannel), TRUE)
    BY <1>23, <2>2, PendingSame DEF GetsIp, Notify, Effect, IpUnheard
  <2> QED BY <1>23, <2>1, <2>2 DEF GetsIp, NotifyIp
<1>24. CASE LosesIp
  <2>1. CASE lostIp' = FALSE /\ Notify(Event("STA_LOST_IP", NoChannel), FALSE)
    BY <1>24, <2>1, PendingAdded, RecordTypes DEF LosesIp, Notify, Effect, IpGoes
  <2>2. CASE lostIp' = TRUE /\ Notify(Event("STA_LOST_IP", NoChannel), TRUE)
    BY <1>24, <2>2, PendingSame DEF LosesIp, Notify, Effect, IpUnheard
  <2> QED BY <1>24, <2>1, <2>2 DEF LosesIp, NotifyIp
<1>25. CASE ApOnAir
  <2>1. CASE lostAir' = FALSE /\ Notify(Event("AP_START", NoChannel), FALSE)
    BY <1>25, <2>1, PendingAdded, RecordTypes DEF ApOnAir, Notify, Effect, SoftapRises
  <2>2. CASE lostAir' = TRUE /\ Notify(Event("AP_START", NoChannel), TRUE)
    BY <1>25, <2>2, PendingSame DEF ApOnAir, Notify, Effect, SoftapUnheard
  <2> QED BY <1>25, <2>1, <2>2 DEF ApOnAir, NotifyAir
<1>26. CASE ConnectedTaken
  <2>1. Pending' = Pending /\ handling'.type = "STA_CONNECTED" /\ handling.type = "none"
    BY <1>26, PendingTaken DEF ConnectedTaken
  <2> QED BY <1>26, <2>1 DEF ConnectedTaken, Effect, HandlerBlocks
<1>27. CASE ApStartedTaken
  <2>1. Pending' = Pending /\ handling'.type = "AP_START" /\ handling.type = "none"
    BY <1>27, PendingTaken DEF ApStartedTaken
  <2> QED BY <1>27, <2>1 DEF ApStartedTaken, Effect, HandlerBlocks
<1>28. CASE ApStoppedTaken
  <2>1. Pending' = Pending /\ handling'.type = "AP_STOP" /\ handling.type = "none"
    BY <1>28, PendingTaken DEF ApStoppedTaken
  <2> QED BY <1>28, <2>1 DEF ApStoppedTaken, Effect, HandlerBlocks
<1>29. CASE DisconnectedTaken
  <2>1. Pending' = Pending /\ handling'.type = "STA_DISCONNECTED"
    BY <1>29, PendingTaken DEF DisconnectedTaken
  <2> QED BY <1>29, <2>1 DEF DisconnectedTaken, Effect, LossTold
<1>30. CASE ConnectedHandled
  <2>1. Handled("STA_CONNECTED") /\ events' = events
    BY <1>30 DEF ConnectedHandled
  <2>2. /\ First("STA_CONNECTED") /\ Tail(Pending) = events
        /\ Head(Pending) = handling
    BY <2>1, PendingServed
  <2>3. Pending' = events
    BY <2>1 DEF Handled, Pending
  <2> QED BY <1>30, <2>2, <2>3 DEF ConnectedHandled, Effect, UpServed, Served
<1>31. CASE ApStartedHandled
  <2>1. Handled("AP_START") /\ events' = events
    BY <1>31 DEF ApStartedHandled
  <2>2. First("AP_START") /\ Tail(Pending) = events
    BY <2>1, PendingServed
  <2>3. Pending' = events
    BY <2>1 DEF Handled, Pending
  <2> QED BY <1>31, <2>2, <2>3 DEF ApStartedHandled, Effect, SoftapServed, Served, LastEvent
<1>32. CASE ApStoppedHandled
  <2>1. Handled("AP_STOP") /\ events' = events
    BY <1>32 DEF ApStoppedHandled
  <2>2. First("AP_STOP") /\ Tail(Pending) = events
    BY <2>1, PendingServed
  <2>3. Pending' = events
    BY <2>1 DEF Handled, Pending
  <2> QED BY <1>32, <2>2, <2>3 DEF ApStoppedHandled, Effect, NoSoftapServed, Served
<1>33. CASE DisconnectedHandled
  <2>1. Handled("STA_DISCONNECTED")
    BY <1>33 DEF DisconnectedHandled
  <2>2. /\ First("STA_DISCONNECTED") /\ Tail(Pending) = events
        /\ handling.type = "STA_DISCONNECTED"
    BY <2>1, PendingServed
  <2>3. Pending' = events'
    BY <2>1 DEF Handled, Pending
  <2>4. LossReplaced \/ (LossRemoved /\ Pending' = Tail(Pending))
    BY <1>33, <2>2, <2>3 DEF DisconnectedHandled, NotifyIp, Notify, LossReplaced,
       LossRemoved
  <2> QED BY <1>33, <2>2, <2>4 DEF DisconnectedHandled, Effect, LossServed
<1>34. CASE GotIpHandled
  <2>1. /\ Heads("STA_GOT_IP") /\ handling' = handling
        /\ events' = Tail(events) /\ handling = NoEvent
    BY <1>34 DEF GotIpHandled, Heads
  <2>2. First("STA_GOT_IP") /\ Tail(Pending) = Tail(events)
    BY <2>1, PendingServed
  <2>3. Pending' = Tail(events)
    BY <2>1 DEF Pending
  <2> QED BY <1>34, <2>2, <2>3 DEF GotIpHandled, Effect, IpServed, Served
<1>35. CASE LostIpHandled
  <2>1. /\ Heads("STA_LOST_IP") /\ handling' = handling
        /\ events' = Tail(events) /\ handling = NoEvent
    BY <1>35 DEF LostIpHandled, Heads
  <2>2. First("STA_LOST_IP") /\ Tail(Pending) = Tail(events)
    BY <2>1, PendingServed
  <2>3. Pending' = Tail(events)
    BY <2>1 DEF Pending
  <2> QED BY <1>35, <2>2, <2>3 DEF LostIpHandled, Effect, NoIpServed, Served
<1> QED
  BY <1>2, <1>3, <1>4, <1>5, <1>6, <1>7, <1>8, <1>9, <1>10, <1>11, <1>12,
     <1>13, <1>14, <1>15, <1>16, <1>17, <1>18, <1>19, <1>20, <1>21, <1>22,
     <1>23, <1>24, <1>25, <1>26, <1>27, <1>28, <1>29, <1>30, <1>31, <1>32,
     <1>33, <1>34, <1>35 DEF Next, Manager, EventTask, World

(* What a longer and a shorter queue q of pending events means for the     *)
(* last event of a kind: q is s and one more event, or s without its first.*)
Added(s, q, t, c, T) ==
    /\ \A e : LastOf(q, T, e) =>
          IF t \in T THEN e.type = t /\ e.channel = c ELSE LastOf(s, T, e)
    /\ NoneOf(q, T) => t \notin T /\ NoneOf(s, T)
Removed(s, q, t, T) ==
    /\ \A e : LastOf(q, T, e) => LastOf(s, T, e)
    /\ NoneOf(q, T) =>
          IF t \in T
          THEN \E e \in Events : e = Head(s) /\ e.type = t /\ LastOf(s, T, e)
          ELSE NoneOf(s, T)

LEMMA Appended ==
    ASSUME NEW s \in Seq(Events), NEW t, NEW c, Event(t, c) \in Events, NEW q,
           q = Append(s, Event(t, c)), NEW T
    PROVE  Added(s, q, t, c, T)
<1> DEFINE x == Event(t, c)
<1>1. x \in Events /\ x.type = t /\ x.channel = c /\ q = Append(s, x)
  BY DEF Event
<1> HIDE DEF x
<1> QED BY <1>1, AppendLast DEF Added

LEMMA Grown ==
    ASSUME TypeOK, NEW t, NEW c, Event(t, c) \in Events,
           Pending' = Append(Pending, Event(t, c)), NEW T
    PROVE  Added(Pending, Pending', t, c, T)
<1>1. Pending \in Seq(Events)
  BY PendingType
<1> DEFINE s == Pending
<1> DEFINE q == Pending'
<1>2. s \in Seq(Events) /\ q = Append(s, Event(t, c))
  BY <1>1
<1> HIDE DEF s, q
<1>3. Added(s, q, t, c, T)
  BY <1>2, Appended
<1> QED BY <1>3 DEF s, q

LEMMA Shrunk ==
    ASSUME TypeOK, NEW t, First(t), NEW T
    PROVE  Removed(Pending, Tail(Pending), t, T)
<1>1. Pending \in Seq(Events) /\ Pending # <<>> /\ Head(Pending).type = t
  BY PendingType DEF First
<1>2. Head(Pending) \in Events
  BY <1>1, FirstTaken
<1> QED BY <1>1, <1>2, TailLast DEF Removed

LEMMA Replaced ==
    ASSUME TypeOK, NEW t, First(t), NEW u, Event(u, NoChannel) \in Events,
           Pending' = Append(Tail(Pending), Event(u, NoChannel)), NEW T
    PROVE  Added(Tail(Pending), Pending', u, NoChannel, T)
<1>1. Tail(Pending) \in Seq(Events)
  BY PendingType, FirstTaken DEF First
<1> DEFINE s == Tail(Pending)
<1> DEFINE q == Pending'
<1>2. s \in Seq(Events) /\ q = Append(s, Event(u, NoChannel))
  BY <1>1
<1> HIDE DEF s, q
<1>3. Added(s, q, u, NoChannel, T)
  BY <1>2, Appended
<1> QED BY <1>3 DEF s, q

(* What each of the steps means for the last pending event of a kind. *)
Arrivals(T) ==
    /\ LinkDrops => Added(Pending, Pending', "STA_DISCONNECTED", NoChannel, T)
    /\ LinkRises => \E c \in Channels :
          linkCh' = c /\ Added(Pending, Pending', "STA_CONNECTED", c, T)
    /\ SoftapDrops => Added(Pending, Pending', "AP_STOP", NoChannel, T)
    /\ SoftapRises => Added(Pending, Pending', "AP_START", NoChannel, T)
    /\ IpComes => Added(Pending, Pending', "STA_GOT_IP", NoChannel, T)
    /\ IpGoes => Added(Pending, Pending', "STA_LOST_IP", NoChannel, T)
LossEither(T) ==
    \/ /\ ip /\ lostIp' = FALSE
       /\ Added(Tail(Pending), Pending', "STA_LOST_IP", NoChannel, T)
    \/ LossRemoved /\ Pending' = Tail(Pending)
Departures(T) ==
    /\ UpServed => Removed(Pending, Pending', "STA_CONNECTED", T)
    /\ LossServed =>
          /\ Removed(Pending, Tail(Pending), "STA_DISCONNECTED", T)
          /\ LossEither(T)
    /\ IpServed => Removed(Pending, Pending', "STA_GOT_IP", T)
    /\ NoIpServed => Removed(Pending, Pending', "STA_LOST_IP", T)
    /\ SoftapServed => Removed(Pending, Pending', "AP_START", T)
    /\ NoSoftapServed => Removed(Pending, Pending', "AP_STOP", T)

LEMMA Traffic == ASSUME TypeOK, NEW T PROVE Arrivals(T) /\ Departures(T)
<1>1. LinkDrops => Added(Pending, Pending', "STA_DISCONNECTED", NoChannel, T)
  BY Grown, RecordTypes DEF LinkDrops
<1>2. SoftapDrops => Added(Pending, Pending', "AP_STOP", NoChannel, T)
  BY Grown, RecordTypes DEF SoftapDrops
<1>3. SoftapRises => Added(Pending, Pending', "AP_START", NoChannel, T)
  BY Grown, RecordTypes DEF SoftapRises
<1>4. IpComes => Added(Pending, Pending', "STA_GOT_IP", NoChannel, T)
  BY Grown, RecordTypes DEF IpComes
<1>5. IpGoes => Added(Pending, Pending', "STA_LOST_IP", NoChannel, T)
  BY Grown, RecordTypes DEF IpGoes
<1>6. ASSUME LinkRises
      PROVE  \E c \in Channels :
                linkCh' = c /\ Added(Pending, Pending', "STA_CONNECTED", c, T)
  BY <1>6, Grown, RecordTypes, ChannelTypes DEF LinkRises
<1>7. UpServed => Removed(Pending, Pending', "STA_CONNECTED", T)
  BY Shrunk DEF UpServed, Served
<1>8. IpServed => Removed(Pending, Pending', "STA_GOT_IP", T)
  BY Shrunk DEF IpServed, Served
<1>9. NoIpServed => Removed(Pending, Pending', "STA_LOST_IP", T)
  BY Shrunk DEF NoIpServed, Served
<1>10. SoftapServed => Removed(Pending, Pending', "AP_START", T)
  BY Shrunk DEF SoftapServed, Served
<1>11. NoSoftapServed => Removed(Pending, Pending', "AP_STOP", T)
  BY Shrunk DEF NoSoftapServed, Served
<1>12. ASSUME LossServed
       PROVE  /\ Removed(Pending, Tail(Pending), "STA_DISCONNECTED", T)
              /\ LossEither(T)
  BY <1>12, Shrunk, Replaced, RecordTypes DEF LossServed, LossReplaced, LossEither
<1> QED
  BY <1>1, <1>2, <1>3, <1>4, <1>5, <1>6, <1>7, <1>8, <1>9, <1>10, <1>11, <1>12
     DEF Arrivals, Departures

LEMMA Kinds ==
    \A t :
          /\ t \in LinkEvents <=> t \in {"STA_CONNECTED", "STA_DISCONNECTED"}
          /\ t \in SoftapEvents <=> t \in {"AP_START", "AP_STOP"}
          /\ t \in IpEvents <=> t \in {"STA_GOT_IP", "STA_LOST_IP"}
BY DEF LinkEvents, SoftapEvents, IpEvents

LEMMA LinkStep == ASSUME TypeOK, LinkOrder, Effect PROVE LinkOrder'
<1> USE Kinds DEF Added, Removed, LinkOrder, LinkKnown, LinkSays
<1>0. Arrivals(LinkEvents) /\ Departures(LinkEvents)
  BY Traffic
<1>1. CASE Calm
  BY <1>1 DEF Calm, posts, refused
<1>2. CASE LinkStays
  BY <1>2 DEF LinkStays, posts, refused
<1>3. CASE SoftapStarts
  BY <1>3 DEF SoftapStarts, posts, refused
<1>4. CASE HandlerBlocks
  BY <1>4 DEF HandlerBlocks, posts, refused
<1>5. CASE LossTold
  BY <1>5 DEF LossTold, posts, refused
<1>6. CASE LinkDrops
  BY <1>0, <1>6 DEF Arrivals, LinkDrops, posts, refused
<1>7. CASE SoftapDrops
  BY <1>0, <1>7 DEF Arrivals, SoftapDrops, posts, refused
<1>8. CASE SoftapRises
  BY <1>0, <1>8 DEF Arrivals, SoftapRises, posts, refused
<1>9. CASE IpComes
  BY <1>0, <1>9 DEF Arrivals, IpComes, posts, refused
<1>10. CASE IpGoes
  BY <1>0, <1>10 DEF Arrivals, IpGoes, posts, refused
<1>11. CASE LinkRises
  BY <1>0, <1>11 DEF Arrivals, LinkRises, posts, refused
<1>12. CASE UpServed
  BY <1>0, <1>12 DEF Departures, UpServed, posts, refused, First
<1>13. CASE IpServed
  BY <1>0, <1>13 DEF Departures, IpServed, posts, refused, First
<1>14. CASE NoIpServed
  BY <1>0, <1>14 DEF Departures, NoIpServed, posts, refused, First
<1>15. CASE SoftapServed
  BY <1>0, <1>15 DEF Departures, SoftapServed, posts, refused, First
<1>16. CASE NoSoftapServed
  BY <1>0, <1>16 DEF Departures, NoSoftapServed, posts, refused, First
<1>17. CASE LossServed
  BY <1>0, <1>17 DEF Departures, LossServed, LossEither, LossRemoved, posts, refused, First
<1>18. CASE LinkUnheard
  BY <1>18 DEF LinkUnheard, posts, refused
<1>19. CASE SoftapUnheard
  BY <1>19 DEF SoftapUnheard, posts, refused
<1>20. CASE IpUnheard
  BY <1>20 DEF IpUnheard, posts, refused
<1> QED
  BY <1>1, <1>2, <1>3, <1>4, <1>5, <1>6, <1>7, <1>8, <1>9, <1>10, <1>11,
     <1>12, <1>13, <1>14, <1>15, <1>16, <1>17, <1>18, <1>19,
     <1>20 DEF Effect

LEMMA SoftapStep == ASSUME TypeOK, SoftapOrder, Effect PROVE SoftapOrder'
<1> USE Kinds DEF Added, Removed, SoftapOrder, SoftapSays
<1>0. Arrivals(SoftapEvents) /\ Departures(SoftapEvents)
  BY Traffic
<1>1. CASE Calm
  BY <1>1 DEF Calm, posts, refused
<1>2. CASE LinkStays
  BY <1>2 DEF LinkStays, posts, refused
<1>3. CASE SoftapStarts
  BY <1>3 DEF SoftapStarts, posts, refused
<1>4. CASE HandlerBlocks
  BY <1>4 DEF HandlerBlocks, posts, refused
<1>5. CASE LossTold
  BY <1>5 DEF LossTold, posts, refused
<1>6. CASE LinkDrops
  BY <1>0, <1>6 DEF Arrivals, LinkDrops, posts, refused
<1>7. CASE SoftapDrops
  BY <1>0, <1>7 DEF Arrivals, SoftapDrops, posts, refused
<1>8. CASE SoftapRises
  BY <1>0, <1>8 DEF Arrivals, SoftapRises, posts, refused
<1>9. CASE IpComes
  BY <1>0, <1>9 DEF Arrivals, IpComes, posts, refused
<1>10. CASE IpGoes
  BY <1>0, <1>10 DEF Arrivals, IpGoes, posts, refused
<1>11. CASE LinkRises
  BY <1>0, <1>11 DEF Arrivals, LinkRises, posts, refused
<1>12. CASE UpServed
  BY <1>0, <1>12 DEF Departures, UpServed, posts, refused, First
<1>13. CASE IpServed
  BY <1>0, <1>13 DEF Departures, IpServed, posts, refused, First
<1>14. CASE NoIpServed
  BY <1>0, <1>14 DEF Departures, NoIpServed, posts, refused, First
<1>15. CASE SoftapServed
  <2>1. Removed(Pending, Pending', "AP_START", SoftapEvents)
    BY <1>0, <1>15 DEF Departures
  <2>2. ~lostAir /\ NoneOf(Pending', SoftapEvents) => air = "on"
    BY <2>1
  <2>3. apNetif' /\ air' = air /\ lostAir' = lostAir
    BY <1>15 DEF SoftapServed, refused
  <2> QED BY <2>1, <2>2, <2>3
<1>16. CASE NoSoftapServed
  BY <1>0, <1>16 DEF Departures, NoSoftapServed, posts, refused, First
<1>17. CASE LossServed
  BY <1>0, <1>17 DEF Departures, LossServed, LossEither, LossRemoved, posts, refused, First
<1>18. CASE LinkUnheard
  BY <1>18 DEF LinkUnheard, posts, refused
<1>19. CASE SoftapUnheard
  BY <1>19 DEF SoftapUnheard, posts, refused
<1>20. CASE IpUnheard
  BY <1>20 DEF IpUnheard, posts, refused
<1> QED
  BY <1>1, <1>2, <1>3, <1>4, <1>5, <1>6, <1>7, <1>8, <1>9, <1>10, <1>11,
     <1>12, <1>13, <1>14, <1>15, <1>16, <1>17, <1>18, <1>19,
     <1>20 DEF Effect

LEMMA IpStep == ASSUME TypeOK, IpOrder, Effect PROVE IpOrder'
<1> USE Kinds DEF Added, Removed, IpOrder
<1>0. Arrivals(IpEvents) /\ Departures(IpEvents)
  BY Traffic
<1>1. CASE Calm
  BY <1>1 DEF Calm, posts, refused
<1>2. CASE LinkStays
  BY <1>2 DEF LinkStays, posts, refused
<1>3. CASE SoftapStarts
  BY <1>3 DEF SoftapStarts, posts, refused
<1>4. CASE HandlerBlocks
  BY <1>4 DEF HandlerBlocks, posts, refused
<1>5. CASE LossTold
  BY <1>5 DEF LossTold, posts, refused
<1>6. CASE LinkDrops
  BY <1>0, <1>6 DEF Arrivals, LinkDrops, posts, refused
<1>7. CASE SoftapDrops
  BY <1>0, <1>7 DEF Arrivals, SoftapDrops, posts, refused
<1>8. CASE SoftapRises
  BY <1>0, <1>8 DEF Arrivals, SoftapRises, posts, refused
<1>9. CASE IpComes
  BY <1>0, <1>9 DEF Arrivals, IpComes, posts, refused
<1>10. CASE IpGoes
  BY <1>0, <1>10 DEF Arrivals, IpGoes, posts, refused
<1>11. CASE LinkRises
  BY <1>0, <1>11 DEF Arrivals, LinkRises, posts, refused
<1>12. CASE UpServed
  BY <1>0, <1>12 DEF Departures, UpServed, posts, refused, First
<1>13. CASE IpServed
  BY <1>0, <1>13 DEF Departures, IpServed, posts, refused, First
<1>14. CASE NoIpServed
  BY <1>0, <1>14 DEF Departures, NoIpServed, posts, refused, First
<1>15. CASE SoftapServed
  BY <1>0, <1>15 DEF Departures, SoftapServed, posts, refused, First
<1>16. CASE NoSoftapServed
  BY <1>0, <1>16 DEF Departures, NoSoftapServed, posts, refused, First
<1>17. CASE LossServed
  <2>1. Removed(Pending, Tail(Pending), "STA_DISCONNECTED", IpEvents) /\ LossEither(IpEvents)
    BY <1>0, <1>17 DEF Departures
  <2>2. ip' = FALSE
    BY <1>17 DEF LossServed
  <2>3. CASE lostIp'
    BY <2>2, <2>3
  <2>4. CASE ~ip /\ lostIp' = lostIp /\ Pending' = Tail(Pending)
    BY <2>1, <2>2, <2>4
  <2>5. CASE Added(Tail(Pending), Pending', "STA_LOST_IP", NoChannel, IpEvents)
    BY <2>2, <2>5
  <2> QED BY <2>1, <2>3, <2>4, <2>5 DEF LossEither, LossRemoved
<1>18. CASE LinkUnheard
  BY <1>18 DEF LinkUnheard, posts, refused
<1>19. CASE SoftapUnheard
  BY <1>19 DEF SoftapUnheard, posts, refused
<1>20. CASE IpUnheard
  BY <1>20 DEF IpUnheard, posts, refused
<1> QED
  BY <1>1, <1>2, <1>3, <1>4, <1>5, <1>6, <1>7, <1>8, <1>9, <1>10, <1>11,
     <1>12, <1>13, <1>14, <1>15, <1>16, <1>17, <1>18, <1>19,
     <1>20 DEF Effect

LEMMA StateStep == ASSUME TypeOK, LinkOrder, IpOrder, StateOrder, Effect PROVE StateOrder'
<1> USE Kinds DEF Added, Removed, StateOrder, LinkKnown, IpKnown, LinkOrder, IpOrder, LinkSays
<1>0. /\ Arrivals(LinkEvents) /\ Departures(LinkEvents)
      /\ Arrivals(IpEvents) /\ Departures(IpEvents)
  BY Traffic
<1>1. CASE Calm
  BY <1>1 DEF Calm, posts, refused
<1>2. CASE LinkStays
  BY <1>2 DEF LinkStays, posts, refused
<1>3. CASE SoftapStarts
  BY <1>3 DEF SoftapStarts, posts, refused
<1>4. CASE HandlerBlocks
  BY <1>4 DEF HandlerBlocks, posts, refused
<1>5. CASE LossTold
  BY <1>5 DEF LossTold, posts, refused
<1>6. CASE LinkDrops
  BY <1>0, <1>6 DEF Arrivals, LinkDrops, posts, refused
<1>7. CASE SoftapDrops
  BY <1>0, <1>7 DEF Arrivals, SoftapDrops, posts, refused
<1>8. CASE SoftapRises
  BY <1>0, <1>8 DEF Arrivals, SoftapRises, posts, refused
<1>9. CASE IpComes
  BY <1>0, <1>9 DEF Arrivals, IpComes, posts, refused
<1>10. CASE IpGoes
  BY <1>0, <1>10 DEF Arrivals, IpGoes, posts, refused
<1>11. CASE LinkRises
  BY <1>0, <1>11 DEF Arrivals, LinkRises, posts, refused
<1>12. CASE UpServed
  BY <1>0, <1>12 DEF Departures, UpServed, posts, refused, First
<1>13. CASE IpServed
  BY <1>0, <1>13 DEF Departures, IpServed, posts, refused, First
<1>14. CASE NoIpServed
  BY <1>0, <1>14 DEF Departures, NoIpServed, posts, refused, First
<1>15. CASE SoftapServed
  BY <1>0, <1>15 DEF Departures, SoftapServed, posts, refused, First
<1>16. CASE NoSoftapServed
  BY <1>0, <1>16 DEF Departures, NoSoftapServed, posts, refused, First
<1>17. CASE LossServed
  BY <1>0, <1>17 DEF Departures, LossServed, LossEither, LossRemoved, posts, refused, First
<1>18. CASE LinkUnheard
  BY <1>18 DEF LinkUnheard, posts, refused
<1>19. CASE SoftapUnheard
  BY <1>19 DEF SoftapUnheard, posts, refused
<1>20. CASE IpUnheard
  BY <1>20 DEF IpUnheard, posts, refused
<1> QED
  BY <1>1, <1>2, <1>3, <1>4, <1>5, <1>6, <1>7, <1>8, <1>9, <1>10, <1>11,
     <1>12, <1>13, <1>14, <1>15, <1>16, <1>17, <1>18, <1>19,
     <1>20 DEF Effect

LEMMA ToldStep == ASSUME TypeOK, FilterExact, IpOrder, ToldOrder, Effect PROVE ToldOrder'
<1> USE Kinds DEF Added, Removed, ToldOrder, FilterExact, IpOrder, IpKnown
<1>0. Arrivals(IpEvents) /\ Departures(IpEvents)
  BY Traffic
<1>1. CASE Calm
  BY <1>1 DEF Calm, posts, refused
<1>2. CASE LinkStays
  BY <1>2 DEF LinkStays, posts, refused
<1>3. CASE SoftapStarts
  BY <1>3 DEF SoftapStarts, posts, refused
<1>4. CASE HandlerBlocks
  BY <1>4 DEF HandlerBlocks, posts, refused
<1>5. CASE LossTold
  BY <1>5 DEF LossTold, posts, refused, PostSta, LastEvent, Repeated
<1>6. CASE LinkDrops
  BY <1>0, <1>6 DEF Arrivals, LinkDrops, posts, refused
<1>7. CASE SoftapDrops
  BY <1>0, <1>7 DEF Arrivals, SoftapDrops, posts, refused
<1>8. CASE SoftapRises
  BY <1>0, <1>8 DEF Arrivals, SoftapRises, posts, refused
<1>9. CASE IpComes
  BY <1>0, <1>9 DEF Arrivals, IpComes, posts, refused
<1>10. CASE IpGoes
  BY <1>0, <1>10 DEF Arrivals, IpGoes, posts, refused
<1>11. CASE LinkRises
  BY <1>0, <1>11 DEF Arrivals, LinkRises, posts, refused
<1>12. CASE UpServed
  <2>1. Removed(Pending, Pending', "STA_CONNECTED", IpEvents)
    BY <1>0, <1>12 DEF Departures
  <2> QED BY <1>12, <2>1 DEF UpServed, posts, refused, First, Served
<1>13. CASE IpServed
  <2>1. Removed(Pending, Pending', "STA_GOT_IP", IpEvents)
    BY <1>0, <1>13 DEF Departures
  <2> QED BY <1>13, <2>1 DEF IpServed, posts, refused, First, Served, PostSta, LastEvent, Repeated
<1>14. CASE NoIpServed
  <2>1. Removed(Pending, Pending', "STA_LOST_IP", IpEvents)
    BY <1>0, <1>14 DEF Departures
  <2> QED BY <1>14, <2>1 DEF NoIpServed, posts, refused, First, Served, PostSta, LastEvent, Repeated
<1>15. CASE SoftapServed
  <2>1. Removed(Pending, Pending', "AP_START", IpEvents)
    BY <1>0, <1>15 DEF Departures
  <2> QED BY <1>15, <2>1 DEF SoftapServed, posts, refused, First, Served
<1>16. CASE NoSoftapServed
  <2>1. Removed(Pending, Pending', "AP_STOP", IpEvents)
    BY <1>0, <1>16 DEF Departures
  <2> QED BY <1>16, <2>1 DEF NoSoftapServed, posts, refused, First, Served
<1>17. CASE LossServed
  <2>1. /\ Removed(Pending, Tail(Pending), "STA_DISCONNECTED", IpEvents)
        /\ LossEither(IpEvents)
    BY <1>0, <1>17 DEF Departures
  <2> QED BY <1>17, <2>1 DEF LossServed, LossEither, LossRemoved, posts, refused, First
<1>18. CASE LinkUnheard
  BY <1>18 DEF LinkUnheard, posts, refused
<1>19. CASE SoftapUnheard
  BY <1>19 DEF SoftapUnheard, posts, refused
<1>20. CASE IpUnheard
  BY <1>20 DEF IpUnheard, posts, refused
<1> QED
  BY <1>1, <1>2, <1>3, <1>4, <1>5, <1>6, <1>7, <1>8, <1>9, <1>10, <1>11,
     <1>12, <1>13, <1>14, <1>15, <1>16, <1>17, <1>18, <1>19,
     <1>20 DEF Effect

LEMMA FilterStep == ASSUME TypeOK, FilterExact, Effect PROVE FilterExact'
<1> USE DEF FilterExact, posts, PostSta, LastEvent, Repeated
<1>1. CASE UNCHANGED posts
  BY <1>1
<1>2. CASE LossTold \/ NoIpServed
  BY <1>2 DEF LossTold, NoIpServed
<1>3. CASE IpServed
  BY <1>3 DEF IpServed
<1>4. CASE SoftapServed
  BY <1>4 DEF SoftapServed
<1> QED
  BY <1>1, <1>2, <1>3, <1>4 DEF Effect, Calm, LinkStays, LinkDrops, LinkRises,
     SoftapStarts, SoftapDrops, SoftapRises, IpComes, IpGoes, HandlerBlocks,
     UpServed, LossServed, NoSoftapServed, LinkUnheard, SoftapUnheard, IpUnheard

-----------------------------------------------------------------------------
(* The channel *)

(* What a step does to the queue of the manager and to its channel. *)
Unheard == handling.type = "STA_CONNECTED" => handling' = handling
QueueStays == Unheard /\ UNCHANGED <<queue, channel, lostChannel>>
OtherSent ==
    /\ \E m \in Messages : m.type \notin Change /\ queue' = Append(queue, m)
    /\ Unheard /\ UNCHANGED <<channel, lostChannel>>
OtherTaken ==
    /\ queue # <<>> /\ Head(queue).type \notin Change /\ queue' = Tail(queue)
    /\ Unheard /\ UNCHANGED <<channel, lostChannel>>
ChangeTaken ==
    /\ queue # <<>> /\ Head(queue).type \in Change /\ queue' = Tail(queue)
    /\ channel' = Head(queue).channel
    /\ Unheard /\ UNCHANGED lostChannel
ChangeLost ==
    handling.type = "STA_CONNECTED" /\ lostChannel' /\ UNCHANGED <<queue, channel>>
ChangeSent ==
    /\ handling.type = "STA_CONNECTED"
    /\ queue' = Append(queue, Message("RF_CHANNEL_CHANGE", FALSE, handling.channel))
    /\ lostChannel' = FALSE /\ UNCHANGED channel
QueueEffect == QueueStays \/ OtherSent \/ OtherTaken \/ ChangeTaken \/ ChangeLost \/ ChangeSent

LEMMA StepQueue == ASSUME TypeOK, [Next]_vars PROVE QueueEffect
<1> USE DEF manager, station, softap, evtask, posts, radio, netifs, lost, refused, wanted
<1>1. ASSUME UNCHANGED <<queue, channel, lostChannel>>, Unheard PROVE QueueEffect
  BY <1>1 DEF QueueEffect, QueueStays
<1>2. ASSUME NEW type, type \notin Change, Take(type), Unheard,
             UNCHANGED <<channel, lostChannel>>
      PROVE  QueueEffect
  BY <1>2 DEF QueueEffect, OtherTaken, Take
<1>3. CASE Application
  <2>1. PICK msg \in Messages : msg.type \notin Change /\ Ask(msg)
    BY <1>3, NetManagerAssumption DEF Application, StartStation, StopStation,
       StartSoftap, StopSoftap, SetSoftapIp, Message, Messages, Known, Change,
       NoChannel
  <2> QED BY <2>1 DEF Ask, Sent, QueueEffect, OtherSent, Unheard
<1>4. CASE TimerFires
  <2>1. CASE Sent(Message("START_CONNECT", FALSE, NoChannel))
    <3>1. /\ Message("START_CONNECT", FALSE, NoChannel) \in Messages
          /\ Message("START_CONNECT", FALSE, NoChannel).type \notin Change
      BY RecordTypes DEF Message, Change
    <3> QED BY <1>4, <2>1, <3>1 DEF TimerFires, Sent, QueueEffect, OtherSent, Unheard
  <2>2. CASE NotSent
    BY <1>1, <1>4, <2>2 DEF TimerFires, NotSent, Unheard
  <2> QED BY <1>4, <2>1, <2>2 DEF TimerFires
<1>5. CASE TakeStartIgnored
  BY <1>2, <1>5 DEF TakeStartIgnored, Unheard, Change
<1>6. CASE TakeStart
  BY <1>2, <1>6 DEF TakeStart, Unheard, Change
<1>7. CASE ConnectFails
  BY <1>1, <1>7 DEF ConnectFails, Unheard
<1>8. CASE ConnectStarts
  BY <1>1, <1>8 DEF ConnectStarts, Unheard
<1>9. CASE ConnectReturns
  BY <1>1, <1>9 DEF ConnectReturns, Unheard
<1>10. CASE TakeDisconnect
  BY <1>2, <1>10 DEF TakeDisconnect, Unheard, Change
<1>11. CASE DisconnectReturns
  BY <1>1, <1>11 DEF DisconnectReturns, Unheard
<1>12. CASE TakeChannelSame
  BY <1>12 DEF TakeChannelSame, Take, Unheard, Change, QueueEffect, ChangeTaken
<1>13. CASE TakeChannelMove
  BY <1>13 DEF TakeChannelMove, Take, Unheard, Change, QueueEffect, ChangeTaken
<1>14. CASE TakeApStart
  BY <1>2, <1>14 DEF TakeApStart, Unheard, Change
<1>15. CASE ApConfigIgnored
  BY <1>1, <1>15 DEF ApConfigIgnored, Unheard
<1>16. CASE ApConfigure
  BY <1>1, <1>16 DEF ApConfigure, Unheard
<1>17. CASE ApStartFails
  BY <1>1, <1>17 DEF ApStartFails, Unheard
<1>18. CASE ApStartOk
  BY <1>1, <1>18 DEF ApStartOk, Unheard
<1>19. CASE TakeApStop
  BY <1>2, <1>19 DEF TakeApStop, Unheard, Change
<1>20. CASE ApStopReturns
  BY <1>1, <1>20 DEF ApStopReturns, Unheard
<1>21. CASE ConnectedTaken
  BY <1>1, <1>21, ChannelTypes DEF ConnectedTaken, TakeEvent, Heads, Unheard
<1>22. CASE ConnectedHandled
  BY <1>22 DEF ConnectedHandled, Handled, Sent, NotSent, QueueEffect, ChangeLost, ChangeSent
<1>23. CASE DisconnectedTaken
  BY <1>1, <1>23, ChannelTypes DEF DisconnectedTaken, TakeEvent, Heads, Unheard
<1>24. CASE DisconnectedHandled
  BY <1>1, <1>24 DEF DisconnectedHandled, Handled, Unheard
<1>25. CASE GotIpHandled
  BY <1>1, <1>25 DEF GotIpHandled, Unheard
<1>26. CASE LostIpHandled
  BY <1>1, <1>26 DEF LostIpHandled, Unheard
<1>27. CASE ApStartedTaken
  BY <1>1, <1>27, ChannelTypes DEF ApStartedTaken, TakeEvent, Heads, Unheard
<1>28. CASE ApStartedHandled
  BY <1>1, <1>28 DEF ApStartedHandled, Handled, Unheard
<1>29. CASE ApStoppedTaken
  BY <1>1, <1>29, ChannelTypes DEF ApStoppedTaken, TakeEvent, Heads, Unheard
<1>30. CASE ApStoppedHandled
  BY <1>1, <1>30 DEF ApStoppedHandled, Handled, Unheard
<1>31. CASE World
  BY <1>1, <1>31 DEF World, Associated, LinkLost, GetsIp, LosesIp, ApOnAir, Unheard
<1>32. CASE UNCHANGED vars
  BY <1>1, <1>32 DEF vars, Unheard
<1> QED
  BY <1>3, <1>4, <1>5, <1>6, <1>7, <1>8, <1>9, <1>10, <1>11, <1>12, <1>13,
     <1>14, <1>15, <1>16, <1>17, <1>18, <1>19, <1>20, <1>21, <1>22, <1>23,
     <1>24, <1>25, <1>26, <1>27, <1>28, <1>29, <1>30, <1>31,
     <1>32 DEF Next, Manager, EventTask

(* When the manager has heard of a link that is up, it had heard of it     *)
(* before, or it does in this step.                                        *)
LEMMA LinkHeard ==
    ASSUME TypeOK, LinkOrder, Effect, LinkKnown', link' = "up", ~lostLink'
    PROVE  /\ link = "up" /\ linkCh' = linkCh
           /\ ~lostLink /\ (LinkKnown \/ (UpServed /\ handling.channel = linkCh))
<1> USE Kinds DEF refused, LinkOrder, LinkKnown, LinkSays, Added, Removed
<1>0. Arrivals(LinkEvents) /\ Departures(LinkEvents)
  BY Traffic
<1>1. CASE Calm
  BY <1>1 DEF Calm
<1>2. CASE LinkStays
  BY <1>2 DEF LinkStays
<1>3. CASE SoftapStarts
  BY <1>3 DEF SoftapStarts
<1>4. CASE HandlerBlocks
  BY <1>4 DEF HandlerBlocks
<1>5. CASE LossTold
  BY <1>5 DEF LossTold
<1>6. CASE LinkDrops
  BY <1>0, <1>6 DEF Arrivals, LinkDrops
<1>7. CASE SoftapDrops
  BY <1>0, <1>7 DEF Arrivals, SoftapDrops
<1>8. CASE SoftapRises
  BY <1>0, <1>8 DEF Arrivals, SoftapRises
<1>9. CASE IpComes
  BY <1>0, <1>9 DEF Arrivals, IpComes
<1>10. CASE IpGoes
  BY <1>0, <1>10 DEF Arrivals, IpGoes
<1>11. CASE LinkRises
  BY <1>0, <1>11 DEF Arrivals, LinkRises
<1>12. CASE UpServed
  BY <1>0, <1>12 DEF Departures, UpServed
<1>13. CASE IpServed
  BY <1>0, <1>13 DEF Departures, IpServed
<1>14. CASE NoIpServed
  BY <1>0, <1>14 DEF Departures, NoIpServed
<1>15. CASE SoftapServed
  BY <1>0, <1>15 DEF Departures, SoftapServed
<1>16. CASE NoSoftapServed
  BY <1>0, <1>16 DEF Departures, NoSoftapServed
<1>17. CASE LossServed
  BY <1>0, <1>17 DEF Departures, LossServed, LossEither
<1>18. CASE LinkUnheard
  BY <1>18 DEF LinkUnheard
<1>19. CASE SoftapUnheard
  BY <1>19 DEF SoftapUnheard
<1>20. CASE IpUnheard
  BY <1>20 DEF IpUnheard
<1> QED
  BY <1>1, <1>2, <1>3, <1>4, <1>5, <1>6, <1>7, <1>8, <1>9, <1>10, <1>11,
     <1>12, <1>13, <1>14, <1>15, <1>16, <1>17, <1>18, <1>19,
     <1>20 DEF Effect

LEMMA Blocked ==
    ASSUME TypeOK, handling.type = "STA_CONNECTED"
    PROVE  ~LinkKnown /\ (ChannelNamed => handling.channel # NoChannel)
<1>1. handling # NoEvent /\ events \in Seq(Events) /\ handling \in Events
  BY ChannelTypes DEF TypeOK, QueueTypes
<1>2. /\ Len(<<handling>> \o events) \in Nat \ {0}
      /\ (<<handling>> \o events)[1] = handling
  BY <1>1
<1>3. Pending[1] = handling /\ 1 \in 1 .. Len(Pending)
  BY <1>1, <1>2 DEF Pending
<1> QED BY <1>3, Kinds DEF LinkKnown, NoneOf, ChannelNamed, Named, Ups

(* The queue of the manager after a message was added or taken. *)
LEMMA QueueGrown ==
    ASSUME TypeOK, NEW m \in Messages, queue' = Append(queue, m)
    PROVE  /\ \A e : LastOf(queue', Change, e) =>
                  IF m.type \in Change THEN e = m ELSE LastOf(queue, Change, e)
           /\ NoneOf(queue', Change) => m.type \notin Change /\ NoneOf(queue, Change)
<1> DEFINE s == queue
<1> DEFINE q == queue'
<1>1. s \in Seq(Messages) /\ q = Append(s, m)
  BY DEF TypeOK, QueueTypes
<1> HIDE DEF s, q
<1>2. /\ \A e : LastOf(q, Change, e) =>
             IF m.type \in Change THEN e = m ELSE LastOf(s, Change, e)
      /\ NoneOf(q, Change) => m.type \notin Change /\ NoneOf(s, Change)
  BY <1>1, AppendLast
<1> QED BY <1>2 DEF s, q

LEMMA QueueShrunk ==
    ASSUME TypeOK, queue # <<>>, queue' = Tail(queue)
    PROVE  /\ \A e : LastOf(queue', Change, e) => LastOf(queue, Change, e)
           /\ NoneOf(queue', Change) =>
                 IF Head(queue).type \in Change THEN LastOf(queue, Change, Head(queue))
                 ELSE NoneOf(queue, Change)
<1>1. queue \in Seq(Messages)
  BY DEF TypeOK, QueueTypes
<1> QED BY <1>1, TailLast

LEMMA ChannelStep ==
    ASSUME TypeOK, LinkOrder, ChannelOrder, Effect, QueueEffect
    PROVE  ChannelOrder'
<1> SUFFICES ASSUME LinkKnown', link' = "up", ~lostLink', ~lostChannel'
             PROVE  /\ \A m : LastOf(queue', Change, m) => m.channel = linkCh
                    /\ NoneOf(queue', Change) => channel' = linkCh
  BY LinkHeard DEF ChannelOrder
<1>1. link = "up" /\ ~lostLink /\ (LinkKnown \/ (UpServed /\ handling.channel = linkCh))
  BY LinkHeard
<1>2. UpServed => handling.type = "STA_CONNECTED" /\ handling'.type = "none"
  BY DEF UpServed, Served, First
<1>3. ASSUME Unheard, UNCHANGED lostChannel
      PROVE  /\ \A m : LastOf(queue, Change, m) => m.channel = linkCh
             /\ NoneOf(queue, Change) => channel = linkCh
  BY <1>1, <1>2, <1>3 DEF Unheard, ChannelOrder
<1>4. CASE QueueStays
  BY <1>3, <1>4 DEF QueueStays
<1>5. CASE OtherSent
  BY <1>3, <1>5, QueueGrown DEF OtherSent
<1>6. CASE OtherTaken
  BY <1>3, <1>6, QueueShrunk DEF OtherTaken
<1>7. CASE ChangeTaken
  BY <1>3, <1>7, QueueShrunk DEF ChangeTaken
<1>8. CASE ChangeLost
  BY <1>8 DEF ChangeLost
<1>9. CASE ChangeSent
  <2> DEFINE m == Message("RF_CHANNEL_CHANGE", FALSE, handling.channel)
  <2>1. handling.type = "STA_CONNECTED" /\ queue' = Append(queue, m)
    BY <1>9 DEF ChangeSent
  <2>2. m.type \in Change /\ m.channel = handling.channel
    BY DEF Message, Change
  <2>3. m \in Messages
    BY RecordTypes DEF TypeOK, QueueTypes, Events
  <2>4. handling.channel = linkCh
    BY <1>1, <2>1, Blocked
  <2> HIDE DEF m
  <2> QED BY <2>1, <2>2, <2>3, <2>4, QueueGrown
<1> QED BY <1>4, <1>5, <1>6, <1>7, <1>8, <1>9 DEF QueueEffect

LEMMA NamedQueue ==
    ASSUME NEW S, NEW s \in Seq(S), NEW T, Named(s, T)
    PROVE  /\ s # <<>> => /\ Named(Tail(s), T)
                          /\ Head(s).type \in T => Head(s).channel # NoChannel
           /\ \A x \in S : (x.type \in T => x.channel # NoChannel) => Named(Append(s, x), T)
<1>1. ASSUME s # <<>>
      PROVE  /\ Named(Tail(s), T)
             /\ Head(s).type \in T => Head(s).channel # NoChannel
  <2>1. /\ Len(s) \in Nat \ {0} /\ Head(s) = s[1] /\ Len(Tail(s)) = Len(s) - 1
        /\ \A i \in 1 .. Len(s) - 1 : Tail(s)[i] = s[i + 1]
    BY <1>1, FirstTaken
  <2>2. \A i \in 1 .. Len(s) - 1 : i + 1 \in 1 .. Len(s)
    BY <2>1
  <2>3. 1 \in 1 .. Len(s)
    BY <2>1
  <2> QED BY <2>1, <2>2, <2>3 DEF Named
<1>2. ASSUME NEW x \in S, x.type \in T => x.channel # NoChannel
      PROVE  Named(Append(s, x), T)
  <2> DEFINE q == Append(s, x)
  <2>1. /\ Len(s) \in Nat /\ Len(q) = Len(s) + 1 /\ q[Len(s) + 1] = x
        /\ \A i \in 1 .. Len(s) : q[i] = s[i]
    OBVIOUS
  <2> HIDE DEF q
  <2>2. Named(q, T)
    BY <1>2, <2>1 DEF Named
  <2> QED BY <2>2 DEF q
<1> QED BY <1>1, <1>2

LEMMA NamedStep ==
    ASSUME TypeOK, ChannelNamed, Effect, QueueEffect
    PROVE  ChannelNamed'
<1>1. link' = "up" => linkCh' # NoChannel
  BY NetManagerAssumption DEF ChannelNamed, Effect, Calm, LinkStays, LinkDrops,
     LinkRises, SoftapStarts, SoftapDrops, SoftapRises, IpComes, IpGoes,
     HandlerBlocks, LossTold, UpServed, LossServed, IpServed, NoIpServed,
     SoftapServed, NoSoftapServed, LinkUnheard, SoftapUnheard, IpUnheard, NoChannel
<1>2. Named(queue', Change)
  <2>1. queue \in Seq(Messages) /\ Named(queue, Change)
    BY DEF TypeOK, QueueTypes, ChannelNamed
  <2>2. CASE QueueStays \/ ChangeLost
    BY <2>1, <2>2 DEF QueueStays, ChangeLost
  <2>3. CASE OtherSent
    BY <2>1, <2>3, NamedQueue DEF OtherSent
  <2>4. CASE OtherTaken \/ ChangeTaken
    BY <2>1, <2>4, NamedQueue DEF OtherTaken, ChangeTaken
  <2>5. CASE ChangeSent
    <3>1. handling.channel # NoChannel
      BY <2>5, Blocked DEF ChangeSent
    <3>2. Message("RF_CHANNEL_CHANGE", FALSE, handling.channel) \in Messages
      BY RecordTypes DEF TypeOK, QueueTypes, Events
    <3>3. Message("RF_CHANNEL_CHANGE", FALSE, handling.channel).channel # NoChannel
      BY <3>1 DEF Message
    <3> QED BY <2>1, <2>5, <3>2, <3>3, NamedQueue DEF ChangeSent
  <2> QED BY <2>2, <2>3, <2>4, <2>5 DEF QueueEffect
<1>3. Named(Pending', Ups)
  <2>1. Pending \in Seq(Events) /\ Named(Pending, Ups)
    BY PendingType DEF ChannelNamed
  <2>2. Pending # <<>> => Tail(Pending) \in Seq(Events) /\ Named(Tail(Pending), Ups)
    BY <2>1, NamedQueue, FirstTaken
  <2>3. ASSUME NEW s \in Seq(Events), Named(s, Ups), NEW t, NEW c,
               Event(t, c) \in Events, t = "STA_CONNECTED" => c # NoChannel
        PROVE  Named(Append(s, Event(t, c)), Ups)
    <3>1. Event(t, c).type = t /\ Event(t, c).channel = c
      BY DEF Event
    <3> QED BY <2>3, <3>1, NamedQueue DEF Ups
  <2>4. CASE Pending' = Pending
    BY <2>1, <2>4
  <2>5. CASE Pending # <<>> /\ Pending' = Tail(Pending)
    BY <2>2, <2>5
  <2>6. CASE LossServed
    <3>1. CASE ip
      BY <2>2, <2>3, <2>6, <3>1, RecordTypes DEF LossServed, LossReplaced, First
    <3>2. CASE ~ip
      BY <2>2, <2>6, <3>2 DEF LossServed, LossReplaced, First
    <3> QED BY <3>1, <3>2
  <2>7. CASE LinkRises
    <3>1. PICK c \in Channels : Pending' = Append(Pending, Event("STA_CONNECTED", c))
      BY <2>7 DEF LinkRises
    <3>2. c # NoChannel /\ Event("STA_CONNECTED", c) \in Events
      BY NetManagerAssumption, RecordTypes, ChannelTypes DEF NoChannel
    <3> QED BY <2>1, <2>3, <3>1, <3>2
  <2>8. CASE LinkDrops \/ SoftapDrops \/ SoftapRises \/ IpComes \/ IpGoes
    BY <2>1, <2>3, <2>8, RecordTypes DEF LinkDrops, SoftapDrops, SoftapRises,
       IpComes, IpGoes
  <2> QED
    BY <2>4, <2>5, <2>6, <2>7, <2>8 DEF Effect, Calm, LinkStays, SoftapStarts,
       HandlerBlocks, LossTold, UpServed, IpServed, NoIpServed, SoftapServed,
       NoSoftapServed, LinkUnheard, SoftapUnheard, IpUnheard, Served, First
<1> QED BY <1>1, <1>2, <1>3 DEF ChannelNamed

LEMMA SoftapChannelStep ==
    ASSUME TypeOK, SoftapHeld, ChannelNamed, SoftapChannel, [Next]_vars
    PROVE  SoftapChannel'
<1> USE DEF manager, station, softap, evtask, posts, radio, netifs, lost, refused, wanted
<1>1. ASSUME UNCHANGED <<missed, apConfig, channel>>,
             air' # "off" => air # "off" \/ pc = "apstart",
             pc' = pc \/ (pc' \notin {"apconfig", "apstart"} /\ pc # "apconfig")
      PROVE  SoftapChannel'
  BY <1>1 DEF SoftapChannel, ApChannel
<1>2. CASE Application
  <2>1. PICK msg \in Messages : Ask(msg)
    BY <1>2, ApplicationAsks DEF Asks
  <2> QED BY <1>1, <2>1 DEF Ask
<1>3. CASE TakeChannelSame
  <2>1. /\ queue # <<>> /\ Head(queue).type \in Change /\ pc' = "idle"
        /\ queue \in Seq(Messages) /\ Named(queue, Change)
    BY <1>3 DEF TakeChannelSame, Take, Change, TypeOK, QueueTypes, ChannelNamed
  <2>2. channel' # NoChannel
    BY <1>3, <2>1, NamedQueue DEF TakeChannelSame
  <2> QED BY <1>3, <2>1, <2>2 DEF TakeChannelSame, SoftapChannel, ApChannel
<1>4. CASE ApConfigIgnored
  BY <1>4 DEF ApConfigIgnored, SoftapHeld, SoftapChannel
<1>5. CASE ApConfigure
  BY <1>5 DEF ApConfigure, SoftapChannel, ApChannel
<1>6. CASE TakeChannelMove \/ TakeApStart
  BY <1>6 DEF TakeChannelMove, TakeApStart, SoftapChannel
<1>7. CASE ApStopReturns
  BY <1>7 DEF ApStopReturns, SoftapHeld, SoftapChannel
<1>8. CASE TimerFires
  BY <1>1, <1>8 DEF TimerFires
<1>9. CASE TakeStartIgnored
  BY <1>1, <1>9 DEF TakeStartIgnored, Take
<1>10. CASE TakeStart
  BY <1>1, <1>10 DEF TakeStart, Take
<1>11. CASE ConnectFails
  BY <1>1, <1>11 DEF ConnectFails
<1>12. CASE ConnectStarts
  BY <1>1, <1>12 DEF ConnectStarts
<1>13. CASE ConnectReturns
  BY <1>1, <1>13 DEF ConnectReturns
<1>14. CASE TakeDisconnect
  BY <1>1, <1>14 DEF TakeDisconnect, Take
<1>15. CASE DisconnectReturns
  BY <1>1, <1>15 DEF DisconnectReturns
<1>16. CASE ApStartFails
  BY <1>1, <1>16 DEF ApStartFails
<1>17. CASE ApStartOk
  BY <1>1, <1>17 DEF ApStartOk
<1>18. CASE TakeApStop
  BY <1>1, <1>18 DEF TakeApStop, Take
<1>19. CASE ConnectedTaken
  BY <1>1, <1>19 DEF ConnectedTaken
<1>20. CASE ConnectedHandled
  BY <1>1, <1>20 DEF ConnectedHandled
<1>21. CASE DisconnectedTaken
  BY <1>1, <1>21 DEF DisconnectedTaken
<1>22. CASE DisconnectedHandled
  BY <1>1, <1>22 DEF DisconnectedHandled
<1>23. CASE GotIpHandled
  BY <1>1, <1>23 DEF GotIpHandled
<1>24. CASE LostIpHandled
  BY <1>1, <1>24 DEF LostIpHandled
<1>25. CASE ApStartedTaken
  BY <1>1, <1>25 DEF ApStartedTaken
<1>26. CASE ApStartedHandled
  BY <1>1, <1>26 DEF ApStartedHandled
<1>27. CASE ApStoppedTaken
  BY <1>1, <1>27 DEF ApStoppedTaken
<1>28. CASE ApStoppedHandled
  BY <1>1, <1>28 DEF ApStoppedHandled
<1>29. CASE World
  BY <1>1, <1>29 DEF World, Associated, LinkLost, GetsIp, LosesIp, ApOnAir
<1>30. CASE UNCHANGED vars
  BY <1>1, <1>30 DEF vars
<1> QED
  BY <1>2, <1>3, <1>4, <1>5, <1>6, <1>7, <1>8, <1>9, <1>10, <1>11, <1>12,
     <1>13, <1>14, <1>15, <1>16, <1>17, <1>18, <1>19, <1>20, <1>21, <1>22,
     <1>23, <1>24, <1>25, <1>26, <1>27, <1>28, <1>29,
     <1>30 DEF Next, Manager, EventTask

-----------------------------------------------------------------------------
(* The theorems *)

LEMMA InitOrder == Init => Order
<1> SUFFICES ASSUME Init PROVE Order
  OBVIOUS
<1>1. Pending = <<>> /\ queue = <<>>
  BY DEF Init, Pending
<1>2. \A T : /\ NoneOf(Pending, T) /\ NoneOf(queue, T) /\ Named(Pending, T) /\ Named(queue, T)
            /\ \A e : ~LastOf(Pending, T, e) /\ ~LastOf(queue, T, e)
  <2>1. \A T : Named(<<>>, T)
    BY DEF Named
  <2> QED BY <1>1, <2>1, EmptyNone
<1>3. LinkOrder /\ SoftapOrder /\ IpOrder
  BY <1>2 DEF Init, LinkOrder, SoftapOrder, IpOrder
<1>4. StateOrder /\ FilterExact /\ ToldOrder
  BY <1>2, ChannelTypes DEF Init, StateOrder, FilterExact, ToldOrder
<1>5. ChannelNamed /\ ChannelOrder /\ SoftapChannel
  BY <1>2 DEF Init, ChannelNamed, ChannelOrder, SoftapChannel
<1> QED BY <1>3, <1>4, <1>5 DEF Order

(* The events under way always account for the difference between the      *)
(* radio and what is recorded of it, unless the latest of them was refused.*)
THEOREM SpecOrder == Spec => []Order
<1>1. Inv /\ Order /\ [Next]_vars => Order'
  <2> SUFFICES ASSUME Inv, Order, [Next]_vars PROVE Order'
    OBVIOUS
  <2>1. TypeOK /\ SoftapHeld /\ Effect /\ QueueEffect
    BY StepEffect, StepQueue DEF Inv
  <2>2. LinkOrder' /\ SoftapOrder' /\ IpOrder' /\ StateOrder' /\ FilterExact' /\ ToldOrder'
    BY <2>1, LinkStep, SoftapStep, IpStep, StateStep, FilterStep, ToldStep DEF Order
  <2>3. ChannelNamed' /\ ChannelOrder' /\ SoftapChannel'
    BY <2>1, NamedStep, ChannelStep, SoftapChannelStep DEF Order
  <2> QED BY <2>2, <2>3 DEF Order
<1> QED BY <1>1, InitOrder, SpecInv, PTL DEF Spec

LEMMA DoneKnown ==
    ASSUME EventsDone
    PROVE  /\ LinkKnown /\ IpKnown /\ NoneOf(Pending, SoftapEvents)
           /\ handling.type = "none"
<1>1. Pending = <<>>
  BY DEF EventsDone, Pending
<1> QED BY <1>1, EmptyNone, ChannelTypes DEF LinkKnown, IpKnown, EventsDone

(* Once the events are handled, the interfaces of lwIP are those of the    *)
(* link and of the softAP, however the events of a connection and of its   *)
(* loss, or of a start and of a stop, overtook the calls, unless the       *)
(* latest event of the kind was refused.                                   *)
THEOREM NetifsMatchRadio == Spec => []NetifFollowsLink
<1>1. Inv /\ Order => NetifFollowsLink
  <2> SUFFICES ASSUME Inv, Order, EventsDone
               PROVE  /\ ~lostLink => staNetif = (link = "up")
                      /\ ~lostAir => apNetif = (air = "on")
    BY DEF NetifFollowsLink
  <2>1. /\ ~lostLink => (staNetif <=> link = "up")
        /\ ~lostAir => (apNetif <=> air = "on")
    BY DoneKnown DEF Order, LinkOrder, SoftapOrder
  <2>2. staNetif \in BOOLEAN /\ apNetif \in BOOLEAN
    BY DEF Inv, TypeOK, FlagTypes
  <2> QED BY <2>1, <2>2, Zenon
<1> QED BY <1>1, SpecInv, SpecOrder, PTL

(* sta_state reports no connection and no address that is gone, although   *)
(* two tasks write it and late events overwrite it, unless the event that  *)
(* tells of the loss was refused.                                          *)
THEOREM StateIsHonest == Spec => []StateNotOptimistic
<1>1. Order => StateNotOptimistic
  BY DoneKnown DEF Order, StateOrder, LinkOrder, IpOrder, StateNotOptimistic, Quiet
<1> QED BY <1>1, SpecOrder, PTL

(* The duplicate filter of wm_nm_event_post, which forgets what it let     *)
(* through when the softAP becomes ready, hides no change of the address   *)
(* that lwIP's own event told the manager of.                              *)
THEOREM AddressIsTold == Spec => []ApplicationKnows
<1>1. Inv /\ Order => ApplicationKnows
  <2> SUFFICES ASSUME Inv, Order, EventsDone, ~postFailed, ~lostIp
               PROVE  (told = "GOT_IP") = ip
    BY DEF ApplicationKnows
  <2>1. told = "GOT_IP" <=> ip
    BY DoneKnown DEF Order, ToldOrder
  <2>2. ip \in BOOLEAN
    BY DEF Inv, TypeOK, FlagTypes
  <2> QED BY <2>1, <2>2, Zenon
<1> QED BY <1>1, SpecInv, SpecOrder, PTL

(* The softAP ends up on the channel of the station's link, through any    *)
(* sequence of connections, losses and restarts of the softAP, unless the  *)
(* event of the connection or the change of channel was lost or missed.    *)
THEOREM SoftapFollowsStation == Spec => []SameChannel
<1>1. Order => SameChannel
  <2> SUFFICES ASSUME Order, Quiet, queue = <<>>, ~lostLink, ~lostChannel, ~missed,
                      link = "up", air = "on", airCh = apConfig
               PROVE  airCh = linkCh
    BY DEF SameChannel
  <2>1. channel = linkCh /\ linkCh # NoChannel
    BY DoneKnown, EmptyNone DEF Quiet, Order, ChannelOrder, ChannelNamed
  <2>2. apConfig = ApChannel
    BY DEF Quiet, Order, SoftapChannel
  <2> QED BY <2>1, <2>2 DEF ApChannel
<1> QED BY <1>1, SpecOrder, PTL
=============================================================================
