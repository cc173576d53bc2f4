----------------------------- MODULE NetManager -----------------------------
(***************************************************************************)
(* The net manager: wm_nm_wifi.c (its task, its queue and the one-shot     *)
(* reconnection timer) and wm_nm_core.c (what the event task does with the *)
(* events of the Wi-Fi library and of lwIP).                               *)
(*                                                                         *)
(* Two tasks share s_nm_wifi without a lock.  The event task has the       *)
(* higher priority, so the task of the manager runs when no event is left  *)
(* or when the handler of one is blocked, in the calls that add or remove  *)
(* a network interface; a handler that can block has therefore two steps,  *)
(* EvTake and the rest.  A call of the Wi-Fi library blocks the manager's  *)
(* task: what it does before the call and after it are different steps.    *)
(*                                                                         *)
(* The Wi-Fi library is a binary and lwIP is vendored: link, air and ip    *)
(* are their state, seen through the calls and the events of this code.    *)
(* Their events are sent by notify.c of the supplicant and by              *)
(* wm_netif_lwip.c, and neither looks at the result of wm_event_send: any  *)
(* of them may be refused, and nobody is told.                             *)
(***************************************************************************)
EXTENDS Naturals, Sequences

CONSTANTS
    Channels,       \* Wi-Fi channels of the access points in range
    QueueSize,      \* WM_NM_QUEUE_SIZE
    EventBound,     \* places of the event queue these events may take
    CallBound       \* bound: calls of the application

ASSUME NetManagerAssumption ==
    /\ Channels \subseteq Nat \ {0} /\ Channels # {}
    /\ QueueSize \in Nat \ {0} /\ EventBound \in Nat \ {0}
    /\ CallBound \in Nat

VARIABLES
    queue,          \* s_nm_wifi.queue
    pc, ssid,       \* where the manager's task is; msg->ap.ssid[0]
    staConfig,      \* s_nm_wifi.sta_config # NULL
    staState,       \* s_nm_wifi.sta_state
    apConfig,       \* s_nm_wifi.ap_config: NoChannel for NULL, else ap.channel
    apState,        \* s_nm_wifi.ap_state
    channel,        \* s_nm_wifi.channel
    timer,          \* re_con_timer is running
    events,         \* WIFI_EV and LWIP_EV events the event task will take
    handling,       \* the event whose handler is blocked
    lastEvent,      \* last_event of wm_nm_event_post
    link, linkCh,   \* the station: "down", "connecting", "up"; its channel
    air, airCh,     \* the softAP: "off", "starting", "on"; its channel
    staNetif, apNetif, ip,  \* interfaces of lwIP, the station has an address
    calls,          \* calls the application has made
    staWanted, apWanted,    \* history: started by the application, not stopped
    told,           \* the last STA event the application was sent
    postFailed,     \* history: the last STA post was refused by wm_event_send
    lostStart,      \* history: the timer's message was lost
    lostChannel,    \* history: the latest RF_CHANNEL_CHANGE was lost
    missed,         \* history: the latest one came while the softAP started
    lostLink,       \* history: the latest STA_(DIS)CONNECTED was refused
    lostIp,         \* history: the latest STA_GOT_IP or STA_LOST_IP was
    lostAir         \* history: the latest AP_START or AP_STOP was

manager == <<queue, pc, ssid>>
station == <<staConfig, staState>>
softap == <<apConfig, apState, channel>>
refused == <<lostLink, lostIp, lostAir>>
evtask == <<events, handling, refused>>
posts == <<lastEvent, told, postFailed>>
radio == <<link, linkCh, air, airCh>>
netifs == <<staNetif, apNetif, ip>>
lost == <<lostStart, lostChannel, missed>>
wanted == <<staWanted, apWanted>>
vars == <<manager, station, softap, timer, evtask, posts, radio, netifs, lost,
          wanted, calls>>

NoChannel == 0
DefaultChannel == 1
States == {"EXIT", "CONNECTING", "CONNECTED", "DISCONNECTED", "GOT_IP",
           "LOST_IP", "AP_READY"}
Message(type, named, ch) == [type |-> type, ssid |-> named, channel |-> ch]
Event(type, ch) == [type |-> type, channel |-> ch]
NoEvent == Event("none", NoChannel)

Init ==
    /\ queue = <<>> /\ pc = "idle" /\ ssid = FALSE
    /\ staConfig = FALSE /\ staState = "EXIT"
    /\ apConfig = NoChannel /\ apState = "EXIT" /\ channel = NoChannel
    /\ timer = FALSE
    /\ events = <<>> /\ handling = NoEvent
    /\ lastEvent = "none" /\ told = "none" /\ postFailed = FALSE
    /\ link = "down" /\ linkCh = NoChannel /\ air = "off" /\ airCh = NoChannel
    /\ staNetif = FALSE /\ apNetif = FALSE /\ ip = FALSE
    /\ lostStart = FALSE /\ lostChannel = FALSE /\ missed = FALSE
    /\ lostLink = FALSE /\ lostIp = FALSE /\ lostAir = FALSE
    /\ calls = 0
    /\ staWanted = FALSE /\ apWanted = FALSE

-----------------------------------------------------------------------------
(* The queue of the manager's task *)

(* wm_nm_core_send_msg: a copy is allocated and queued without waiting *)
Sent(msg) == Len(queue) < QueueSize /\ queue' = Append(queue, msg)
NotSent == queue' = queue

(* the application's calls, which are told of a failure *)
Ask(msg) ==
    /\ calls < CallBound /\ calls' = calls + 1
    /\ Sent(msg)
    /\ UNCHANGED <<pc, ssid, station, softap, timer, evtask, posts, radio,
                   netifs, lost, wanted>>

StartStation == Ask(Message("START_CONNECT", TRUE, NoChannel))
StopStation == Ask(Message("DISCONNECT", FALSE, NoChannel))
StartSoftap == Ask(Message("AP_START", TRUE, NoChannel))
StopSoftap == Ask(Message("AP_STOP", FALSE, NoChannel))
SetSoftapIp == Ask(Message("AP_START", FALSE, NoChannel))

(* wm_nm_sta_re_connect_timer_handle: the timer is not periodic *)
TimerFires ==
    /\ timer /\ timer' = FALSE
    /\ \/ /\ Sent(Message("START_CONNECT", FALSE, NoChannel))
          /\ UNCHANGED lostStart
       \/ NotSent /\ lostStart' = TRUE
    /\ UNCHANGED <<pc, ssid, station, softap, evtask, posts, radio, netifs,
                   lostChannel, missed, calls, wanted>>

-----------------------------------------------------------------------------
(* The queue of the event task *)

(* wm_event_send refuses when the queue is full or the heap is empty *)
Notify(event, isRefused) ==
    IF isRefused THEN events' = events
    ELSE Len(events) < EventBound /\ events' = Append(events, event)

NotifyLink(event) ==
    \E isRefused \in BOOLEAN :
        Notify(event, isRefused) /\ lostLink' = isRefused
NotifyIp(event) ==
    \E isRefused \in BOOLEAN :
        Notify(event, isRefused) /\ lostIp' = isRefused
NotifyAir(event) ==
    \E isRefused \in BOOLEAN :
        Notify(event, isRefused) /\ lostAir' = isRefused

-----------------------------------------------------------------------------
(* wm_nm_wifi_task *)

ManagerRuns == handling # NoEvent \/ events = <<>>

(* wm_nm_wifi_station_reconnect_start, with the configuration of now *)
Armed == timer \/ staConfig

Take(type) ==
    /\ ManagerRuns /\ pc = "idle"
    /\ queue # <<>> /\ Head(queue).type = type
    /\ queue' = Tail(queue)

(* mutant: a retry is not dropped when the configuration is gone *)
StartNeverIgnored == FALSE
StartIgnored == ~Head(queue).ssid /\ ~staConfig

TakeStartIgnored ==
    /\ Take("START_CONNECT")
    /\ \/ StartIgnored
       \/ Head(queue).ssid /\ ~staConfig    \* calloc fails
    /\ lostStart' = FALSE
    /\ UNCHANGED <<pc, ssid, station, softap, timer, evtask, posts, radio,
                   netifs, lostChannel, missed, calls, wanted>>

TakeStart ==
    /\ Take("START_CONNECT") /\ ~StartIgnored
    /\ staConfig' = TRUE /\ pc' = "connect"
    /\ lostStart' = FALSE
    /\ staWanted' = (staWanted \/ Head(queue).ssid)
    /\ UNCHANGED <<ssid, staState, softap, timer, evtask, posts, radio,
                   netifs, lostChannel, missed, calls, apWanted>>

(* mutant: a refused attempt does not arm the timer *)
ConnectFailsUnarmed ==
    /\ ManagerRuns /\ pc = "connect" /\ pc' = "idle"
    /\ UNCHANGED <<queue, ssid, station, softap, timer, evtask, posts, radio,
                   netifs, lost, calls, wanted>>

(* wm_wifi_init, wm_wifi_set_config or wm_wifi_connect returns an error *)
ConnectFails ==
    /\ ManagerRuns /\ pc = "connect"
    /\ pc' = "idle" /\ timer' = Armed
    /\ UNCHANGED <<queue, ssid, station, softap, evtask, posts, radio,
                   netifs, lost, calls, wanted>>

(* wm_wifi_connect is refused while the station is connected *)
ConnectStarts ==
    /\ ManagerRuns /\ pc = "connect" /\ link # "up"
    /\ link' = "connecting" /\ pc' = "connecting"
    /\ UNCHANGED <<queue, ssid, station, softap, timer, evtask, posts,
                   linkCh, air, airCh, netifs, lost, calls, wanted>>

ConnectReturns ==
    /\ ManagerRuns /\ pc = "connecting"
    /\ staState' = "CONNECTING" /\ timer' = Armed /\ pc' = "idle"
    /\ UNCHANGED <<queue, ssid, staConfig, softap, evtask, posts, radio,
                   netifs, lost, calls, wanted>>

TakeDisconnect ==
    /\ Take("DISCONNECT")
    /\ IF link = "down" THEN UNCHANGED <<events, lostLink>>
       ELSE NotifyLink(Event("STA_DISCONNECTED", NoChannel))
    /\ link' = "down" /\ linkCh' = NoChannel /\ pc' = "disconnect"
    /\ UNCHANGED <<ssid, station, softap, timer, handling, posts, air, airCh,
                   netifs, lost, lostIp, lostAir, calls, wanted>>

DisconnectReturns ==
    /\ ManagerRuns /\ pc = "disconnect"
    /\ staConfig' = FALSE /\ staState' = "EXIT" /\ pc' = "idle"
    /\ staWanted' = FALSE
    /\ UNCHANGED <<queue, ssid, softap, timer, evtask, posts, radio, netifs,
                   lost, calls, apWanted>>

(* The softAP has to move.  When a late event left AP_READY behind after   *)
(* the configuration was freed, the read of ap_config->ap.channel is one   *)
(* through NULL, which on this chip reads the ROM: it may give any value,  *)
(* and AP_START ignores the request either way.                            *)
MustMove(ch) == apState = "AP_READY" /\ apConfig # ch

TakeChannelSame ==
    /\ Take("RF_CHANNEL_CHANGE") /\ ~MustMove(Head(queue).channel)
    /\ channel' = Head(queue).channel
    /\ missed' = (air # "off" /\ apConfig # Head(queue).channel)
    /\ UNCHANGED <<pc, ssid, station, apConfig, apState, timer, evtask,
                   posts, radio, netifs, lostStart, lostChannel, calls,
                   wanted>>

TakeChannelMove ==
    /\ Take("RF_CHANNEL_CHANGE") /\ MustMove(Head(queue).channel)
    /\ channel' = Head(queue).channel
    /\ ssid' = FALSE /\ pc' = "apconfig"
    /\ UNCHANGED <<station, apConfig, apState, timer, evtask, posts, radio,
                   netifs, lost, calls, wanted>>

TakeApStart ==
    /\ Take("AP_START")
    /\ ssid' = Head(queue).ssid /\ pc' = "apconfig"
    /\ UNCHANGED <<station, softap, timer, evtask, posts, radio, netifs,
                   lost, calls, wanted>>

ApIgnored == ~ssid /\ apConfig = NoChannel

(* calloc fails, or there is nothing to start *)
ApConfigIgnored ==
    /\ ManagerRuns /\ pc = "apconfig" /\ apConfig = NoChannel
    /\ pc' = "idle" /\ ssid' = FALSE
    /\ UNCHANGED <<queue, station, softap, timer, evtask, posts, radio,
                   netifs, lost, calls, wanted>>

(* mutant: a softAP that is started again keeps its channel *)
ApChannelKept ==
    IF apConfig # NoChannel THEN apConfig
    ELSE IF channel = NoChannel THEN DefaultChannel ELSE channel

(* CONFIG_NM_WIFI_SOFTAP_AUTO_CHANNEL *)
ApChannel == IF channel = NoChannel THEN DefaultChannel ELSE channel

ApConfigure ==
    /\ ManagerRuns /\ pc = "apconfig" /\ ~ApIgnored
    /\ apConfig' = ApChannel
    /\ pc' = "apstart" /\ ssid' = FALSE
    /\ apWanted' = (apWanted \/ ssid) /\ missed' = FALSE
    /\ UNCHANGED <<queue, station, apState, channel, timer, evtask, posts,
                   radio, netifs, lostStart, lostChannel, calls, staWanted>>

ApStartFails ==
    /\ ManagerRuns /\ pc = "apstart"
    /\ pc' = "idle"
    /\ UNCHANGED <<queue, ssid, station, softap, timer, evtask, posts, radio,
                   netifs, lost, calls, wanted>>

(* A softAP that is on is taken down first, or changed as it runs. *)
ApStartOk ==
    /\ ManagerRuns /\ pc = "apstart"
    /\ \/ air # "on" /\ air' = "starting" /\ UNCHANGED <<events, lostAir>>
       \/ /\ air = "on" /\ air' = "starting"
          /\ NotifyAir(Event("AP_STOP", NoChannel))
       \/ air = "on" /\ UNCHANGED <<air, events, lostAir>>
    /\ airCh' = apConfig /\ pc' = "idle"
    /\ UNCHANGED <<queue, ssid, station, softap, timer, handling, posts, link,
                   linkCh, netifs, lost, lostLink, lostIp, calls, wanted>>

(* AP_STOP is sent on leaving WPA_COMPLETED, not by a softAP that starts *)
TakeApStop ==
    /\ Take("AP_STOP")
    /\ IF air = "on" THEN NotifyAir(Event("AP_STOP", NoChannel))
       ELSE UNCHANGED <<events, lostAir>>
    /\ air' = "off" /\ airCh' = NoChannel /\ pc' = "apstop"
    /\ UNCHANGED <<ssid, station, softap, timer, handling, posts, link,
                   linkCh, netifs, lost, lostLink, lostIp, calls, wanted>>

ApStopReturns ==
    /\ ManagerRuns /\ pc = "apstop"
    /\ apState' = "EXIT" /\ apConfig' = NoChannel /\ pc' = "idle"
    /\ apWanted' = FALSE
    /\ UNCHANGED <<queue, ssid, station, channel, timer, evtask, posts,
                   radio, netifs, lost, calls, staWanted>>

Manager ==
    \/ TakeStartIgnored \/ TakeStart
    \/ ConnectFails \/ ConnectStarts \/ ConnectReturns
    \/ TakeDisconnect \/ DisconnectReturns
    \/ TakeChannelSame \/ TakeChannelMove
    \/ TakeApStart \/ ApConfigIgnored \/ ApConfigure
    \/ ApStartFails \/ ApStartOk
    \/ TakeApStop \/ ApStopReturns

-----------------------------------------------------------------------------
(* The event task: wm_wifi_event_callback and wm_lwip_event_callback *)

(* wm_nm_event_post: what lastEvent becomes when wm_event_send accepts *)
Repeated(event) == lastEvent = event
(* mutant: last_event is set although wm_event_send failed *)
LastEventAnyway(event, accepted) == event
LastEvent(event, accepted) ==
    IF ~Repeated(event) /\ accepted THEN event ELSE lastEvent

PostSta(event) ==
    \E accepted \in BOOLEAN :
        /\ lastEvent' = LastEvent(event, accepted)
        /\ told' = IF ~Repeated(event) /\ accepted THEN event ELSE told
        /\ postFailed' = (~Repeated(event) /\ ~accepted)

Heads(type) == handling = NoEvent /\ events # <<>> /\ Head(events).type = type

TakeEvent(type) ==
    /\ Heads(type)
    /\ events' = Tail(events) /\ handling' = Head(events)

Handled(type) == handling.type = type /\ handling' = NoEvent

(* wm_nm_wifi_station_connect_handle, then the state and the channel *)
ConnectedTaken ==
    /\ TakeEvent("STA_CONNECTED")
    /\ UNCHANGED <<manager, station, softap, timer, posts, radio, netifs,
                   lost, refused, calls, wanted>>

TimerAfterConnect == FALSE

ConnectedHandled ==
    /\ Handled("STA_CONNECTED")
    /\ staNetif' = TRUE /\ timer' = TimerAfterConnect
    /\ staState' = "CONNECTED"
    /\ \/ /\ Sent(Message("RF_CHANNEL_CHANGE", FALSE, handling.channel))
          /\ lostChannel' = FALSE
       \/ NotSent /\ lostChannel' = TRUE
    /\ UNCHANGED <<pc, ssid, staConfig, softap, events, posts, radio,
                   apNetif, ip, lostStart, missed, refused, calls,
                   wanted>>

(* wm_nm_wifi_station_disconnect_handle: the post comes before the calls   *)
(* that can block; removing an interface that has an address makes lwIP    *)
(* send WM_EVENT_WIFI_STA_LOST_IP                                          *)
DisconnectedTaken ==
    /\ TakeEvent("STA_DISCONNECTED") /\ PostSta("LOST_IP")
    /\ UNCHANGED <<manager, station, softap, timer, radio, netifs, lost,
                   refused, calls, wanted>>

(* mutant: no attempt is scheduled when the link drops *)
TimerNotArmed == timer
TimerAfterDisconnect == Armed

DisconnectedHandled ==
    /\ Handled("STA_DISCONNECTED")
    /\ IF ip THEN NotifyIp(Event("STA_LOST_IP", NoChannel))
       ELSE UNCHANGED <<events, lostIp>>
    /\ staNetif' = FALSE /\ ip' = FALSE
    /\ timer' = TimerAfterDisconnect /\ staState' = "DISCONNECTED"
    /\ UNCHANGED <<manager, staConfig, softap, posts, radio, apNetif, lost,
                   lostLink, lostAir, calls, wanted>>

GotIpHandled ==
    /\ Heads("STA_GOT_IP") /\ events' = Tail(events)
    /\ staState' = "GOT_IP" /\ PostSta("GOT_IP")
    /\ UNCHANGED <<manager, staConfig, softap, timer, handling, radio,
                   netifs, lost, refused, calls, wanted>>

(* mutant: the state follows only events that are posted *)
LostIpIfNew ==
    /\ Heads("STA_LOST_IP") /\ events' = Tail(events)
    /\ staState' = IF Repeated("LOST_IP") THEN staState ELSE "LOST_IP"
    /\ PostSta("LOST_IP")
    /\ UNCHANGED <<manager, staConfig, softap, timer, handling, radio,
                   netifs, lost, refused, calls, wanted>>

LostIpHandled ==
    /\ Heads("STA_LOST_IP") /\ events' = Tail(events)
    /\ staState' = "LOST_IP" /\ PostSta("LOST_IP")
    /\ UNCHANGED <<manager, staConfig, softap, timer, handling, radio,
                   netifs, lost, refused, calls, wanted>>

(* wm_nm_wifi_ap_start_handle, then the state *)
ApStartedTaken ==
    /\ TakeEvent("AP_START")
    /\ UNCHANGED <<manager, station, softap, timer, posts, radio, netifs,
                   lost, refused, calls, wanted>>

ApStartedHandled ==
    /\ Handled("AP_START")
    /\ apNetif' = TRUE /\ apState' = "AP_READY"
    /\ \E accepted \in BOOLEAN : lastEvent' = LastEvent("AP_READY", accepted)
    /\ UNCHANGED <<manager, station, apConfig, channel, timer, events, told,
                   postFailed, radio, staNetif, ip, lost, refused, calls, wanted>>

(* wm_nm_wifi_ap_stop_handle leaves ap_state alone *)
ApStoppedTaken ==
    /\ TakeEvent("AP_STOP")
    /\ UNCHANGED <<manager, station, softap, timer, posts, radio, netifs,
                   lost, refused, calls, wanted>>

(* mutant: the interface is removed only while the state is AP_READY *)
ApStoppedIfReady ==
    /\ Handled("AP_STOP")
    /\ apNetif' = (apNetif /\ apState # "AP_READY")
    /\ UNCHANGED <<manager, station, softap, timer, events, posts, radio,
                   staNetif, ip, lost, refused, calls, wanted>>

ApStoppedHandled ==
    /\ Handled("AP_STOP")
    /\ apNetif' = FALSE
    /\ UNCHANGED <<manager, station, softap, timer, events, posts, radio,
                   staNetif, ip, lost, refused, calls, wanted>>

EventTask ==
    \/ ConnectedTaken \/ ConnectedHandled
    \/ DisconnectedTaken \/ DisconnectedHandled
    \/ GotIpHandled \/ LostIpHandled
    \/ ApStartedTaken \/ ApStartedHandled
    \/ ApStoppedTaken \/ ApStoppedHandled

-----------------------------------------------------------------------------
(* The Wi-Fi library and lwIP *)

Associated ==
    /\ link = "connecting"
    /\ \E c \in Channels :
          /\ linkCh' = c /\ NotifyLink(Event("STA_CONNECTED", c))
    /\ link' = "up"
    /\ UNCHANGED <<manager, station, softap, timer, handling, posts, air,
                   airCh, netifs, lost, lostIp, lostAir, calls, wanted>>

LinkLost ==
    /\ link # "down" /\ NotifyLink(Event("STA_DISCONNECTED", NoChannel))
    /\ link' = "down" /\ linkCh' = NoChannel
    /\ UNCHANGED <<manager, station, softap, timer, handling, posts, air,
                   airCh, netifs, lost, lostIp, lostAir, calls, wanted>>

GetsIp ==
    /\ staNetif /\ ~ip
    /\ ip' = TRUE /\ NotifyIp(Event("STA_GOT_IP", NoChannel))
    /\ UNCHANGED <<manager, station, softap, timer, handling, posts, radio,
                   staNetif, apNetif, lost, lostLink, lostAir, calls, wanted>>

LosesIp ==
    /\ ip /\ ip' = FALSE /\ NotifyIp(Event("STA_LOST_IP", NoChannel))
    /\ UNCHANGED <<manager, station, softap, timer, handling, posts, radio,
                   staNetif, apNetif, lost, lostLink, lostAir, calls, wanted>>

ApOnAir ==
    /\ air = "starting" /\ air' = "on"
    /\ NotifyAir(Event("AP_START", NoChannel))
    /\ UNCHANGED <<manager, station, softap, timer, handling, posts, link,
                   linkCh, airCh, netifs, lost, lostLink, lostIp, calls,
                   wanted>>

World == Associated \/ LinkLost \/ GetsIp \/ LosesIp \/ ApOnAir
Application == StartStation \/ StopStation \/ StartSoftap \/ StopSoftap
               \/ SetSoftapIp

Next == Application \/ TimerFires \/ Manager \/ EventTask \/ World

Fairness ==
    /\ WF_vars(TimerFires) /\ WF_vars(Manager) /\ WF_vars(EventTask)
    /\ SF_vars(ConnectStarts) /\ SF_vars(Associated)

Spec == Init /\ [][Next]_vars /\ Fairness

-----------------------------------------------------------------------------
(* Properties *)

Known == Channels \cup {NoChannel, DefaultChannel}
Messages == [type : {"START_CONNECT", "DISCONNECT", "AP_START", "AP_STOP",
                     "RF_CHANNEL_CHANGE"},
             ssid : BOOLEAN, channel : Known]
Events == [type : {"none", "STA_CONNECTED", "STA_DISCONNECTED", "STA_GOT_IP",
                   "STA_LOST_IP", "AP_START", "AP_STOP"},
           channel : Known]

FlagTypes ==
    /\ ssid \in BOOLEAN /\ staConfig \in BOOLEAN /\ timer \in BOOLEAN
    /\ postFailed \in BOOLEAN
    /\ staNetif \in BOOLEAN /\ apNetif \in BOOLEAN /\ ip \in BOOLEAN
    /\ lostStart \in BOOLEAN /\ lostChannel \in BOOLEAN /\ missed \in BOOLEAN
    /\ lostLink \in BOOLEAN /\ lostIp \in BOOLEAN /\ lostAir \in BOOLEAN
    /\ staWanted \in BOOLEAN /\ apWanted \in BOOLEAN
StateTypes ==
    /\ pc \in {"idle", "connect", "connecting", "disconnect", "apconfig",
               "apstart", "apstop"}
    /\ staState \in States /\ apState \in {"EXIT", "AP_READY"}
    /\ apConfig \in Known /\ channel \in Known
    /\ lastEvent \in {"none", "GOT_IP", "LOST_IP", "AP_READY"}
    /\ told \in {"none", "GOT_IP", "LOST_IP"}
    /\ link \in {"down", "connecting", "up"} /\ linkCh \in Known
    /\ air \in {"off", "starting", "on"} /\ airCh \in Known
    /\ calls \in 0 .. CallBound
QueueTypes ==
    /\ queue \in Seq(Messages) /\ Len(queue) <= QueueSize
    /\ events \in Seq(Events) /\ Len(events) <= EventBound
    /\ handling \in Events

(* The values of s_nm_wifi, of the queue (which never holds more than      *)
(* WM_NM_QUEUE_SIZE messages) and of the two tasks.                        *)
TypeOK == FlagTypes /\ StateTypes /\ QueueTypes

EventsDone == events = <<>> /\ handling = NoEvent
Quiet == EventsDone /\ pc = "idle"

(* As long as the application wants the station up, the manager has a next *)
(* attempt ahead of it whenever the link is down and everything that       *)
(* happened has been handled: the one-shot timer runs or its message is    *)
(* queued.  There are two exceptions, both results nobody looks at: the    *)
(* timer's own message is lost when its queue is full or the heap is empty *)
(* (wm_nm_wifi.c:222), and STA_DISCONNECTED when wm_event_send refuses it  *)
(* (notify.c:198).                                                         *)
KeepsTrying ==
    Quiet /\ staConfig /\ link # "up" /\ ~lostLink =>
        \/ timer \/ lostStart
        \/ \E i \in 1 .. Len(queue) : queue[i].type = "START_CONNECT"

(* wm_nm_get_wifi_station_state never goes on reporting a connection, or   *)
(* an address, that is gone: two tasks write sta_state, and events that    *)
(* were under way when the link dropped are still handled.  It does when   *)
(* the event that says so was refused.                                     *)
StateNotOptimistic ==
    Quiet => /\ ~lostLink /\ staState = "CONNECTED" => link = "up"
             /\ ~lostIp /\ staState = "GOT_IP" => ip /\ (lostLink \/ link = "up")

(* The duplicate filter of wm_nm_event_post never hides a change: once the *)
(* events are handled, the application was last told that it has an        *)
(* address exactly when it has one, unless wm_event_send refused the last  *)
(* event of lwIP about it or the last notification.                        *)
ApplicationKnows ==
    EventsDone /\ ~postFailed /\ ~lostIp => (told = "GOT_IP") = ip

(* The interfaces lwIP routes over are those the radio serves, each unless *)
(* the latest event of its radio was refused: the code has nothing that    *)
(* would set it right before the next one.                                 *)
NetifFollowsLink ==
    EventsDone => /\ ~lostLink => staNetif = (link = "up")
                  /\ ~lostAir => apNetif = (air = "on")

(* After wm_nm_stop_wifi_station or wm_nm_stop_wifi_softap was handled,    *)
(* nothing left over (a timer, a queued retry, a channel change for a      *)
(* softAP that is gone) brings the interface back.                         *)
StopIsFinal ==
    pc = "idle" => /\ ~staWanted => link = "down"
                   /\ ~apWanted => air = "off"

(* A station that is configured and down comes up again if association     *)
(* succeeds whenever it is tried often enough, unless it is stopped, the   *)
(* timer's message is lost or the event of the lost link was refused.      *)
Reconnects ==
    (staConfig /\ link = "down")
        ~> (link = "up" \/ ~staConfig \/ lostStart \/ lostLink)

(* With CONFIG_NM_WIFI_SOFTAP_AUTO_CHANNEL the softAP is on the channel of *)
(* the connected station once everything is handled, if its latest start   *)
(* succeeded, the event of the connection was not refused, and the change  *)
(* of channel was neither lost (wm_nm_core.c:142 ignores the result) nor   *)
(* handled while the softAP was starting, or never heard that it is on,    *)
(* when wm_nm_wifi.c:123 finds it not ready and lets the change pass.      *)
SameChannel ==
    /\ Quiet /\ queue = <<>> /\ ~lostLink /\ ~lostChannel /\ ~missed
    /\ link = "up" /\ air = "on" /\ airCh = apConfig
    => airCh = linkCh
=============================================================================
