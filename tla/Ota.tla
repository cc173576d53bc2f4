-------------------------------- MODULE Ota --------------------------------
(***************************************************************************)
(* Firmware update over HTTP: wm_ota_http.c (the service, its task and its *)
(* session callbacks), wm_ota.c (the download with its retries) and        *)
(* wm_ota_ops.c (the app_ota partition and the running CRC).               *)
(*                                                                         *)
(* An application calls wm_ota_http_update; a task downloads the image in  *)
(* blocks, and after a network timeout connects again and asks the server  *)
(* for the rest with a Range header.  The image is counted in cells: a     *)
(* cell of the served file is its position, so that the contents of the    *)
(* flash tell where each cell came from.  The CRC is taken to be free of   *)
(* collisions: it is the cells it has taken in.                            *)
(***************************************************************************)
EXTENDS Integers

CONSTANTS
    HeaderCells,    \* OTA_FW_HEADER_SIZE_IN_BIN
    BodyCells,      \* img_len of the image
    PartCells,      \* app_ota_size
    BlockCells,     \* CONFIG_OTA_BLOCK_SIZE
    Reconnects,     \* CONFIG_OTA_SOCKET_RECONNECT_TIMES
    RetryUnits,     \* CONFIG_OTA_RETRY_TIMEOUT / HTTPC_CLIENT_DEFAULT_TIMEOUT
    Sessions        \* the HTTP sessions the heap has room for

ASSUME OtaAssumption ==
    /\ HeaderCells \in Nat \ {0} /\ BodyCells \in Nat \ {0}
    /\ PartCells \in Nat /\ HeaderCells + BodyCells <= PartCells
    /\ BlockCells \in Nat \ {0}
    /\ Reconnects \in Nat /\ RetryUnits \in Nat
    /\ Sessions \subseteq Nat \ {0}

VARIABLES
    online,         \* is_wifi_connected && is_got_ip
    running,        \* is_ota_running
    ctx, url,       \* p_ota_ctx # NULL, p_http_url # NULL
    httpSession,    \* g_ota_http_ctx.http_session
    taskHandle,     \* which task ota_http_task_handle designates
    handle, connRet, wroteOffset,            \* wm_ota_ctx_t
    status,         \* the last status ota_state_cb was told; START at first
    wroteAddr, crc, crcLen,                  \* wm_ota_ops_ctx_t
    tk, tries, elapsed, next, buf, got,  \* the task and its locals
    ending,         \* a task has cleared is_ota_running, not yet deleted itself
    ca, reboot,     \* the caller of wm_ota_http_update, its cfg->reboot
    higher,         \* the caller's priority is above WM_TASK_OTA_HTTP_PRIO
    flash,          \* the app_ota partition
    file, server,   \* what the URL names, how the server answers Range
    open, pos, other, ended,  \* HTTP sessions open; the answer being read and
                    \* how it ended, if it did
    faults, killed  \* history: what went wrong, a task deleted by another

http == <<online, running, ctx, url, httpSession, taskHandle>>
octx == <<handle, connRet, wroteOffset, status>>
ops == <<wroteAddr, crc, crcLen>>
locals == <<tries, elapsed, next, buf, got>>
task == <<tk, locals, ending>>
caller == <<ca, reboot, higher>>
net == <<file, server, open, pos, other, ended>>
ghost == <<faults, killed>>
vars == <<http, octx, ops, task, caller, flash, net, ghost>>

Erased == -1
Junk == -2                  \* a cell of another file or of an error page
Total == HeaderCells + BodyCells
Files == {"intact", "bad_header", "bad_body", "truncated", "trailing"}
Servers == {"honours", "ignores", "replaced"}
\* How an answer ends before the image does: a reset connection; the last chunk
\* of a chunked answer; a chunked answer whose connection is closed, before its
\* first chunk or after its last.
Ends == {"reset", "last", "closed"}
Cells == Int
Blank(n) == [i \in 0 .. n - 1 |-> Erased]
Statuses == {"START", "CONNECTION_START", "CONNECTION_FAILED",
             "DOWNLOAD_START", "DOWNLOAD_FAILED", "DOWNLOADED",
             "UPGRADE_START", "ABORT"}

FileLen == CASE file = "truncated" -> Total - 1
             [] file = "trailing" -> Total + 1
             [] OTHER -> Total

Init ==
    /\ online = FALSE /\ running = FALSE
    /\ ctx = FALSE /\ url = FALSE /\ httpSession = 0 /\ taskHandle = "none"
    /\ handle = 0 /\ connRet = "ok" /\ wroteOffset = 0 /\ status = "START"
    /\ wroteAddr = 0 /\ crc = Blank(PartCells) /\ crcLen = 0
    /\ tk = "none" /\ tries = 0 /\ elapsed = 0
    /\ next = BlockCells /\ buf = Blank(BlockCells) /\ got = 0
    /\ ending = FALSE /\ ca = "idle" /\ reboot = FALSE /\ higher \in BOOLEAN
    /\ flash = Blank(PartCells) /\ file = "intact" /\ server = "honours"
    /\ open = {} /\ pos = 0 /\ other = FALSE /\ ended = "no"
    /\ faults = {} /\ killed = FALSE

(***************************************************************************)
(* Scheduling.  One core: a task runs when no task of higher priority is   *)
(* ready.  The caller is not ready while it erases the partition; the OTA  *)
(* task is not ready in its network calls and delays, and after "reset"    *)
(* nothing runs (wm_os_internal_set_critical).                             *)
(***************************************************************************)
TaskMayRun == tk # "reset" /\ (higher => ca \in {"idle", "init"})
CallerMayRun ==
    /\ tk # "reset"
    /\ higher \/ (tk \in {"none", "connect", "read", "write", "deinit"} /\ ~ending)

(***************************************************************************)
(* wm_ota_http.c: the service.                                             *)
(***************************************************************************)
\* The callbacks on WM_WIFI_EV and WM_LWIP_EV: the station is connected and has
\* an address, or not.
NetEvent ==
    /\ tk # "reset"
    /\ online' = ~online
    /\ UNCHANGED <<running, ctx, url, httpSession, taskHandle>>
    /\ UNCHANGED <<octx, ops, task, caller, flash, net, ghost>>

AlreadyRunning == running \/ ctx \/ url

\* wm_ota_http_update up to wm_ota_init.  A refusal and a failed allocation
\* (which releases what was allocated) change nothing; the URL, and so the
\* file and its server, is the caller's.
UpdateBegin ==
    /\ CallerMayRun /\ ca = "idle"
    /\ ~AlreadyRunning /\ online
    /\ ctx' = TRUE /\ url' = TRUE
    /\ handle' = 0 /\ connRet' = "ok" /\ wroteOffset' = 0 /\ status' = "START"
    /\ wroteAddr' = 0 /\ crc' = Blank(PartCells) /\ crcLen' = 0
    /\ ca' = "init" /\ reboot' \in BOOLEAN
    /\ file' \in Files /\ server' \in Servers
    /\ faults' = {}
    /\ UNCHANGED <<online, running, httpSession, taskHandle, task, higher,
                   flash, open, pos, other, ended, killed>>

\* What wm_ota_ops_begin has erased when it fails: nothing, or the end of the
\* partition, which comes first, and some of the rest.
ErasedParts ==
    {{}} \cup {0 .. n - 1 \cup {PartCells - 1} : n \in 0 .. PartCells - 1}

\* wm_ota_init: the whole partition is erased, or the update gives up and
\* releases its context.
UpdateInit ==
    /\ CallerMayRun /\ ca = "init"
    /\ \/ /\ flash' = Blank(PartCells)
          /\ ca' = "create"
          /\ UNCHANGED <<ctx, url>>
       \/ /\ \E done \in ErasedParts :
                flash' = [i \in 0 .. PartCells - 1 |->
                             IF i \in done THEN Erased ELSE flash[i]]
          /\ ca' = "idle" /\ ctx' = FALSE /\ url' = FALSE
    /\ UNCHANGED <<online, running, httpSession, taskHandle, octx, ops, task,
                   reboot, higher, net, ghost>>

\* wm_os_internal_task_create; a failure goes to the exit label.
CreateTask ==
    /\ CallerMayRun /\ ca = "create"
    /\ \/ /\ taskHandle' = "current" /\ tk' = "start" /\ ca' = "flag"
          /\ UNCHANGED <<ctx, url>>
       \/ /\ ca' = "idle" /\ ctx' = FALSE /\ url' = FALSE
          /\ UNCHANGED <<taskHandle, tk>>
    /\ UNCHANGED <<online, running, httpSession, octx, ops, locals, ending, reboot,
                   higher, flash, net, ghost>>

\* (mutant) the exit label releases the context of a started update too
SetRunningFrees ==
    /\ CallerMayRun /\ ca = "flag"
    /\ running' = TRUE /\ ca' = "idle" /\ ctx' = FALSE /\ url' = FALSE
    /\ UNCHANGED <<online, httpSession, taskHandle>>
    /\ UNCHANGED <<octx, ops, task, reboot, higher, flash, net, ghost>>

SetRunning ==
    /\ CallerMayRun /\ ca = "flag"
    /\ running' = TRUE /\ ca' = "idle"
    /\ UNCHANGED <<online, ctx, url, httpSession, taskHandle>>
    /\ UNCHANGED <<octx, ops, task, reboot, higher, flash, net, ghost>>

(***************************************************************************)
(* wm_ota.c: the download, in the task ota_http_task.                      *)
(***************************************************************************)
\* Entry of ota_start: its locals start afresh, wrote_offset does not.
EnterOtaStart ==
    /\ tk' = "connect" /\ tries' = 0 /\ status' = "CONNECTION_START"
    /\ next' = BlockCells

OtaStart ==
    /\ TaskMayRun /\ tk = "start"
    /\ elapsed' = 0
    /\ EnterOtaStart
    /\ UNCHANGED <<http, handle, connRet, wroteOffset, ops, buf, got, ending,
                   caller, flash, net, ghost>>

\* The offset in the Range header.
\* (mutant) a resumed download asks for the whole file again
RangeStartZero == 0
RangeStart == wroteOffset

\* (mutant) a reconnection does not hand the new session to the context
HandleOnce(s) == IF handle = 0 THEN s ELSE handle
HandleAfter(s) == s

\* wm_ota_http_connect succeeds: the new session takes the place of the old
\* one, whatever became of that.  The server's answer starts at the asked
\* offset, or at the start of the file if it ignores Range; past the end of
\* the file it is an error page, whose status nobody looks at.
ConnectOk ==
    /\ TaskMayRun /\ tk = "connect"
    /\ open # Sessions
    /\ LET s == CHOOSE x \in Sessions \ open : TRUE
       IN  open' = open \cup {s} /\ httpSession' = s /\ handle' = HandleAfter(s)
    /\ connRet' = "ok"
    /\ pos' = IF server = "ignores" THEN 0 ELSE RangeStart
    /\ other' = (pos' >= FileLen \/ (server = "replaced" /\ RangeStart > 0))
    /\ ended' = "no"
    /\ \/ /\ status' = "DOWNLOAD_START" /\ tk' = "read"
          /\ faults' = faults \cup IF wroteOffset > 0 /\ server # "honours"
                                   THEN {"server"} ELSE {}
       \/ /\ status' = "ABORT" /\ tk' = "deinit"     \* no memory for the buffer
          /\ faults' = faults \cup {"memory"}
    /\ UNCHANGED <<online, running, ctx, url, taskHandle, wroteOffset, ops,
                   locals, ending, caller, flash,
                   file, server, killed>>

\* (mutant) the failed attempts are not counted
TriesUncounted == tries
TriesAfter == tries + 1

ConnectFails ==
    /\ TaskMayRun /\ tk = "connect"
    /\ httpSession' = 0 /\ connRet' = "failed"
    /\ IF tries < Reconnects
       THEN tries' = TriesAfter /\ UNCHANGED <<tk, status>>
       ELSE /\ tk' = "deinit" /\ status' = "CONNECTION_FAILED"
            /\ UNCHANGED tries
    /\ UNCHANGED <<online, running, ctx, url, taskHandle, handle, wroteOffset,
                   ops, elapsed, next, buf, got, ending, caller, flash,
                   net, ghost>>

CellAt(p) == IF other THEN Junk ELSE p
Remaining == IF other THEN next ELSE FileLen - pos

\* wm_ota_http_get_firmware with data.  recv returns what has arrived, so any
\* number of cells up to the size asked for; the answer may take long enough
\* for one unit of the retry time to go by.
ReadData ==
    /\ TaskMayRun /\ tk = "read" /\ online /\ ended = "no"
    /\ \E n \in 1 .. next :
          /\ n <= Remaining
          /\ got' = n
          /\ buf' = [i \in 0 .. BlockCells - 1 |->
                        IF i < n THEN CellAt(pos + i) ELSE Erased]
          /\ pos' = pos + n
    /\ tk' = "write"
    /\ elapsed' \in {elapsed, IF elapsed < RetryUnits THEN elapsed + 1 ELSE elapsed}
    /\ UNCHANGED <<http, octx, ops, tries, next, ending, caller, flash,
                   file, server, open, other, ended, ghost>>

\* End of the stream without data, which wm_ota_http_get_firmware makes a
\* success: the loop waits 10 ms and reads again.  In a chunked answer that read
\* asks for the length of the next chunk; a closed socket leaves the length at
\* the 0 of the last chunk, or of none, and reports success
\* (HTTPIntrnGetRemoteChunkLength), which is the end of the stream once more:
\* this goes on for as long as the station is online.
ReadNothing ==
    /\ TaskMayRun /\ tk = "read" /\ online
    /\ \/ ended = "no" /\ ended' \in Ends
       \/ ended \in {"last", "closed"} /\ ended' = "closed"
    /\ UNCHANGED <<http, octx, ops, task, caller, flash, file, server, open, pos,
                   other, ghost>>

\* A socket error, or the station lost its link or its address.  Reading the
\* length of a chunk knows no socket error.
ReadFails ==
    /\ TaskMayRun /\ tk = "read"
    /\ ended \in {"last", "closed"} => ~online
    /\ status' = "DOWNLOAD_FAILED" /\ tk' = "deinit"
    /\ UNCHANGED <<http, handle, connRet, wroteOffset, ops, locals, ending, caller,
                   flash, net, ghost>>

\* The retry condition of wm_ota_start, read after the failed ota_start.
Retry(e) == e < RetryUnits

\* A read that took HTTPC_CLIENT_DEFAULT_TIMEOUT, with or without data; a closed
\* connection answers at once.
ReadTimesOut ==
    /\ TaskMayRun /\ tk = "read" /\ ended # "closed"
    /\ elapsed' = IF elapsed < RetryUnits THEN elapsed + 1 ELSE elapsed
    /\ IF Retry(elapsed')
       THEN EnterOtaStart
       ELSE /\ tk' = "deinit" /\ status' = "DOWNLOAD_FAILED"
            /\ UNCHANGED <<tries, next>>
    /\ UNCHANGED <<http, handle, connRet, wroteOffset, ops, buf, got, ending,
                   caller, flash, net, ghost>>

(***************************************************************************)
(* wm_ota_ops.c, and what ota_start does with its results.                 *)
(***************************************************************************)
\* wm_ota_ops_check_header on the first chunk.
HeaderOk ==
    /\ got >= HeaderCells
    /\ \A i \in 0 .. HeaderCells - 1 : buf[i] = i
    /\ file # "bad_header"

\* The bounds test of wm_ota_ops_write.
\* (mutant) off by one at the end of the partition
FitsOneMore == got <= PartCells - wroteAddr + 1
FitsPartition == got <= PartCells - wroteAddr

\* (mutant) the CRC is started on the header
CrcAfterHeader ==
    LET n == crcLen + got
    IN  [len |-> n,
         data |-> [i \in 0 .. PartCells - 1 |->
                      IF i < crcLen THEN crc[i]
                      ELSE IF i < n THEN buf[i - crcLen] ELSE Erased]]
\* The chunk that the CRC takes in: without the header on the first write.
CrcAfter ==
    LET skip == IF wroteAddr = 0 THEN HeaderCells ELSE 0
        base == IF wroteAddr = 0 THEN 0 ELSE crcLen
        n == base + got - skip
    IN  [len |-> n,
         data |-> [i \in 0 .. PartCells - 1 |->
                      IF i < base THEN crc[i]
                      ELSE IF i < n THEN buf[i - base + skip] ELSE Erased]]

FlashWith(n) ==
    [i \in 0 .. PartCells - 1 |->
        IF i >= wroteAddr /\ i < wroteAddr + n THEN buf[i - wroteAddr] ELSE flash[i]]

\* (mutant) only the length is compared
LengthMatches(c) == file # "bad_body" /\ c.len = BodyCells
\* wm_ota_ops_end: the image's own checksum against the cells taken in.
ChecksumMatches(c) ==
    /\ file # "bad_body"
    /\ c.len = BodyCells
    /\ \A i \in 0 .. BodyCells - 1 : c.data[i] = HeaderCells + i

\* The chunk is dead once it is written or refused.
BufferFreed == buf' = Blank(BlockCells) /\ got' = 0

WriteRefused ==
    /\ TaskMayRun /\ tk = "write"
    /\ \/ ~FitsPartition
       \/ wroteAddr = 0 /\ ~HeaderOk
    /\ status' = "ABORT" /\ tk' = "deinit"
    /\ faults' = faults \cup IF got < HeaderCells THEN {"short"} ELSE {}
    /\ BufferFreed
    /\ UNCHANGED <<http, handle, connRet, wroteOffset, ops, tries, elapsed, next,
                   ending, caller, flash, net, killed>>

WriteAllowed ==
    /\ TaskMayRun /\ tk = "write"
    /\ FitsPartition
    /\ wroteAddr = 0 => HeaderOk

\* The flash driver fails part of the way: the CRC has taken the chunk in.
WriteFails ==
    /\ WriteAllowed
    /\ crc' = CrcAfter.data /\ crcLen' = CrcAfter.len
    /\ \E n \in 0 .. got : flash' = FlashWith(n)
    /\ status' = "ABORT" /\ tk' = "deinit"
    /\ faults' = faults \cup {"flash"}
    /\ BufferFreed
    /\ UNCHANGED <<http, handle, connRet, wroteOffset, wroteAddr, tries, elapsed,
                   next, ending, caller, net, killed>>

\* ota_start after a successful write: the rest to read, or the end of the
\* image and wm_ota_ops_end.
NextReadSize(t, w) == IF t - w >= BlockCells THEN BlockCells ELSE t - w

WriteOk ==
    /\ WriteAllowed
    /\ crc' = CrcAfter.data /\ crcLen' = CrcAfter.len
    /\ flash' = FlashWith(got)
    /\ wroteAddr' = wroteAddr + got
    /\ wroteOffset' = wroteOffset + got
    /\ IF wroteOffset' < Total
       THEN /\ next' = NextReadSize(Total, wroteOffset')
            /\ status' = "DOWNLOAD_START" /\ tk' = "read"
       ELSE /\ UNCHANGED next
            /\ IF ChecksumMatches(CrcAfter)
               THEN /\ status' = IF reboot THEN "UPGRADE_START" ELSE "DOWNLOADED"
                    /\ tk' = IF reboot THEN "reset" ELSE "deinit"
               ELSE status' = "ABORT" /\ tk' = "deinit"
    /\ BufferFreed
    /\ UNCHANGED <<http, handle, connRet, tries, elapsed, ending, caller, net, ghost>>

\* wm_ota_deinit: wm_ota_stop closes the session of the last connection that
\* succeeded.  wm_ota_http_close clears only its own copy of the handle.
Deinit ==
    /\ TaskMayRun /\ tk = "deinit"
    /\ open' = IF connRet = "ok" /\ handle # 0 /\ handle = httpSession
               THEN open \ {handle} ELSE open
    /\ handle' = 0 /\ connRet' = "ok" /\ wroteOffset' = 0
    /\ wroteAddr' = 0 /\ crc' = Blank(PartCells) /\ crcLen' = 0
    /\ tk' = "freeUrl"
    /\ tries' = 0 /\ elapsed' = 0 /\ next' = BlockCells
    /\ pos' = 0 /\ other' = FALSE /\ ended' = "no"
    /\ UNCHANGED <<http, status, buf, got, ending, caller, flash, file, server,
                   ghost>>

FreeUrl ==
    /\ TaskMayRun /\ tk = "freeUrl"
    /\ url' = FALSE /\ tk' = "freeCtx"
    /\ UNCHANGED <<online, running, ctx, httpSession, taskHandle, octx, ops,
                   locals, ending, caller, flash,
                   net, ghost>>

FreeCtx ==
    /\ TaskMayRun /\ tk = "freeCtx"
    /\ ctx' = FALSE /\ tk' = "clear"
    /\ UNCHANGED <<online, running, url, httpSession, taskHandle, octx, ops,
                   locals, ending, caller, flash,
                   net, ghost>>

\* (mutant) is_ota_running stays set
ClearNothing ==
    /\ TaskMayRun /\ tk = "clear" /\ ~ending
    /\ tk' = "none" /\ ending' = TRUE /\ taskHandle' = "ending"
    /\ UNCHANGED <<online, running, ctx, url, httpSession, octx, ops, locals, caller,
                   flash, net, ghost>>

\* A task that is still to delete itself has the same priority and is ready,
\* so it does that before the next one gets this far.
ClearRunning ==
    /\ TaskMayRun /\ tk = "clear" /\ ~ending
    /\ running' = FALSE /\ tk' = "none" /\ ending' = TRUE /\ taskHandle' = "ending"
    /\ UNCHANGED <<online, ctx, url, httpSession, octx, ops, locals, caller, flash,
                   net, ghost>>

\* wm_os_internal_task_del of the handle as it is now.
DeleteTask ==
    /\ TaskMayRun /\ ending
    /\ ending' = FALSE /\ taskHandle' = taskHandle
    /\ IF taskHandle = "current"
       THEN tk' = "none" /\ killed' = TRUE
       ELSE UNCHANGED <<tk, killed>>
    /\ UNCHANGED <<online, running, ctx, url, httpSession, octx, ops, locals, caller,
                   flash, net, faults>>

\* The watchdog reset of wm_ota_ops_reboot, or a loss of power.
PowerCycle ==
    /\ online' = FALSE /\ running' = FALSE
    /\ ctx' = FALSE /\ url' = FALSE /\ httpSession' = 0 /\ taskHandle' = "none"
    /\ handle' = 0 /\ connRet' = "ok" /\ wroteOffset' = 0 /\ status' = "START"
    /\ wroteAddr' = 0 /\ crc' = Blank(PartCells) /\ crcLen' = 0
    /\ tk' = "none" /\ tries' = 0 /\ elapsed' = 0
    /\ next' = BlockCells /\ buf' = Blank(BlockCells) /\ got' = 0
    /\ ending' = FALSE /\ ca' = "idle" /\ reboot' = FALSE
    /\ open' = {} /\ pos' = 0 /\ other' = FALSE /\ ended' = "no"
    /\ faults' = {} /\ killed' = FALSE
    /\ UNCHANGED <<higher, flash, file, server>>

TaskStep ==
    \/ OtaStart \/ ConnectOk \/ ConnectFails
    \/ ReadData \/ ReadNothing \/ ReadFails \/ ReadTimesOut
    \/ WriteRefused \/ WriteFails \/ WriteOk
    \/ Deinit \/ FreeUrl \/ FreeCtx \/ ClearRunning

CallerStep == UpdateBegin \/ UpdateInit \/ CreateTask \/ SetRunning

Next == NetEvent \/ CallerStep \/ TaskStep \/ DeleteTask \/ PowerCycle

\* A task that may run runs; a call in progress goes on; the watchdog fires.
Fairness ==
    /\ WF_vars(TaskStep)
    /\ WF_vars(DeleteTask)
    /\ WF_vars(UpdateInit \/ CreateTask \/ SetRunning)
    /\ WF_vars(tk = "reset" /\ PowerCycle)

Spec == Init /\ [][Next]_vars /\ Fairness

(***************************************************************************)
(* Properties.                                                             *)
(***************************************************************************)
FlagTypes ==
    /\ online \in BOOLEAN /\ running \in BOOLEAN
    /\ ctx \in BOOLEAN /\ url \in BOOLEAN /\ ending \in BOOLEAN
    /\ reboot \in BOOLEAN /\ higher \in BOOLEAN
    /\ other \in BOOLEAN /\ killed \in BOOLEAN
ControlTypes ==
    /\ httpSession \in Sessions \cup {0} /\ handle \in Sessions \cup {0}
    /\ open \subseteq Sessions
    /\ taskHandle \in {"none", "current", "ending"}
    /\ connRet \in {"ok", "failed"} /\ status \in Statuses
    /\ tk \in {"none", "start", "connect", "read", "write", "deinit", "freeUrl",
               "freeCtx", "clear", "reset"}
    /\ ca \in {"idle", "init", "create", "flag"}
    /\ file \in Files /\ server \in Servers /\ ended \in Ends \cup {"no"}
    /\ faults \subseteq {"server", "memory", "short", "flash"}
DataTypes ==
    /\ wroteOffset \in 0 .. PartCells /\ wroteAddr \in 0 .. PartCells
    /\ crcLen \in 0 .. PartCells
    /\ crc \in [0 .. PartCells - 1 -> Cells]
    /\ flash \in [0 .. PartCells - 1 -> Cells]
    /\ buf \in [0 .. BlockCells - 1 -> Cells] /\ got \in 0 .. BlockCells
    /\ tries \in 0 .. Reconnects /\ elapsed \in 0 .. RetryUnits
    /\ next \in 1 .. BlockCells /\ pos \in Nat

\* Every variable has its type: the globals, the context, the task's locals;
\* no cursor passes the end of the partition.
TypeOK == FlagTypes /\ ControlTypes /\ DataTypes

Downloading == tk \in {"connect", "read", "write"}

\* The three cursors of a download agree wherever it may be resumed: the
\* offset wm_ota_http_connect asks the server for, the address wm_ota_ops_write
\* goes on at and the cells the running CRC has seen, which are the cells the
\* flash holds behind the header.
CursorsAgree ==
    Downloading =>
        /\ wroteAddr = wroteOffset
        /\ wroteAddr > 0 => /\ wroteAddr = HeaderCells + crcLen
                            /\ \A i \in 0 .. crcLen - 1 :
                                  crc[i] = flash[HeaderCells + i]

\* An image that is reported as downloaded, and so started by the reset, is in
\* the flash cell for cell as the server holds it, however often the download
\* was resumed, whatever the server made of the Range header and whatever the
\* reads that timed out had already taken from the connection.
AcceptedIsServed ==
    status \in {"DOWNLOADED", "UPGRADE_START"} =>
        /\ file \in {"intact", "trailing"}
        /\ \A i \in 0 .. Total - 1 : flash[i] = i

\* The other direction: a download of an intact image is given up (ABORT) only
\* when the flash or the heap failed, the first read was shorter than the
\* image header, or the server did not resume where it was asked to.  Timeouts
\* alone never spoil the image.
IntactNotAborted ==
    status = "ABORT" /\ file = "intact" => faults # {}

\* The session the task reads from is the one wm_ota_http_connect opened last
\* and is still open: wm_ota_http_get_firmware never works on a closed session.
SessionUsable ==
    tk \in {"read", "write"} =>
        connRet = "ok" /\ handle = httpSession /\ handle \in open

\* The context and the URL that ota_http_task uses exist until it frees them,
\* although the caller's error path frees the same pointers.
ContextLives ==
    /\ tk \notin {"none", "freeCtx", "clear"} => ctx /\ url
    /\ tk = "freeCtx" => ctx

\* For a caller whose priority is above the task's, is_ota_running tells
\* whether a task exists, unless a task has been deleted by its predecessor.
FlagTracksTask ==
    higher /\ ~killed /\ ca \in {"idle", "init", "create"} =>
        (running <=> tk # "none")

\* What the loop of ota_start cannot leave by itself: a chunked answer that is
\* over, on a connection that is closed, as long as the station is online.
ReadsNothingForEver == tk = "read" /\ ended = "closed" /\ online

\* An update that was started ends, whatever the network does: the task frees
\* its context, so that the next wm_ota_http_update can be accepted.  The two
\* exceptions are a task that was deleted by its predecessor and the loop above;
\* an update that leaves that loop, as the station loses its link, ends again.
UpdateEnds == ctx ~> (~ctx \/ killed \/ ReadsNothingForEver)
=============================================================================
