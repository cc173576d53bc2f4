# Verification of wm_iot_sdk

`src/` is WinnerMicro's IoT SDK for the W80x Wi-Fi/Bluetooth chips: FreeRTOS, drivers, network stack, and the
vendor's own components under `src/components/wm_*`. This project models those components that carry the vendor's own
logic and can go wrong in ways a unit test hardly reaches: queues shared by tasks, data in flash that has to survive a
power failure, state machines driven by timers and callbacks. Everything is TLA+; TLC checks small instances, TLAPS
proves theorems for every value of the constants.

| module | what it is | extends |
|---|---|---|
| `EventBus` | what the event component promises (abstract) | |
| `WmEvent` | `wm_event.c`: queue, task, callback list, init and deinit | |
| `MCWmEvent` | small instances of `WmEvent` | `WmEvent` |
| `WmEventProofs` | theorems about `WmEvent` | `WmEvent`, `ListLemmas` |
| `WmEventStopProofs` | theorems about stopping and restarting it | `WmEventProofs` |
| `NvsStore` | what the NVS library promises (abstract) | |
| `Nvs` | the NVS storage engine: sectors, lists, reclaiming, recovery | |
| `MCNvs` | small instances of `Nvs` | `Nvs` |
| `NvsProofs` | theorems about the layout of `Nvs`: lists, marks, order, reserve, room | `Nvs`, `ListLemmas` |
| `NvsStoreProofs` | theorems about the contents of `Nvs`: keys, counters, the refinement of `NvsStore` | `NvsProofs` |
| `NvsBlob` | blobs of the NVS library: segments, descriptors, the checks of the mount | |
| `MCNvsBlob` | small instances of `NvsBlob` | `NvsBlob` |
| `FtParam` | `wm_ft_param.c`: factory parameters in two flash copies | |
| `FtParamProofs` | theorems about `FtParam` | `FtParam` |
| `Ota` | `wm_ota`: update service, download with retries, image in flash | |
| `OtaProofs` | theorems about `Ota` | `Ota` |
| `NetManager` | `wm_net_manager`: task, queue, reconnect timer, event handlers | |
| `MCNetManager` | a small instance of `NetManager` | `NetManager` |
| `NetManagerProofs` | theorems about `NetManager` | `NetManager` |
| `ListLemmas` | lemmas on lists without doubles, used by two proof modules | |

Operators commented `mutant` are deliberate mistakes, each next to the definition it alters. No specification uses
them; they exist to show that the properties notice such a mistake. `PROJECT.json` names the source lines of every
definition, the mutant of every property, and the hazards the properties are for.

## 1. Inventory

### wm_event (modelled)
State: `g_ev_status`, the queue `g_ev_queue`, the callback list `g_ev_list`, the event task. Operations:
`wm_event_init`, `wm_event_deinit`, `wm_event_send`, `wm_event_add_callback`, `wm_event_remove_callback`. Every operation
but init posts a message; only the task touches the list. Wi-Fi, the network manager, OTA and applications post and
subscribe. Hard: nothing is locked, so every test of a global can be overtaken before it is acted on; the queue can be
full; deinit waits for the task, and ignores that the semaphore or the EXIT message could not be made; callbacks run inside the
task and post themselves.
Correct when: messages are served in order and once, each event reaches exactly the registrations in force, stopping
ends in a state with nothing left running.

### wm_nvs storage engine (modelled without groups)
State: flash sectors (a header with state and serial number, then items of one or more 32-byte slices), the manager's
view of them in RAM, the lists of active and idle sectors. Operations: mount (load and recovery), set, get, delete; a set
may reclaim a sector, which copies the items in use to a spare sector and erases the old one. All under one mutex. Hard: a
power failure at any program or erase, also inside the recovery from the last one; positions remembered across
a reclaiming; one-byte counters. Correct when: it is a map from keys to values on which every set is atomic, also
across power failures, and its lists, counters and order stay sound for ever. A blob is several items, segments and a
descriptor that counts them, written next to the old ones under the numbers of the other version; correct when it is
old or new, never mixed or lost, and nothing of an old one stays behind.

### wm_ft_param (modelled)
State: two copies in flash, one in RAM. Operations: init at boot, one setter and one getter per parameter. Hard: each
write erases its sector first; its result is ignored. Correct when: a boot always finds the last complete copy.

### wm_ota (modelled)
State: the service's globals (`g_ota_http_ctx`: context, URL, session, task, three flags), the context of one update, the
write address and running CRC, the partition `app_ota`. Operations: `wm_ota_http_update` in the caller, the task's loop of
connecting, reading and writing, the event callbacks that say whether there is a network, the reset at the end. Hard: flags and
pointers shared by caller, task and callbacks without a lock; a download resumed after a timeout; a stream that ends early; a
server that does not do what it is asked. Correct when: what is reported as downloaded is the served image, an intact image is
not spoilt by timeouts, an update ends and can be followed by another.

### wm_net_manager (modelled for station and softAP over IPv4)
State: `s_nm_wifi` (configurations, states, channel, a queue, a one-shot timer), the last event posted. Operations: start and stop
of station and softAP, which are messages to the manager's task; the handlers of Wi-Fi and lwIP events in the event task; the
timer. Hard: two tasks write the same variables without a lock, the Wi-Fi library answers through events that may be under way when
the opposite happens, messages and events can be refused and nobody looks. Correct when: state, interfaces, channel and what the application was told follow the
link, a stop is final, a station that is to be connected keeps trying. The address events of `wm_netif_lwip.c` are part of it.

### Not modelled yet
* **wm_nvs API** (`wm_nvs.c`, handles, iterators, partition manager): a mutex around the engine, handles that name a
  group of a mounted partition. Hard: deinit deletes the mutex; iterators keep positions across calls. Correct when: no handle
  or iterator outlives what it points to.
* **wm_pm**: one semaphore taken by who must stay awake and by the idle task that sleeps. Correct when: no sleep with the
  lock held, no lock lost by a failed sleep, no wake-up forgotten.
* **wm_heap, wm_system, mqtt client, wm_httpclient**: see `PROJECT.json`; mostly thin or sequential.
* **drivers and wm_hal**: their behaviour is that of registers and interrupts; the repository does not define it.
* **wm_wifi, wm_atcmd, wm_rf, bootloader, parts of wm_soc**: prebuilt libraries.
* **bluetooth, lwip, mbedtls, freertos, lvgl, wpa_supplicant, ...**: vendored.

Components meet in few places. `wm_event` is the bus between Wi-Fi, net manager, OTA and applications. `wm_nvs` and
`wm_ft_param` share only the flash driver, whose mutex makes one operation atomic with respect to others. The queue and
semaphore calls of `wm_osal.c` are FreeRTOS's with a timeout of zero or for ever, and are modelled where they are used.

## 2. The models

### WmEvent
One action per preemption point of the C code. A thread's call is cut where it reads or writes a shared variable:
`PostCall` reads `g_ev_queue`, `PostSend` uses the pointer read; `DeinitCall`, `ExitCall`, `ExitSend`, `DeinitJoin`, `DeinitEnd` are
`wm_event_deinit`; `InitCall` to `InitFail` are `wm_event_init`. The task is `TaskLoop`, `TaskReceive`, one action per
message kind, `Walk`/`CallbackPost`/`CallbackReturn` for the walk over the list, and `TaskSave`, `TaskClear`, `TaskDrain`, `TaskExit`
for its end. Queues and tasks are numbered by the init that made them, so that a pointer to a deleted queue
is a number whose queue is no longer alive; a send through it is undefined in C and may reach nothing that matters or the
storage of a later queue (`Storage`). Threads are either posters or administrators (who init and deinit), so that a run
can choose which of them exist. Payloads and logging are left out; a full heap is `MallocFails`, which every allocation meets:
queue, task, list node, the EXIT message and the semaphore of a deinit.

`wm_event_deinit` looks at none of its results. Without a semaphore it sends EXIT with none and acquires NULL (`DeinitJoinNull`:
an assertion of FreeRTOS that may be compiled out, so it never returns or returns at any moment); without memory or room
for EXIT it goes straight on. Where it so ends while the task still runs, `stranded` remembers it, until a `wm_event_init` that finds the
task gone starts a clean one; `overrun` says that `wm_event_init` came while that task was still there. The properties say what holds
in spite of a stranded task, and stop at `overrun`, which section 5 describes.

`EventBus` is the promise: a set of registrations, a queue of accepted messages, the message being served and
the registrations that still have to receive it. `ImplementsBus` maps `due` to the matching registrations at and behind
the task's position in the list.

### Nvs
A step is one flash program or erase with the RAM changes around it. `flash[s]` holds the header state, the serial number and the
items in slice order; an item has its first slice, span, key, value, state, and whether the checksums of
its head and data match. `ram`, `active`, `idle`, `sn` are the sector manager. `pc`, `op`, `gc` say where the call, the
set and the reclaiming are. `Set`, `PutInit`, `PutItem`, `PutFull`, `DropOld` are `wm_nvs_storage_write_item`; `TakeIdle`, `NoSpace`, `GcStart`
to `GcErase` are `wm_nvs_sm_request_sector` and `sm_garbage_collection`; `Load`, `LoadFirst`, `FixWrite`, `FixGcErase`, `FixGcTake`, `Settle`
are `wm_nvs_sm_load` in its order. `PowerLoss` keeps flash and may leave the running program half done: a head
with a bad checksum, with the right length or that of erased bytes, a head without its data, or a sector
whose header is unusable.

Details kept because properties depend on them: counters are one byte (`Byte`), and the length of an erased field
makes an item longer than a sector (`Overlong`), both scaled to the small sectors in the proportion of the real
ones (127 slices); clearing the state byte of a slice that is not an item leaves a stray byte, over which a
later item is born dropped; an item with a bad head is counted as dropped twice; a sector rolled back to idle by `Settle` is
taken again without being erased.

Assumed: bytes of one program reach flash in order and one-byte programs are atomic; flash operations succeed unless
power fails; malloc succeeds; the hash table finds what a search would find. Left out: blobs, groups (one group is modelled), read-only
mounts, clean unmount, the version field, and two sector states: `INVALID`, set in RAM when a
flash read fails, and `FULL`, which only a result that `wm_nvs_sector_write_item_data` never returns would set. `Load` is one step: a
second loss inside it leaves what a loss before or after it leaves.

`NvsStore` is the promise: a map on which a set takes effect at one point between call and return. The value of a key
in `Nvs` is that of its newest intact item (`Stored`); a set takes effect in `PutItem`.

### NvsBlob
Above `Nvs`: an item is written or dropped in one step, and `flash` is the list of the items in use in the order a search meets
them. `SetCall`, `WriteSegment` (any split, as it depends on the room in the sectors), `WriteDescriptor`, `EraseOldDescriptor`, `EraseOldSegment`,
`EraseEnds` are a set; `Get` drops a descriptor it cannot read, as the code does; `MountFixWrite`, `MountMatch`, `MountDrop`, `MountEnds` are the checks of
the mount in their order. Power may fail between any two.

`SetNoSpace` is the size check at the start. It counts the slices left in the sector before the first segment is written, so it
does not promise room for the rest: after any segment the search for the next sector may fail, for a further segment or for the
descriptor, and the set returns with its segments in flash (`WriteStops`; whether a sector is found is a choice, as the sectors are not
modelled). A flash write that fails there has the same effect. `littered` remembers the numbers of such segments until the
mount, and `mixed` the keys whose descriptor was then written over them, by the next set with the same numbers: what is read for
such a key is wrong (section 5). The properties make an exception for that key and no other, until a mount has dropped its descriptor.

`Longer` says which key's name begins with which other's:
`storage_blob_check_drop` compares only a prefix. `Read` gives the blob whose segments are found, `"mixture"` if only the sizes add up,
or nothing. Left out: reclaiming during a set, deleting a group, a blob replaced by a plain item or the other way
round, flash that fails in an erase or a read, and memory. `ImplementsStore` maps each key to a one-key `NvsStore` (`StoreOf`), the same
specification as that of `Nvs`, with a blob as one value.

### Ota
The image is counted in cells, a cell of the served file is its position, and the CRC is the cells it has taken in (collisions are left
out), so that flash, buffer and CRC say where their contents came from. `UpdateBegin`, `UpdateInit`, `CreateTask`, `SetRunning` are
`wm_ota_http_update`; `OtaStart`, `ConnectOk`/`ConnectFails`, `ReadData`/`ReadNothing`/`ReadFails`/`ReadTimesOut`, `WriteRefused`/`WriteFails`/`WriteOk` are
`wm_ota_start` with its callbacks; `Deinit` to `DeleteTask` the end of the task; `PowerCycle` a reset at any point. Files are intact,
damaged, cut short or followed by more; servers honour Range, ignore it, or serve another file by the time of a
reconnection. Time is counted in units of the read timeout.

Scheduling is FreeRTOS's on one core: the caller's priority is above or below that of the task (`higher`, fixed for a behaviour),
and a ready task of higher priority runs first (`TaskMayRun`, `CallerMayRun`). There is one caller at a time. `wm_ota_ops_write` can also
erase as it goes (`need_erase`); `wm_ota_init` never leaves that mode on, so it is not modelled.

An answer may end before the image does (`Ends`). A reset connection fails or times out at the next read. A chunked answer that is over
reads nothing, with success: the length of the next chunk is read from a socket whose error is taken for the end of the stream
(`HTTPClient.c:2127-2131`), `wm_ota_http_get_firmware` passes that on as success with no bytes, and the loop reads again
without counting. While the connection is open that read may still time out; once it is closed (`ended = "closed"`) it goes on for as
long as the station is online (`ReadsNothingForEver`). A `select` that fails leaves everything as it is. `killed` marks what the
code can do to itself: a task that has cleared `is_ota_running` deletes the task the global handle names, which by then may be its successor.

### NetManager
`Take...` actions take a message from the queue, the actions after them are what follows a blocking call of the Wi-Fi
library. The event task has the higher priority: the manager's task runs when no event is pending or when a handler is
blocked in adding or removing an interface (`ManagerRuns`), and such a handler is two steps (`ConnectedTaken`, `ConnectedHandled`, ...). `link`,
`air`, `ip` are the state of the Wi-Fi library and lwIP, whose own steps (`Associated`, `LinkLost`, `ApOnAir`, `GetsIp`, `LosesIp`) come at any
time. A softAP sends AP_STOP only when it was on; a start of one that is on takes it down first or changes it as it runs.

Every post may be refused: to the manager, to the application, and to the event task, whose queue is shared with the rest of the system
(`Notify`: refused for want of memory or room at any time; `EventBound` places are those these events may take). None of the senders in
`notify.c` and `wm_netif_lwip.c` looks at the result. `lostStart`, `lostChannel`, `missed`, `postFailed` and `lostLink`, `lostIp`, `lostAir` remember
that the latest post of a kind was refused, and each property excepts exactly those it cannot survive. The results of
`wm_wifi_disconnect` and of `wm_wifi_ap_stop`, which the manager ignores, are taken for successes (`TakeDisconnect`, `TakeApStop`).
Configuration: auto connect and auto channel on, both interfaces
enabled, static options of the interfaces, IPv6 and Ethernet left out; the power lock released at `wm_nm_core.c:200` belongs to `wm_pm`.
The event bus below is the FIFO that `EventBus` promises, here the variable `events`.

### FtParam
`slot[0]`, `slot[1]` are the flash copies (`None`: bad magic number or checksum), `ram` the RAM copy. `Set` goes up to the first
write and changes RAM, `Heal`, `First`, `Second` are the three writes with the comparison after each, `SetNoMemory`
and `BootNoMemory` the failed allocations. A write does its work, does nothing, or leaves its slot erased; a power
failure hits any write or none. A valid copy has both checksums: copies in the older format without extension are left
out, so is the option `CONFIG_WM_FT_PARAM_ENABLE_DATA_RESET_WHEN_GET` (off by default) and a second caller.
`Spaced` excludes one thing, described in section 6: a write of slot 1 failing while slot 0 is not valid.

## 3. Runs

| run | shows |
|---|---|
| `event_bus` | Nobody stops the component. `ImplementsBus`: FIFO, exactly once, exactly the matching registrations, whatever threads and callbacks post and whether or not memory suffices. `CallbacksDistinct`: no double registration. `EveryMessageServed`: no accepted message is forgotten. |
| `event_stop` | Stop and restart, every allocation may fail, EXIT may find the queue full. `DownIsQuiet`: after a deinit that did not give up on the task (`stranded`), no task, queue or callback is left. `OneTask`: never two owners of the list, not even after one that did, as long as nobody restarts beside that task (`overrun`). `WalkIsStable`: the list does not change under a walk. `DeinitReturns`: a deinit that has sent EXIT with a semaphore is woken. |
| `nvs_power` | Overwriting sets and two power failures anywhere, nothing reclaimed. `ImplementsStore`: every set is all or nothing and no other value changes. `KeysUnique`: one item per key after recovery. |
| `nvs_reclaim` | Callers delete before they set; reclaiming over and over, one power failure outside the copy. `ImplementsStore`; `RamMatchesFlash`: RAM counters are what a mount would compute; `ReclaimYieldsRoom`: reclaiming is never for nothing; `ServesAgain`: calls and mounts end. |
| `nvs_structure` | Everything at once, two power failures at any step, mount included. `ListsPartition`, `OneDeleting`, `OrderSurvives` (list order = order of serial numbers in flash), `ReserveKept` (a spare sector between calls, nothing in use on the idle list), `ItemsInSector`. |
| `nvs_overwrite` | Violation of `ReadsWhatWasSet` without any power failure. |
| `nvs_reclaim_loss` | Violation of `ReclaimKeepsValues` with one power failure. |
| `nvs_blob` | Blobs of one to three segments, sets that run out of space after any of them, two power failures between any two flash operations. `BlobsReadable`: what has a descriptor can be read whole. `NoOrphans`: after every call and mount each segment has its descriptor and each key one, but for what a set that ran out of space left, which is gone after the next mount. `ImplementsStore`: a set or delete of a blob is atomic, a set that fails has no effect, the mount loses no blob; both this and `BlobsReadable` except keys in `mixed`. |
| `nvs_blob_prefix` | Violation of `BlobsReadable` with one power failure, when one key's name begins with the other's. |
| `ft_param` | Failing writes, failing allocations, power failures. `SuccessIsDouble`: success means both copies are written. `NeverLost`: a boot never finds nothing where there was something. `AtomicUpdate`: what a boot loads changes only to the complete new copy. |
| `ota` | Updates with every kind of file and server, timeouts, broken connections, a full heap, failing flash, resets. `AcceptedIsServed`: an image reported as downloaded is in flash as served. `IntactNotAborted`: timeouts alone never spoil an intact image. `CursorsAgree`: offset asked for, write address and CRC agree wherever a download may resume. `SessionUsable`: it reads only from the open session. `ContextLives`: nobody frees the context under the task. `FlagTracksTask`: `is_ota_running` is true for a caller of higher priority. `UpdateEnds`: an update ends, unless its task was killed or it reads from a chunked answer whose connection is closed (`ReadsNothingForEver`). |
| `net_manager` | Station and softAP started and stopped while link, address and softAP come and go. `KeepsTrying`, `Reconnects`: a configured station that is down is tried again, and comes up. `StopIsFinal`: nothing left over brings a stopped interface back. `StateNotOptimistic`: no connection reported that is gone. `ApplicationKnows`: the duplicate filter hides no change. `NetifFollowsLink`, `SameChannel`. Any post may be refused; all but `StopIsFinal`, which needs no exception, promise nothing of what only a refused one would have told. |

### Bounds
* Events: two posters and re-entrant callbacks, three registrations (exact, wildcard type, wildcard everything), two events, a
  queue of two (so that it is full in `event_bus`), four posts. Every distinction `Matches` makes occurs; two posters are
  enough for two messages to pass each other between test and send. `event_stop` has three posts for a queue of two, so that EXIT can be refused,
  and three generations, so that a queue can be deleted, reused and deleted again. `NotOverrun` cuts the behaviours off where `wm_event_init` has
  run beside a task left behind: every property of the run promises nothing from there on.
* NVS: two to four sectors of three slices, two keys, a short and a long value, three to six sets. A sector then holds one
  to three items, fills, and is reclaimed after a few sets; with two sectors (the documented minimum) every full sector is
  reclaimed. Runs made once with larger bounds found nothing else (two sectors and six sets: 5.1 million states; three sectors
  of two slices and six sets: 14.9 million). `LossAt` and `MountLossAt` name the steps at which power may fail; `Overwrite` says
  whether a caller may set a key that has a value.  The restrictions of `nvs_power` and `nvs_reclaim` keep
  exactly the mechanisms of the violations out, so that the rest can be checked behind them.
* Blobs: two interchangeable keys, blobs of one and of three units, three sets, two power failures: a blob can be replaced twice, so that its
  segment numbers come round again, with a failure in each replacement. The blob of three units is stored as one to three segments. One that was
  cut off can be followed by a set with the same numbers, a mount, and another set.
* OTA: a header of two cells, a body of three, a partition one cell larger, blocks of three: the first read may be shorter than the
  header, the last block is a short one, and a file one cell too long just fits. One retry of a connection, three units of
  retry time, room for three sessions.
* Net manager: one channel beside the default one, a queue of two (so that posts are refused), two calls of the application, two places for
  the events of the Wi-Fi library and lwIP. `OneLossAtATime`: at any moment the latest post of one kind at most stands refused; `OneQueueBusy`: the
  manager's queue is full only while no event is pending, since the event task goes first. 1.2 million states.
* Factory parameters: two parameters, two values, three faults; the chip leaves the factory with no, one or two copies.

### Fairness
* Events: weak fairness per thread and task. FreeRTOS schedules a ready task again, `queue_send` does not block, a started API
  call finishes, callbacks return. Nobody has to start a call, and a callback does not have to post. Nothing is assumed of a deinit that acquires
  a NULL semaphore.
* NVS: weak fairness of the steps of a call or mount. A call holds the mutex and waits for nobody; flash operations end.
  A behaviour has finitely many power failures.
* Blobs: safety properties only, no fairness.
* OTA: a task that may run runs, a call in progress goes on, the watchdog that `wm_ota_ops_reboot` arms fires. Nothing is assumed of the
  network: `UpdateEnds` rests on the counted attempts and the retry time, which the loop it excepts does not count.
* Net manager: weak fairness of the timer, of the manager's task and of the event task. Strong fairness of `ConnectStarts` and
  `Associated` says that an attempt repeated for ever succeeds in the end; this is about the radio and not about the code, and what `Reconnects`
  shows is that the code does repeat it.
* `FtParam` has safety properties only and no fairness.

Deadlock checking is off in the event runs and in `net_manager`: with all posts or calls used and the queues empty, the tasks rightly wait
for ever.

## 4. Proofs

| theorem | statement | how |
|---|---|---|
| `TypesAndDistinctness` | types and `CallbacksDistinct`, any threads, capacity, restarts | `IInv` adds that a held message is of the kind its holder sends; per action |
| `EventLoopImplementsBus` | without administrators, `WmEvent` implements `EventBus` | `RunInv`: one task, its queue alive, position in range; each action is a bus step or a stutter. The difficulty is `due`: because the list has no doubles, moving on by one position removes exactly one registration |
| `ListHasOneOwner`, `DeinitLeavesNothing`, `ListStableUnderWalk` | `OneTask`, `DownIsQuiet`, `WalkIsStable` with one administrator, any posters, posts, capacity and failing allocations | `StopInv`: what runs at each point of the administrator's call, also beside a task left behind |
| `SectorsStayListed` | `ListsPartition`, any number of sectors, items, losses | `ListInv` adds: lists are sequences of sectors, the sector reclaimed and its copy are active, the active list is not empty during a call |
| `OneReclaiming` | `OneDeleting`, same | `MarkInv`: RAM knows which sector is marked in flash (`MarksKnown`), and a mark exists only in the phases that finish it (`MarksInPlace`); `WeakTypes` is what the types need |
| `OrderIsStored` | `OrderSurvives`, same | `SerialInv`: see below |
| `ReserveStays` | `ReserveKept`, same | `ReserveInv`: see below |
| `ItemsStayInside` | `ItemsInSector`, same | `PackInv`: see below |
| `KeysStayUnique` | where `~Overwrite`, `KeysUnique`, any number of sectors, items, losses, any kind of tear | `UniqueInv`: see below |
| `CountersMatchFlash`, `ReclaimMakesRoom` | where `~Overwrite` and only data is torn, `RamMatchesFlash` and `ReclaimYieldsRoom`, same | `PlainInv`, `CountInv`: see below |
| `EngineImplementsStore`, `ReclaimingKeepsValues` | where `~Overwrite` and `Recoverable`, `Nvs` implements `NvsStore`, and `ReclaimKeepsValues` | `StoreInv`: see below |
| `OnlyServedImages`, `ResumePointsAgree` | `AcceptedIsServed`, `CursorsAgree`, any sizes, limits, files, servers and faults | `Inv`: the CRC is of the flash contents behind the header (`Contents`), and the header was compared on the first write; a matching CRC then fixes every cell |
| `SessionsUsable`, `ContextOutlivesTask`, `FlagIsTrue`, `OtaTypes` | `SessionUsable`, `ContextLives`, `FlagTracksTask`, `TypeOK` | `Ready` and `Flagged`: which task exists in which phase of the caller |
| `IntactSurvives` | `IntactNotAborted`, same | `Genuine`: without a fault everything read so far is what the file has at that offset, and the CRC agrees |
| `StoppedStaysDown` | `StopIsFinal`, any queue, channels, calls | `StationHeld`, `SoftapHeld`: a configuration exists whenever a call to the library that uses it is under way or has succeeded |
| `RetryAlwaysAhead` | `KeepsTrying`, same | `Trying`: in every phase in which the station is down an attempt is running, a timer is armed or a disconnection is still to be handled (`LossFollows`), unless its event was refused |
| `NetifsMatchRadio`, `StateIsHonest`, `AddressIsTold`, `SoftapFollowsStation` | `NetifFollowsLink`, `StateNotOptimistic`, `ApplicationKnows`, `SameChannel`, same | `Order` (`SpecOrder`): see below |
| `NetManagerTypes` | `TypeOK` of `NetManager` | |
| `SuccessMeansTwoCopies` | types and `SuccessIsDouble`, any faults | `Inv` adds: at the second write slot 1 is the RAM copy; a repair happens only while slot 0 is valid |
| `ParametersSurvive` | with `Spaced`, `NeverLost` and `AtomicUpdate`, any number of faults | `SlotStep`: what a step does to the slots |

Assumptions are the named `ASSUME`s of the modules: positive sizes, a span that fits a sector, special values that are not
ordinary ones. TLC evaluates them in every run. `ListLemmas` holds what both list-based proofs need: appending something
new, removing, taking head or last of a list without doubles, and what each does to the order (`Before`). The bounds `MaxPosts`, `MaxSets`, ... are
arbitrary numbers in the proofs.

Why the invariants are what they are, for the longest arguments:

*Stopping the event loop* (`WmEventStopProofs`). `OneTask` is not inductive: it needs to know that `wm_event_init` runs only
when nothing is left, which needs that `wm_event_deinit` returned only after its task was gone, which needs that the
semaphore is released by the task that took *this* deinit's EXIT, and by nothing else. So `Stop` says for each
point of the administrator's call whether nothing is left (`Gone`), one task serves the current queue and no queue that exists
holds EXIT (`ServesOn`), or it serves with EXIT under way, or tears down (`Leaves`), which is possible only while the
administrator waits. Posts through a pointer to a deleted queue, failing `queue_create` and `task_create` are covered.
A semaphore or an EXIT that could not be had, and an EXIT that was refused, break this chain: then `Lingers` holds instead. The task is still there, but
alone, and may serve on, or leave as soon as it sees the status reset; when it has left, the next
`wm_event_init` leads back to `Stop`. `wm_event_init` beside a task that lingers is `overrun`, where the invariant ends. So the theorems
need no bound on posts or capacity; what they except is a history (`stranded`, `overrun`) that only those three failures can start.

*Events of the network manager* (`NetManagerProofs`). What the four properties say holds only once the events are handled.
Before, the difference between the radio and what the manager knows is in the events under way. `Order` states
it for `Pending`, the event being handled followed by those queued, for each kind of event whose latest was not refused (`lostLink`, `lostIp`, `lostAir`
say when it was; the next one that gets through restores the order): the last link event pending says what the link is, and
with none pending the interface is up exactly when the link is (`LinkOrder`); likewise for the softAP (`SoftapOrder`) and the
address (`IpOrder`); with no address event pending a reported address exists (`StateOrder`); what the duplicate filter remembers, if it is
an address event, was told to the application (`FilterExact`), and with no address event pending the application knows (`ToldOrder`); the last change
of channel queued is to the channel of the link (`ChannelOrder`), and a softAP has the manager's channel (`SoftapChannel`). With
nothing pending the four properties follow.

*Sectors and their items* (`NvsProofs`; each argument uses the ones before).
`SerialInv`: the active list, rebuilt by a mount from the serial numbers in flash, is in their order because a number enters flash only
for the last active sector. A sector taken from the idle list, erased first if it is crashed, gets its header at the next write, with a number
above all in flash (`UnwrittenLast`); so does the first sector of an empty partition. A sector the mount rolled back keeps its header and its old
number, which is right as long as it is the next one taken (`SpareFirst`).
`ReserveInv`: the hard case is a power failure between the header of the copy and the mark on its source. No sector is then idle and none is
marked, so the mount rolls back whichever sector has the highest number (`Settle`); `LastBare` says that that one is empty, in each
phase from which the failure may come. During a call this is the rolled-back sector at the head of the idle list, during a
reclaiming the copy, which is the last active sector.
`PackInv`: items of a sector lie one behind the other (`Packed`), and `free` is behind the last of them or beyond the end (`RoomLeft`),
so an item for which the check finds room stays inside. Reclaiming needs more, because it copies to `gc.to`, does not look at `free` and may
replace it by `used_slice`: `gc.to` never passes the item being copied, and neither counter wraps before the copy is full (`Copying`).
The copy starts in a sector whose counters a mount may have read from stray bytes, hence `Bounded`. A torn item without a valid
head may have any length; it is never copied, since the mount dropped it (`Sound`).
TLC checked the three invariants on the runs' instances, with every power failure, before they were proved.

*Keys and counters* (`NvsStoreProofs`; `BaseInv` is the conjunction of the above).
`UniqueInv`: two items of one key are in one sector only if they are one item (`Once`), and in two sectors only if one of them is
marked for reclaiming and the other is the newest, its copy (`Copies`); during the copy, only items before the one to be copied next
have a double (`Copied`). In the phases of a call nothing is marked but by that call, so there is no double at all (`NoCopies`), and
none of the key being set (`Unused`). Recovery ends the only pair of sectors there can be (`OneReclaiming`) by erasing the newer one,
which is right even if power fails again during the second copy. What the loss leaves does not matter: a head with a bad checksum is not an
item (`Holding`), and a head without data counts as one. `Genuine` says that a sector holds `EntryCount` items at most, so that a lookup sees all of them.
The hypothesis `~Overwrite` is needed: `nvs_overwrite` shows two items of one key.
`PlainInv`: a caller who does not overwrite never makes the engine drop an item where there is none, so no byte of the unwritten area is
programmed (`stray`), every item lands as it was meant, and no two items share a slice (`Apart`).
`CountInv`: the counters of RAM add and subtract and never look, while a mount measures a set of slices. They agree because the items
fill their sector from the first slice without a gap (`Filled`) and do not overlap, so that the sizes of their slices add up to
the end of the last item (`TakenAll`), part by part (`TakenParts`). While items are copied, `gc.to` is the size of the items in use before the
next one; a sector worth reclaiming has room for these and the new item together, so after the copy the new item fits. The hypothesis on
tears is needed: an item with a torn head is counted as dropped twice (`wm_nvs_sector.c:145`), and one of unknown length leaves a gap.

*What is stored* (`NvsStoreProofs`). The abstract state of the map is `Stored`, the value of the newest intact item of each key. `Has` says the
same without choosing: some whole item of the key has that value. The two agree (`StoredFacts`) because two whole items of one key, which exist only
while one is copied, have the same value (`Agree`). A step is therefore a stutter of the map if it changes no `Has`, and only two kinds of step do:
the one in which a set writes its item, and a deletion. That is proved action by action; the hard ones are those that lose items.
The erase of a reclaimed sector loses nothing since every item in use before `gc.next` has a twin in the copy (`CopiedTo`).
A mount drops the last item if its data is torn (`LastBroken`: only the last program can have been cut short), and an older double
of it only if that has the same value (`NoDoubles`: there is none when the power may fail). It erases an unfinished copy only while the copy
has no item (`CopyUnstarted`).
A power failure adds no value, since an item cut short fails one of its checksums, provided the next mount looks at it (`TornValues`).
`StoreInv` is the conjunction of these with `UniqueInv` and `PlainInv`.

`Recoverable` names the power failures the engine's recovery puts right: at every step of a set, deletion or reclaiming except between the first copied item
and the end of the erase, and in the mount only at its first check, before a copy, and at its end; any number of them. The other points are those of
finding 2 and of the end of section 5, where the refinement is false. Its last conjunct came out of the proof: `RollBackSafe`, that no sector is rolled back with its
header where data can still be torn, could not be shown for two failures of which the first comes before the mark of the source, and TLC then found why (section 5).
With one failure, or where data is never torn, or none before the mark, it holds (`SpareFree`). The run `nvs_reclaim` satisfies `Recoverable`.

Only model-checked: liveness (`EveryMessageServed`, `DeinitReturns`, `ServesAgain` of `Nvs`, `UpdateEnds`, `Reconnects`), which needs fairness;
of `Nvs`, overwriting callers without reclaiming (`nvs_power`), for whom `KeysUnique` and `ImplementsStore` rest on room that never runs out; `NvsBlob`, whose reading of a blob is a sum over its segments; two administrators (section 5).

The type invariants of `WmEvent`, `FtParam` and `NetManager` and the types of `Nvs` (`WeakTypes` of `NvsProofs`) are parts of the
proved invariants, so the runs do not list them.

## 5. Findings

1. `nvs_overwrite`: a set that triggers the reclaiming of the sector with the old item drops a slice of the erased
   sector; both items stay, reads return the old value. The stray state byte later makes another item dropped at birth.
2. `nvs_reclaim_loss`: recovery looks for half-written items before it looks for a half-done reclaiming, and loses
   the item copied last.
3. `nvs_blob_prefix`: after a power failure in the first write of blob "abc" the mount keeps its segment if a blob "ab" of the same
   version exists; the next write of "abc" uses the number again, and what it wrote cannot be read.

Seen in the models, without a run:
* Events. When the queue is full, or there is no memory for EXIT, `wm_event_deinit` ignores it and marks the component uninitialised while its task runs on
  (`wm_event.c:214-217`, `:338`, `:344`), against event.rst:134. A task in its loop then leaves by itself after the next message; one that waits for
  a message waits on, and `wm_event_init` starts a second one beside it, on the same list (`OneTask` and `WalkIsStable` without `~overrun`). A semaphore that could
  not be made (`:336`) is acquired as NULL (`:340`). With two threads that
  stop and restart (`Admins = {a1, a2}`), a `wm_event_deinit` that comes while the other's task tears down finds `g_ev_queue` NULL and reports the component
  uninitialised; `wm_event_init` then starts a second task (`OneTask`, `DownIsQuiet`). A send overtaken by the end of the task goes to a
  queue that was drained and is being deleted (`wm_event.c:278`), against the comment at line 187.
* NVS. Recovery looks for an older double with the type of the last item only (`wm_nvs_sector_manager.c:229`): a power failure while a key
  changes type leaves two items, against nvs.rst:52.
  After a power failure between the header of a copy and the mark on its source, the mount makes the empty copy idle but keeps its header and its number, the highest
  (`wm_nvs_sector_manager.c:453`). A set then writes to an older sector. If a second power failure tears the data of that item, the check "the last item wrote
  OK" (`:442`) looks in the last sector by number (`:181`), which is the empty one, and passes; a read does not compare `crc_data`, and returns the torn value.
  `ImplementsStore` fails so with the other settings of `nvs_reclaim` and `EntryCount = 4`, two values of two and three slices,
  `LossAt = {"put", "gc_mark"}`, `MountLossAt = {}`, `MaxSets = 3`, `MaxLosses = 2`.
* Blobs. The size check (`wm_nvs_sector_manager.c:572`) counts the slices free before the first segment, and a blob that fills them but one leaves none for the
  descriptor: the set fails (`wm_nvs_storage.c:844`, `:857`) with its segments in flash, without any power failure. They take up space until the next mount. The next set of that key, e.g. of a
  smaller blob, uses the same numbers and returns success, but a read meets the older segments first: it fails, or returns another
  mixture of the two when the sizes add up (`BlobsReadable` without its exception). The next mount drops that blob.
* OTA. When a server closes the connection of a chunked answer before the image is complete, the update reads nothing with
  success for as long as the station stays online: it neither retries nor ends (`HTTPClient.c:2127`, `wm_ota_http.c:125`, `wm_ota.c:93`; `UpdateEnds` without
  `ReadsNothingForEver`). A session is not closed before a reconnection after a timeout (`wm_ota.c:174`), only the last one at the end. A first read shorter than the image
  header ends the update (`wm_ota_ops.c:25`). A caller of lower priority than the task may set `is_ota_running` when the task
  is gone, and no update is accepted any more (`wm_ota_http.c:233`). A task may delete its successor (`killed`, `:173`). The HTTP status is not
  looked at; the CRC protects the image.
* Net manager. Nobody looks whether the event task took an event of the Wi-Fi library or of lwIP. If STA_DISCONNECTED is refused (`notify.c:198`),
  the interface stays up, the state stays what it was and no timer is started; a refused STA_CONNECTED (`:180`) leaves the interface down and the softAP on its
  channel, a refused address event (`wm_netif_lwip.c:255`, `:273`) the state and the application with the old address. Nothing puts this right before the
  next event of the kind. If the timer's message is refused (`wm_nm_wifi.c:222`), a station that is down is not tried again. A change of channel that
  is handled between the start of the softAP and its READY is let pass (`:123`), against net_mgr.rst:84 "the SoftAP channel follows
  the channel of the connected station"; the same line reads through `ap_config` when a late event left `AP_READY` behind.
  `CONNECTING` may overwrite `CONNECTED` (`:96`) until the address arrives.

Also, as no document says otherwise: a second power failure during recovery makes an unfinished copy
look complete (`LossAt = {"gc_marked"}`, `MountLossAt = {"fix_take"}`, three sectors, two losses in `nvs_reclaim_loss`); after
a failed restart `g_ev_queue` points at a deleted queue; a set of a factory parameter while slot 0 is not valid erases the only
valid copy first (`NeverLost` with `Spaced = FALSE`); after a boot without memory the next set stores a copy in which every
other parameter is blank, if slot 0 is not valid.

## 6. Limits

* What `Spaced` means: after a fault in writing slot 0, power or flash does not fail again before a set has completed. Without it the parameters
  can be lost; with it they cannot, and that is what is proved.
* A concurrent second `wm_event_deinit`, and one called from a callback, are not in the runs: of the first, section 5 says what the model
  does; the other waits for itself, as the code shows without a model.
* Flash that fails without losing power, and memory exhaustion, are modelled in `FtParam`, `Ota` and (memory) `WmEvent` and `NetManager`; in `NvsBlob` only as a write that fails
  during a set, and not in `Nvs`. That space runs out during the set of a blob is modelled in `NvsBlob`.

### Hazards seen that no module reaches yet
Beside those in `PROJECT.json`, for the modules of the plan:
* `wm_nvs_storage.c:769`: the sector of the old descriptor may be reclaimed before its place is used (what `nvs_overwrite` shows for plain
  items). `wm_nvs_sector.c:145`: the span of an item with a bad head is
  counted twice; `:297`: results of flash writes are ignored. `wm_nvs_hash.c:54`: a failed realloc loses the table. `wm_nvs.c:90`: the mutex is
  deleted while others may wait for it; `:119`: a partition is erased after the mutex was released. `wm_nvs_iterator.c:107`: an
  iterator keeps a place that a reclaiming may move.
* `wm_ft_param.c:318`: after a failed set RAM differs from flash, and the next set stores the difference; `:277`: no lock.
* `wm_ota_http.c:192`: two callers pass the already-running test together. `wm_event.c:190`: the second of two concurrent deinits is never answered.
* `wm_pm.c:86`: the semaphore is deleted under a waiting task; `:182`: test and release of the lock are two steps; `:227`: a timer that does not
  start leaves the lock held and the clocks off; `:229`: a flag is cleared after the timer that sets it was started.

## 7. Plan

Left to model, in this order: `wm_pm` (lock, sleep, timer interrupt, reconfiguration); the NVS API (mount and unmount, iterators,
deinit and erase racing calls); blobs while sectors are reclaimed, as a composition of `NvsBlob` with `Nvs`; the free list of `wm_heap`,
checked against a map of allocated blocks.

Left to prove: the refinement of `NvsStore` by `Nvs` for callers that overwrite while no sector is reclaimed, and by `NvsBlob`.
