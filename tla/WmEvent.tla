------------------------------- MODULE WmEvent --------------------------------
(***************************************************************************)
(* components/wm_event/src/wm_event.c: the event loop.  Any thread posts   *)
(* ADD, REMOVE and EVENT messages to the bounded FIFO g_ev_queue; the      *)
(* event task takes them off one by one, keeps the callback list g_ev_list *)
(* and calls the callbacks.  wm_event_deinit posts EXIT and waits for the  *)
(* task on a semaphore; wm_event_init starts a new queue and a new task.   *)
(*                                                                         *)
(* A thread's API call is split where it reads or writes shared state, so  *)
(* that every preemption the C code allows is a behaviour here.  Queues    *)
(* and tasks are numbered by the wm_event_init that created them; 0 is the *)
(* NULL pointer.                                                           *)
(***************************************************************************)
EXTENDS Naturals, SequencesExt

CONSTANTS
  Posters,      \* threads that call wm_event_send and add/remove_callback
  Admins,       \* threads that call wm_event_deinit and wm_event_init
  Entries,      \* registrations [group, ev, cb]; cb is (callback, priv)
  Events,       \* events [group, ev]; the payload is copied, never read
  AnyGroup, AnyType,
  Capacity,     \* CONFIG_WM_EVENT_QUEUE_SIZE
  MallocFails,  \* whether the heap can be exhausted
  MaxPosts,     \* bound on the number of API posts in a behaviour
  MaxInits      \* bound on the number of queues wm_event_init creates

Clients == Posters \cup Admins
Gens == 1..MaxInits

ASSUME ConstantsAssumption ==
  /\ Capacity \in Nat \ {0}
  /\ MaxInits \in Nat \ {0}
  /\ MaxPosts \in Nat
  /\ MallocFails \in BOOLEAN
  /\ Posters \cap Admins = {}

VARIABLES
  status,   \* g_ev_status
  gq,       \* g_ev_queue: 0 or the generation of a queue
  alive,    \* alive[i]: queue i exists (created and not deleted)
  queue,    \* queue[i]: the messages stored in queue i
  cbs,      \* g_ev_list, in registration order
  inits,    \* number of queues created so far
  tpc,      \* where task i is in wm_event_task
  cur,      \* ev of task i
  pos,      \* position of task i in the callback list
  tq,       \* the queue task i passed to queue_receive, later tmp_queue
  wake,     \* sync_sem_new of task i: the admins whose semaphore it holds
  cpc,      \* where client c is in its API call
  msg,      \* the ev the client allocated
  held,     \* the value of g_ev_queue the client read
  sem,      \* sync_sem_new of an admin: "null", or its count: "empty", "given"
  posts,    \* API posts so far (bounds the behaviours)
  stranded, \* history: a deinit went on although it had not stopped the task,
            \*   and no later wm_event_init, once the task was gone, made it good
  overrun   \* history: wm_event_init was called while that task still ran

taskVars == <<tpc, cur, pos, tq, wake>>
clientVars == <<cpc, msg, held, sem>>
history == <<stranded, overrun>>
vars == <<status, gq, alive, queue, cbs, inits, tpc, cur, pos, tq, wake,
          cpc, msg, held, sem, posts, stranded, overrun>>

NoMsg == [op |-> "NONE"]
PostMsg ==
  [op : {"ADD", "REMOVE"}, entry : Entries] \cup [op : {"EVENT"}, event : Events]
\* EXIT carries the semaphore to release: none when its creation failed.
ExitMsg == [op : {"EXIT"}, sem : SUBSET Admins]
Msg == PostMsg \cup ExitMsg

\* The component is initialised at boot by WM_COMPONEN_INIT_2.
Init ==
  /\ status = "INITED"
  /\ gq = 1
  /\ alive = [i \in Gens |-> i = 1]
  /\ queue = [i \in Gens |-> <<>>]
  /\ cbs = <<>>
  /\ inits = 1
  /\ tpc = [i \in Gens |-> IF i = 1 THEN "loop" ELSE "none"]
  /\ cur = [i \in Gens |-> NoMsg]
  /\ pos = [i \in Gens |-> 1]
  /\ tq = [i \in Gens |-> 0]
  /\ wake = [i \in Gens |-> {}]
  /\ cpc = [c \in Clients |-> "idle"]
  /\ msg = [c \in Clients |-> NoMsg]
  /\ held = [c \in Clients |-> 0]
  /\ sem = [a \in Admins |-> "null"]
  /\ posts = 0
  /\ stranded = FALSE
  /\ overrun = FALSE
-------------------------------------------------------------------------------
(* Posting.  wm_event_send and wm_event_send_internal_ev test g_ev_queue   *)
(* and then call queue_send, which never blocks.                           *)

Goto(c, l) == cpc' = [cpc EXCEPT ![c] = l]

\* queue_send(q, m): a full queue refuses.
Accepts(q) == Len(queue[q]) < Capacity
Enqueue(q, m) == queue' = [queue EXCEPT ![q] = Append(@, m)]

\* The storage a send to q reaches.  Sending to a deleted queue is undefined:
\* the freed block may still be unused, or be that of a queue created since.
Storage(q) == IF alive[q] THEN {q} ELSE {q} \cup {i \in Gens : alive[i]}

\* The message is allocated and g_ev_queue is read; NULL fails the call.
PostCall(c) ==
  /\ cpc[c] = "idle"
  /\ posts < MaxPosts
  /\ posts' = posts + 1
  /\ gq # 0
  /\ \E m \in PostMsg : msg' = [msg EXCEPT ![c] = m]
  /\ held' = [held EXCEPT ![c] = gq]
  /\ Goto(c, "send")
  /\ UNCHANGED <<status, gq, alive, queue, cbs, inits, taskVars, sem, history>>

\* (mutant) the list is changed in the caller's thread, not by the task
PostSendDirect(c) ==
  /\ cpc[c] = "send"
  /\ IF msg[c].op = "REMOVE"
     THEN cbs' = RemoveFirst(cbs, msg[c].entry) /\ UNCHANGED queue
     ELSE Enqueue(held[c], msg[c]) /\ UNCHANGED cbs
  /\ msg' = [msg EXCEPT ![c] = NoMsg]
  /\ held' = [held EXCEPT ![c] = 0]
  /\ Goto(c, "idle")
  /\ UNCHANGED <<status, gq, alive, inits, taskVars, sem, posts, history>>

\* queue_send on the pointer read before, whatever became of that queue.
PostSend(c) ==
  /\ cpc[c] = "send"
  /\ \E q \in Storage(held[c]) :
       IF Accepts(q) THEN Enqueue(q, msg[c]) ELSE UNCHANGED queue
  /\ msg' = [msg EXCEPT ![c] = NoMsg]
  /\ held' = [held EXCEPT ![c] = 0]
  /\ Goto(c, "idle")
  /\ UNCHANGED <<status, gq, alive, cbs, inits, taskVars, sem, posts, history>>
-------------------------------------------------------------------------------
(* wm_event_deinit                                                         *)

Running(t) == tpc[t] \notin {"none", "done"}
TaskRuns == \E t \in Gens : Running(t)

\* deinit goes on to its end although the event task, if there is one, has not
\* been told to leave or has not left yet.
GiveUp(a) ==
  /\ Goto(a, "deinitEnd")
  /\ stranded' = (stranded \/ TaskRuns)

\* The result of sem_create is ignored: without memory sync_sem_new stays NULL.
DeinitCall(a) ==
  /\ cpc[a] = "idle"
  /\ status = "INITED"
  /\ \/ sem' = [sem EXCEPT ![a] = "empty"]
     \/ MallocFails /\ sem' = [sem EXCEPT ![a] = "null"]
  /\ Goto(a, "exit")
  /\ UNCHANGED <<status, gq, alive, queue, cbs, inits, taskVars, msg, held, posts, history>>

\* send_internal_ev(MSG_EXIT) allocates the message, which may fail, and reads
\* g_ev_queue.
ExitCall(a) ==
  /\ cpc[a] = "exit"
  /\ \/ /\ MallocFails \/ gq = 0
        /\ GiveUp(a)
        /\ UNCHANGED <<msg, held>>
     \/ /\ gq # 0
        /\ msg' = [msg EXCEPT ![a] =
                     [op |-> "EXIT", sem |-> IF sem[a] = "null" THEN {} ELSE {a}]]
        /\ held' = [held EXCEPT ![a] = gq]
        /\ Goto(a, "exitSend")
        /\ UNCHANGED stranded
  /\ UNCHANGED <<status, gq, alive, queue, cbs, inits, taskVars, sem, posts, overrun>>

\* (mutant) deinit does not wait for the task
ExitSendNoWait(a) ==
  /\ cpc[a] = "exitSend"
  /\ \E q \in Storage(held[a]) :
       IF Accepts(q) THEN Enqueue(q, msg[a]) ELSE UNCHANGED queue
  /\ Goto(a, "deinitEnd")
  /\ msg' = [msg EXCEPT ![a] = NoMsg]
  /\ held' = [held EXCEPT ![a] = 0]
  /\ UNCHANGED <<status, gq, alive, cbs, inits, taskVars, sem, posts, history>>

\* A refused EXIT is freed, and deinit goes on.
ExitSend(a) ==
  /\ cpc[a] = "exitSend"
  /\ \E q \in Storage(held[a]) :
       IF Accepts(q) THEN Enqueue(q, msg[a]) /\ Goto(a, "wait") /\ UNCHANGED stranded
       ELSE GiveUp(a) /\ UNCHANGED queue
  /\ msg' = [msg EXCEPT ![a] = NoMsg]
  /\ held' = [held EXCEPT ![a] = 0]
  /\ UNCHANGED <<status, gq, alive, cbs, inits, taskVars, sem, posts, overrun>>

\* sem_acquire returns once the task has released the semaphore.
DeinitJoin(a) ==
  /\ cpc[a] = "wait"
  /\ sem[a] = "given"
  /\ sem' = [sem EXCEPT ![a] = "empty"]
  /\ Goto(a, "deinitEnd")
  /\ UNCHANGED <<status, gq, alive, queue, cbs, inits, taskVars, msg, held, posts, history>>

\* sem_acquire on NULL is undefined (an assertion of FreeRTOS, which may be
\* compiled out): it never returns, or it does so at any moment.
DeinitJoinNull(a) ==
  /\ cpc[a] = "wait"
  /\ sem[a] = "null"
  /\ GiveUp(a)
  /\ UNCHANGED <<status, gq, alive, queue, cbs, inits, taskVars, msg, held, sem, posts, overrun>>

\* The semaphore is deleted and the status is reset, whether or not the task
\* was stopped.
DeinitEnd(a) ==
  /\ cpc[a] = "deinitEnd"
  /\ sem' = [sem EXCEPT ![a] = "null"]
  /\ status' = "NOT_INIT"
  /\ Goto(a, "idle")
  /\ UNCHANGED <<gq, alive, queue, cbs, inits, taskVars, msg, held, posts, history>>
-------------------------------------------------------------------------------
(* wm_event_init                                                           *)

\* (mutant) the "init before" test is missing
InitCallUnchecked(a) ==
  /\ cpc[a] = "idle"
  /\ inits < MaxInits
  /\ Goto(a, "initSet")
  /\ UNCHANGED <<status, gq, alive, queue, cbs, inits, taskVars, msg, held, sem, posts, history>>

InitCall(a) ==
  /\ cpc[a] = "idle"
  /\ status = "NOT_INIT"
  /\ inits < MaxInits
  /\ Goto(a, "initSet")
  /\ UNCHANGED <<status, gq, alive, queue, cbs, inits, taskVars, msg, held, sem, posts, history>>

InitSet(a) ==
  /\ cpc[a] = "initSet"
  /\ status' = "INITED"
  /\ overrun' = (overrun \/ (stranded /\ TaskRuns))
  /\ Goto(a, "initQueue")
  /\ UNCHANGED <<gq, alive, queue, cbs, inits, taskVars, msg, held, sem, posts, stranded>>

\* A failed queue_create returns with g_ev_status and g_ev_queue as they are.
InitQueue(a) ==
  /\ cpc[a] = "initQueue"
  /\ \/ /\ inits < MaxInits
        /\ inits' = inits + 1
        /\ gq' = inits'
        /\ alive' = [alive EXCEPT ![inits'] = TRUE]
        /\ queue' = [queue EXCEPT ![inits'] = <<>>]
        /\ Goto(a, "initTask")
     \/ /\ MallocFails
        /\ Goto(a, "idle")
        /\ UNCHANGED <<inits, gq, alive, queue>>
  /\ UNCHANGED <<status, cbs, taskVars, msg, held, sem, posts, history>>

\* dl_list_init and task_create; if that fails the queue is deleted, and
\* g_ev_queue keeps pointing at it.
InitTask(a) ==
  /\ cpc[a] = "initTask"
  /\ cbs' = <<>>
  /\ stranded' = overrun
  /\ \/ /\ \E t \in Gens :
             /\ tpc[t] = "none"
             /\ \A u \in 1..(t - 1) : tpc[u] # "none"
             /\ tpc' = [tpc EXCEPT ![t] = "loop"]
        /\ Goto(a, "idle")
        /\ UNCHANGED alive
     \/ /\ MallocFails
        /\ alive' = [i \in Gens |-> alive[i] /\ i # gq]
        /\ Goto(a, "initFail")
        /\ UNCHANGED tpc
  /\ UNCHANGED <<status, gq, queue, inits, cur, pos, tq, wake, msg, held, sem, posts, overrun>>

InitFail(a) ==
  /\ cpc[a] = "initFail"
  /\ status' = "NOT_INIT"
  /\ Goto(a, "idle")
  /\ UNCHANGED <<gq, alive, queue, cbs, inits, taskVars, msg, held, sem, posts, history>>
-------------------------------------------------------------------------------
(* wm_event_task                                                           *)

Step(t, l) == tpc' = [tpc EXCEPT ![t] = l]

\* The loop condition, and the read of g_ev_queue for queue_receive.
TaskLoop(t) ==
  /\ tpc[t] = "loop"
  /\ IF status = "INITED" THEN Step(t, "recv") /\ tq' = [tq EXCEPT ![t] = gq]
     ELSE Step(t, "clear") /\ UNCHANGED tq
  /\ UNCHANGED <<status, gq, alive, queue, cbs, inits, cur, pos, wake, clientVars, posts, history>>

TaskReceive(t) ==
  /\ tpc[t] = "recv"
  /\ tq[t] # 0
  /\ queue[tq[t]] # <<>>
  /\ cur' = [cur EXCEPT ![t] = Head(queue[tq[t]])]
  /\ queue' = [queue EXCEPT ![tq[t]] = Tail(@)]
  /\ Step(t, "proc")
  /\ UNCHANGED <<status, gq, alive, cbs, inits, pos, tq, wake, clientVars, posts, history>>

\* wm_event_proc returns and the message is freed.
Done(t) == Step(t, "loop") /\ cur' = [cur EXCEPT ![t] = NoMsg]

\* (mutant) no look for an identical registration
ProcAddUnchecked(t) ==
  /\ tpc[t] = "proc"
  /\ cur[t].op = "ADD"
  /\ cbs' = Append(cbs, cur[t].entry)
  /\ Done(t)
  /\ UNCHANGED <<status, gq, alive, queue, inits, pos, tq, wake, clientVars, posts, history>>

\* MSG_ADD: an identical registration is not added again.
ProcAdd(t) ==
  /\ tpc[t] = "proc"
  /\ cur[t].op = "ADD"
  /\ LET e == cur[t].entry IN
       IF e \in ToSet(cbs) THEN UNCHANGED cbs
       ELSE \/ cbs' = Append(cbs, e)
            \/ MallocFails /\ UNCHANGED cbs
  /\ Done(t)
  /\ UNCHANGED <<status, gq, alive, queue, inits, pos, tq, wake, clientVars, posts, history>>

\* (mutant) looking for a registration that is not there never ends
ProcRemoveStuck(t) ==
  /\ tpc[t] = "proc"
  /\ cur[t].op = "REMOVE"
  /\ cur[t].entry \in ToSet(cbs)
  /\ cbs' = RemoveFirst(cbs, cur[t].entry)
  /\ Done(t)
  /\ UNCHANGED <<status, gq, alive, queue, inits, pos, tq, wake, clientVars, posts, history>>

\* MSG_REMOVE: the first identical registration is unlinked.
ProcRemove(t) ==
  /\ tpc[t] = "proc"
  /\ cur[t].op = "REMOVE"
  /\ cbs' = RemoveFirst(cbs, cur[t].entry)
  /\ Done(t)
  /\ UNCHANGED <<status, gq, alive, queue, inits, pos, tq, wake, clientVars, posts, history>>

\* (mutant) the semaphore in the EXIT message is not picked up
ProcExitForgets(t) ==
  /\ tpc[t] = "proc"
  /\ cur[t].op = "EXIT"
  /\ cbs' = <<>>
  /\ cur' = [cur EXCEPT ![t] = NoMsg]
  /\ Step(t, "clear")
  /\ UNCHANGED <<status, gq, alive, queue, inits, pos, tq, wake, clientVars, posts, history>>

\* MSG_EXIT: the list is emptied; the task leaves its loop with the semaphore.
ProcExit(t) ==
  /\ tpc[t] = "proc"
  /\ cur[t].op = "EXIT"
  /\ cbs' = <<>>
  /\ wake' = [wake EXCEPT ![t] = cur[t].sem]
  /\ cur' = [cur EXCEPT ![t] = NoMsg]
  /\ Step(t, "clear")
  /\ UNCHANGED <<status, gq, alive, queue, inits, pos, tq, clientVars, posts, history>>

\* (mutant) the walk resumes where the last one ended
ProcEventNoReset(t) ==
  /\ tpc[t] = "proc"
  /\ cur[t].op = "EVENT"
  /\ Step(t, "walk")
  /\ UNCHANGED <<status, gq, alive, queue, cbs, inits, cur, pos, tq, wake, clientVars, posts, history>>

\* MSG_EVENT: walk the list from its head.
ProcEvent(t) ==
  /\ tpc[t] = "proc"
  /\ cur[t].op = "EVENT"
  /\ pos' = [pos EXCEPT ![t] = 1]
  /\ Step(t, "walk")
  /\ UNCHANGED <<status, gq, alive, queue, cbs, inits, cur, tq, wake, clientVars, posts, history>>

Matches(e, x) ==
  /\ e.group = AnyGroup \/ e.group = x.group
  /\ e.ev = AnyType \/ e.ev = x.ev

Walk(t) ==
  /\ tpc[t] = "walk"
  /\ IF pos[t] > Len(cbs) THEN Done(t) /\ UNCHANGED pos
     ELSE IF Matches(cbs[pos[t]], cur[t].event)
          THEN Step(t, "callback") /\ UNCHANGED <<pos, cur>>
          ELSE pos' = [pos EXCEPT ![t] = @ + 1] /\ UNCHANGED <<tpc, cur>>
  /\ UNCHANGED <<status, gq, alive, queue, cbs, inits, tq, wake, clientVars, posts, history>>

\* The callback runs in the task and may post in turn.
CallbackPost(t) ==
  /\ tpc[t] = "callback"
  /\ posts < MaxPosts
  /\ posts' = posts + 1
  /\ gq # 0
  /\ \E q \in Storage(gq), m \in PostMsg : Accepts(q) /\ Enqueue(q, m)
  /\ UNCHANGED <<status, gq, alive, cbs, inits, taskVars, clientVars, history>>

CallbackReturn(t) ==
  /\ tpc[t] = "callback"
  /\ pos' = [pos EXCEPT ![t] = @ + 1]
  /\ Step(t, "walk")
  /\ UNCHANGED <<status, gq, alive, queue, cbs, inits, cur, tq, wake, clientVars, posts, history>>

\* tmp_queue = g_ev_queue
TaskSave(t) ==
  /\ tpc[t] = "clear"
  /\ tq' = [tq EXCEPT ![t] = gq]
  /\ Step(t, "null")
  /\ UNCHANGED <<status, gq, alive, queue, cbs, inits, cur, pos, wake, clientVars, posts, history>>

\* g_ev_queue = NULL
TaskClear(t) ==
  /\ tpc[t] = "null"
  /\ gq' = 0
  /\ Step(t, "drain")
  /\ UNCHANGED <<status, alive, queue, cbs, inits, cur, pos, tq, wake, clientVars, posts, history>>

\* Free what is still queued, message by message, then delete the queue.
TaskDrain(t) ==
  /\ tpc[t] = "drain"
  /\ tq[t] # 0
  /\ IF queue[tq[t]] # <<>>
     THEN queue' = [queue EXCEPT ![tq[t]] = Tail(@)] /\ UNCHANGED <<tpc, alive>>
     ELSE /\ alive' = [alive EXCEPT ![tq[t]] = FALSE]
          /\ Step(t, "release")
          /\ UNCHANGED queue
  /\ UNCHANGED <<status, gq, cbs, inits, cur, pos, tq, wake, clientVars, posts, history>>

\* Release the semaphore, if there is one, and delete the task.
TaskExit(t) ==
  /\ tpc[t] = "release"
  /\ sem' = [a \in Admins |-> IF a \in wake[t] THEN "given" ELSE sem[a]]
  /\ wake' = [wake EXCEPT ![t] = {}]
  /\ Step(t, "done")
  /\ UNCHANGED <<status, gq, alive, queue, cbs, inits, cur, pos, tq,
                 cpc, msg, held, posts, history>>
-------------------------------------------------------------------------------
Task(t) ==
  \/ TaskLoop(t) \/ TaskReceive(t) \/ ProcAdd(t) \/ ProcRemove(t) \/ ProcExit(t)
  \/ ProcEvent(t) \/ Walk(t) \/ CallbackPost(t) \/ CallbackReturn(t)
  \/ TaskSave(t) \/ TaskClear(t) \/ TaskDrain(t) \/ TaskExit(t)

Deinit(a) ==
  \/ DeinitCall(a) \/ ExitCall(a) \/ ExitSend(a)
  \/ DeinitJoin(a) \/ DeinitJoinNull(a) \/ DeinitEnd(a)

Reinit(a) ==
  InitCall(a) \/ InitSet(a) \/ InitQueue(a) \/ InitTask(a) \/ InitFail(a)

Next ==
  \/ \E c \in Posters : PostCall(c) \/ PostSend(c)
  \/ \E a \in Admins : Deinit(a) \/ Reinit(a)
  \/ \E t \in Gens : Task(t)

Spec == Init /\ [][Next]_vars

(* The scheduler runs the event task and lets a thread finish the API call *)
(* it is in; callbacks return; nobody is obliged to start a call or, in a  *)
(* callback, to post.  A NULL semaphore promises nothing.                  *)
TaskProgress(t) == Task(t) /\ ~CallbackPost(t)
FairSpec ==
  /\ Spec
  /\ \A t \in Gens : WF_vars(TaskProgress(t))
  /\ \A c \in Posters : WF_vars(PostSend(c))
  /\ \A a \in Admins :
       WF_vars(ExitCall(a) \/ ExitSend(a) \/ DeinitJoin(a) \/ (sem[a] # "null" /\ DeinitEnd(a)))
-------------------------------------------------------------------------------
(* Properties                                                              *)

TaskPCs == {"none", "loop", "recv", "proc", "walk", "callback", "clear", "null",
            "drain", "release", "done"}
ClientPCs == {"idle", "send", "exit", "exitSend", "wait", "deinitEnd",
              "initSet", "initQueue", "initTask", "initFail"}

\* Every variable keeps the type its declaration in wm_event.c gives it.
TypeOK ==
  /\ status \in {"NOT_INIT", "INITED"}
  /\ gq \in Gens \cup {0}
  /\ alive \in [Gens -> BOOLEAN]
  /\ queue \in [Gens -> Seq(Msg)]
  /\ \A i \in Gens : Len(queue[i]) <= Capacity
  /\ cbs \in Seq(Entries)
  /\ inits \in Gens
  /\ tpc \in [Gens -> TaskPCs]
  /\ cur \in [Gens -> Msg \cup {NoMsg}]
  /\ pos \in [Gens -> Nat \ {0}]
  /\ tq \in [Gens -> Gens \cup {0}]
  /\ wake \in [Gens -> SUBSET Admins]
  /\ cpc \in [Clients -> ClientPCs]
  /\ msg \in [Clients -> Msg \cup {NoMsg}]
  /\ held \in [Clients -> Gens \cup {0}]
  /\ sem \in [Admins -> {"null", "empty", "given"}]
  /\ posts \in Nat
  /\ stranded \in BOOLEAN /\ overrun \in BOOLEAN

\* wm_event_proc's MSG_ADD ("callback is exist,not add"): however adds and
\* removes of several threads interleave, no registration is in the list
\* twice, so that no event reaches a callback twice and one remove suffices.
CallbacksDistinct == IsInjective(cbs)

\* The event loop implements the event bus: current and due are read off the
\* task's position in wm_event_proc.
Serving == tpc[1] \in {"proc", "walk", "callback"}
NextCall == CASE tpc[1] = "proc" -> 1
              [] tpc[1] = "walk" -> pos[1]
              [] tpc[1] = "callback" -> pos[1] + 1
              [] OTHER -> 1
DueNow ==
  IF Serving /\ cur[1].op = "EVENT"
  THEN {e \in Entries : /\ Matches(e, cur[1].event)
                        /\ \E j \in NextCall..Len(cbs) : cbs[j] = e}
  ELSE {}
Bus == INSTANCE EventBus WITH
         subs <- ToSet(cbs), pending <- queue[1], current <- cur[1], due <- DueNow
ImplementsBus == Bus!Spec

\* A message accepted by the queue is eventually taken up by the event task,
\* whatever the callbacks post meanwhile (only EXIT may discard messages).
EveryMessageServed ==
  \A m \in PostMsg : (\E i \in 1..Len(queue[1]) : queue[1][i] = m) ~> (cur[1] = m)

Initialising(a) == cpc[a] \in {"initSet", "initQueue", "initTask", "initFail"}

Down == status = "NOT_INIT" /\ \A a \in Admins : ~Initialising(a)

\* event.rst "Calling this function stops the event processing task and releases
\* related resources": once wm_event_deinit has made the component
\* uninitialised, no event task runs, no callback is registered and no queue
\* exists, until wm_event_init is called again - unless a deinit had to give up
\* on the task: no memory for EXIT, no room for it, or no semaphore to wait on.
DownIsQuiet ==
  Down /\ ~stranded =>
    /\ \A t \in Gens : ~Running(t)
    /\ cbs = <<>>
    /\ \A i \in Gens : ~alive[i]

\* The callback list has one owner: no two event tasks run at once.  A deinit
\* that gave up on the task does not change that, nor does a wm_event_init
\* after that task has left by itself; only one before it does.
OneTask == ~overrun => \A t, u \in Gens : Running(t) /\ Running(u) => t = u

\* The list does not change under a walk, so that the successor saved by
\* dl_list_for_each_safe is still linked when the callback returns.
WalkIsStable ==
  [][~overrun /\ (\E t \in Gens : tpc[t] \in {"walk", "callback"}) => cbs' = cbs]_vars

\* wm_event_deinit returns: the semaphore it waits on is released.  (There is
\* none to release when sem_create failed; and where g_ev_queue points at a
\* queue a failed restart deleted, no task will read EXIT.)
DeinitReturns ==
  \A a \in Admins :
    (cpc[a] = "wait" /\ sem[a] # "null" /\ ~overrun /\ gq # 0 /\ alive[gq]) ~> (cpc[a] = "idle")
===============================================================================
