-------------------------- MODULE WmEventStopProofs ---------------------------
(***************************************************************************)
(* Stopping and restarting the event loop: proofs that one event task runs *)
(* at a time, that nothing is left when the component is down and that the *)
(* callback list is stable under a walk, for any number of threads that    *)
(* post, any queue capacity and any number of restarts by one thread.      *)
(*                                                                         *)
(* wm_event_deinit may give up on the task (its semaphore or its EXIT      *)
(* message cannot be allocated, or the queue is full).  The task then      *)
(* lingers, but still alone, until it leaves by itself - or until          *)
(* wm_event_init is called too early, which is where the promises end.     *)
(***************************************************************************)
EXTENDS WmEventProofs

-------------------------------------------------------------------------------
(* The inductive invariant.                                                *)

\* An EXIT message in a queue that exists.
ExitAt(i, k) == alive[i] /\ k \in 1..Len(queue[i]) /\ queue[i][k].op = "EXIT"
NoExits == \A i \in Gens, k \in Nat : ~ExitAt(i, k)

NoneRuns == \A t \in Gens : ~Running(t)
Gone == NoneRuns /\ \A i \in Gens : ~alive[i]
Cleared == cbs = <<>> \/ stranded

RunsAlone(t) == Running(t) /\ \A u \in Gens \ {t} : ~Running(u)
OneQueue == gq # 0 /\ alive[gq] /\ \A i \in Gens \ {gq} : ~alive[i]

\* Task t is in its loop, on the queue g_ev_queue points at.
Serves(t) ==
  /\ RunsAlone(t) /\ OneQueue
  /\ tpc[t] \in {"loop", "recv", "proc", "walk", "callback"}
  /\ tpc[t] = "recv" => tq[t] = gq

TakesExit(t) == tpc[t] = "proc" /\ cur[t].op = "EXIT"
ServesOn(t) == Serves(t) /\ ~TakesExit(t) /\ NoExits

\* Task t has left its loop and tears the component down.
Leaves(t) ==
  /\ RunsAlone(t)
  /\ \/ tpc[t] = "clear" /\ OneQueue
     \/ tpc[t] = "null" /\ OneQueue /\ tq[t] = gq
     \/ tpc[t] = "drain" /\ \A i \in Gens \ {tq[t]} : ~alive[i]
     \/ tpc[t] = "release" /\ \A i \in Gens : ~alive[i]

\* What runs at each point of admin a's calls while every deinit has waited
\* for the task.  Where a failed restart left no task at all, a may wait for
\* nothing.
Stop(a) ==
  /\ cpc[a] # "send"
  /\ cpc[a] \in {"exit", "exitSend", "wait", "initQueue", "initTask"} => status = "INITED"
  /\ cpc[a] \in {"exit", "exitSend"} => sem[a] # "given"
  /\ cpc[a] = "exitSend" => gq # 0 /\ held[a] = gq
  /\ cpc[a] \in {"idle", "exit", "exitSend"} =>
       Gone \/ (status = "INITED" /\ \E t \in Gens : ServesOn(t))
  /\ cpc[a] = "wait" =>
       Gone \/ (sem[a] # "given" /\ \E t \in Gens : Serves(t) \/ (Leaves(t) /\ Cleared))
  /\ cpc[a] \in {"deinitEnd", "initSet", "initQueue", "initFail"} => Gone
  /\ cpc[a] = "initTask" => NoneRuns /\ OneQueue /\ NoExits
  /\ Gone => Cleared

\* A deinit gave up on the task, which is still there, alone.
Lingers(a) ==
  /\ stranded
  /\ cpc[a] \in {"deinitEnd", "idle", "initSet"}
  /\ cpc[a] # "deinitEnd" => status = "NOT_INIT"
  /\ \E t \in Gens : Serves(t) \/ Leaves(t)

StopInv(a) ==
  /\ overrun => stranded
  /\ overrun \/ Stop(a) \/ Lingers(a)
-------------------------------------------------------------------------------
(* What the queue operations do to the EXIT messages.                      *)

\* A post is not an EXIT message.
LEMMA PostKeepsExits ==
  ASSUME TypeOK, NEW q, NEW m \in PostMsg, Enqueue(q, m), alive' = alive, NoExits
  PROVE  NoExits'
<1>1. m.op # "EXIT" /\ m \in Msg
  BY DEF PostMsg, Msg
<1>2. ASSUME NEW i \in Gens, NEW k \in Nat, ExitAt(i, k)' PROVE ExitAt(i, k)
  <2>1. CASE i # q
    BY <1>2, <2>1 DEF Enqueue, TypeOK, ExitAt
  <2>2. CASE i = q
    <3>1. queue'[i] = Append(queue[i], m)
      BY <2>2 DEF Enqueue, TypeOK
    <3>2. /\ queue[i] \in Seq(Msg) /\ Len(queue[i]) \in Nat
          /\ Len(queue'[i]) = Len(queue[i]) + 1
          /\ \A j \in 1..Len(queue[i]) : queue'[i][j] = queue[i][j]
          /\ queue'[i][Len(queue[i]) + 1] = m
      BY <1>1, <3>1, AppendProperties, LenProperties DEF TypeOK
    <3> QED BY <1>1, <1>2, <3>2 DEF ExitAt
  <2> QED BY <2>1, <2>2
<1> QED BY <1>2 DEF NoExits

\* Taking the first message of a queue: what was behind it moves up.
LEMMA TakeExits ==
  ASSUME TypeOK, NEW q \in Gens, alive[q], queue[q] # <<>>, alive' = alive,
         queue' = [queue EXCEPT ![q] = Tail(@)], NoExits
  PROVE  NoExits' /\ Head(queue[q]).op # "EXIT"
<1>1. /\ queue[q] \in Seq(Msg) /\ Len(queue[q]) \in Nat \ {0}
      /\ Len(Tail(queue[q])) = Len(queue[q]) - 1
      /\ \A j \in 1..Len(Tail(queue[q])) : Tail(queue[q])[j] = queue[q][j + 1]
      /\ Head(queue[q]) = queue[q][1]
  BY HeadTailProperties, LenProperties, EmptySeq DEF TypeOK
<1>2. ASSUME NEW i \in Gens, NEW k \in Nat, ExitAt(i, k)', i # q PROVE FALSE
  BY <1>2 DEF TypeOK, ExitAt, NoExits
<1>3. ASSUME NEW k \in Nat, ExitAt(q, k)' PROVE FALSE
  <2>1. queue'[q] = Tail(queue[q])
    BY DEF TypeOK
  <2>2. k \in 1..Len(Tail(queue[q])) /\ Tail(queue[q])[k].op = "EXIT"
    BY <1>3, <2>1 DEF ExitAt
  <2>3. k + 1 \in 1..Len(queue[q]) /\ k + 1 \in Nat /\ Tail(queue[q])[k] = queue[q][k + 1]
    BY <1>1, <2>2
  <2> QED BY <2>2, <2>3 DEF ExitAt, NoExits
<1>4. Head(queue[q]).op # "EXIT"
  <2>1. 1 \in Nat /\ 1 \in 1..Len(queue[q])
    BY <1>1
  <2> QED BY <1>1, <2>1 DEF ExitAt, NoExits
<1> QED BY <1>2, <1>3, <1>4 DEF NoExits
-------------------------------------------------------------------------------
(* The steps of the event task.                                            *)

\* Only a running task takes a step.
LEMMA StepRuns ==
  ASSUME NEW t \in Gens, Task(t)
  PROVE  Running(t)
BY DEF Running, Task, TaskLoop, TaskReceive, ProcAdd, ProcRemove, ProcExit, ProcEvent,
       Walk, CallbackPost, CallbackReturn, TaskSave, TaskClear, TaskDrain, TaskExit

\* A task in its loop touches neither g_ev_queue nor the clients.  It leaves
\* the loop when it handles EXIT, which empties the list, or sees the status
\* reset.
LEMMA ServesStep ==
  ASSUME IInv, NEW t \in Gens, Serves(t), Task(t)
  PROVE  /\ UNCHANGED <<status, gq, alive, clientVars, history>>
         /\ Serves(t)' \/ Leaves(t)'
         /\ status = "INITED" /\ ~Serves(t)' => Cleared'
         /\ status = "INITED" /\ ServesOn(t) => ServesOn(t)'
<1> USE DEF IInv
<1>1. TypeOK /\ gq \in Gens /\ alive[gq] /\ \A u \in Gens : u # t => ~Running(u)
  BY DEF TypeOK, Serves, OneQueue, RunsAlone
<1>2. ASSUME NEW l \in {"loop", "recv", "proc", "walk", "callback"}, Step(t, l),
             UNCHANGED <<gq, alive>>, l = "recv" => tq'[t] = gq
      PROVE  Serves(t)' /\ tpc'[t] = l
  BY <1>1, <1>2 DEF Serves, RunsAlone, Running, OneQueue, Step, TypeOK
<1>3. ASSUME Step(t, "clear"), UNCHANGED <<gq, alive>> PROVE Leaves(t)'
  BY <1>1, <1>3 DEF Serves, Leaves, RunsAlone, Running, OneQueue, Step, TypeOK
<1>4. UNCHANGED <<queue, alive>> => (NoExits => NoExits')
  BY DEF NoExits, ExitAt
<1>5. CASE TaskLoop(t)
  <2>1. /\ UNCHANGED <<status, gq, alive, queue, clientVars, history>>
        /\ tpc[t] = "loop"
        /\ IF status = "INITED" THEN Step(t, "recv") /\ tq' = [tq EXCEPT ![t] = gq]
           ELSE Step(t, "clear")
    BY <1>5 DEF TaskLoop
  <2>2. CASE status = "INITED"
    <3>1. tq'[t] = gq
      BY <2>1, <2>2 DEF TypeOK
    <3>2. Serves(t)' /\ tpc'[t] = "recv"
      BY <1>2, <2>1, <2>2, <3>1
    <3> QED BY <1>4, <2>1, <3>2 DEF TakesExit, ServesOn
  <2>3. CASE status # "INITED"
    BY <1>3, <2>1, <2>3
  <2> QED BY <2>2, <2>3
<1>6. CASE TaskReceive(t)
  <2>1. /\ tq[t] = gq /\ queue[gq] # <<>>
        /\ cur' = [cur EXCEPT ![t] = Head(queue[gq])]
        /\ queue' = [queue EXCEPT ![gq] = Tail(@)]
        /\ Step(t, "proc") /\ UNCHANGED <<status, gq, alive, tq, clientVars, history>>
    BY <1>6 DEF TaskReceive, Serves
  <2>2. Serves(t)' /\ cur'[t] = Head(queue[gq])
    BY <1>2, <2>1 DEF TypeOK
  <2>3. NoExits => NoExits' /\ Head(queue[gq]).op # "EXIT"
    BY <1>1, <2>1, TakeExits
  <2> QED BY <2>1, <2>2, <2>3 DEF TakesExit, ServesOn
<1>7. CASE ProcAdd(t) \/ ProcRemove(t)
  <2>1. /\ Step(t, "loop") /\ UNCHANGED <<status, gq, alive, queue, tq, clientVars, history>>
    BY <1>7 DEF ProcAdd, ProcRemove, Done
  <2>2. Serves(t)' /\ tpc'[t] = "loop"
    BY <1>2, <2>1
  <2> QED BY <1>4, <2>1, <2>2 DEF TakesExit, ServesOn
<1>8. CASE ProcEvent(t)
  <2>1. Step(t, "walk") /\ UNCHANGED <<status, gq, alive, queue, tq, clientVars, history>>
    BY <1>8 DEF ProcEvent
  <2>2. Serves(t)' /\ tpc'[t] = "walk"
    BY <1>2, <2>1
  <2> QED BY <1>4, <2>1, <2>2 DEF TakesExit, ServesOn
<1>9. CASE Walk(t) \/ CallbackReturn(t)
  <2>1. /\ tpc[t] \in {"walk", "callback"}
        /\ Step(t, "loop") \/ Step(t, "callback") \/ Step(t, "walk") \/ UNCHANGED tpc
        /\ UNCHANGED <<status, gq, alive, queue, tq, clientVars, history>>
    BY <1>9 DEF Walk, CallbackReturn, Done
  <2>2. Serves(t)' /\ tpc'[t] # "proc"
    <3>1. CASE UNCHANGED tpc
      BY <1>1, <2>1, <3>1 DEF Serves, RunsAlone, Running, OneQueue
    <3> QED BY <1>2, <2>1, <3>1
  <2> QED BY <1>4, <2>1, <2>2 DEF TakesExit, ServesOn
<1>10. CASE CallbackPost(t)
  <2>1. /\ tpc[t] = "callback" /\ UNCHANGED <<status, gq, alive, tpc, tq, clientVars, history>>
        /\ \E q \in Storage(gq), m \in PostMsg : Enqueue(q, m)
    BY <1>10 DEF CallbackPost, taskVars
  <2>2. Serves(t)'
    BY <1>1, <2>1 DEF Serves, RunsAlone, Running, OneQueue
  <2>3. NoExits => NoExits'
    BY <1>1, <2>1, PostKeepsExits
  <2> QED BY <2>1, <2>2, <2>3 DEF TakesExit, ServesOn
<1>11. CASE ProcExit(t)
  <2>1. /\ Step(t, "clear") /\ TakesExit(t) /\ cbs' = <<>>
        /\ UNCHANGED <<status, gq, alive, clientVars, history>>
    BY <1>11 DEF ProcExit, TakesExit
  <2> QED BY <1>3, <2>1 DEF Cleared, ServesOn
<1>12. ~(TaskSave(t) \/ TaskClear(t) \/ TaskDrain(t) \/ TaskExit(t))
  BY DEF TaskSave, TaskClear, TaskDrain, TaskExit, Serves
<1> QED BY <1>5, <1>6, <1>7, <1>8, <1>9, <1>10, <1>11, <1>12 DEF Task

\* A task on its way out deletes its queue and is gone; no task and no queue
\* is left then.
LEMMA LeavesStep ==
  ASSUME IInv, NEW t \in Gens, Leaves(t), Task(t)
  PROVE  /\ UNCHANGED <<status, cpc, msg, held, cbs, history>>
         /\ (Leaves(t)' /\ sem' = sem) \/ Gone'
<1> USE DEF IInv
<1>1. TypeOK /\ tpc[t] \in {"clear", "null", "drain", "release"}
  BY DEF Leaves
<1>2. ASSUME NEW l \in {"null", "drain", "release"}, Step(t, l)
      PROVE  RunsAlone(t)' /\ tpc'[t] = l
  BY <1>1, <1>2 DEF Leaves, RunsAlone, Running, Step, TypeOK
<1>3. CASE TaskSave(t)
  <2>1. /\ tpc[t] = "clear" /\ Step(t, "null") /\ tq'[t] = gq
        /\ UNCHANGED <<status, gq, alive, cbs, clientVars, history>>
    BY <1>1, <1>3 DEF TaskSave, TypeOK
  <2>2. RunsAlone(t)' /\ tpc'[t] = "null"
    BY <1>2, <2>1
  <2>3. OneQueue' /\ tq'[t] = gq'
    BY <2>1 DEF Leaves, OneQueue
  <2> QED BY <2>1, <2>2, <2>3 DEF Leaves, clientVars
<1>4. CASE TaskClear(t)
  <2>1. /\ tpc[t] = "null" /\ Step(t, "drain")
        /\ UNCHANGED <<status, alive, cbs, tq, clientVars, history>>
    BY <1>4 DEF TaskClear
  <2>2. RunsAlone(t)' /\ tpc'[t] = "drain"
    BY <1>2, <2>1
  <2>3. \A i \in Gens \ {tq'[t]} : ~alive'[i]
    BY <2>1 DEF Leaves, OneQueue
  <2> QED BY <2>1, <2>2, <2>3 DEF Leaves, clientVars
<1>5. CASE TaskDrain(t) /\ queue[tq[t]] # <<>>
  <2>1. /\ tpc[t] = "drain" /\ UNCHANGED <<status, alive, cbs, tpc, tq, clientVars, history>>
    BY <1>5 DEF TaskDrain
  <2>2. Leaves(t)'
    BY <2>1 DEF Leaves, RunsAlone, Running
  <2> QED BY <2>1, <2>2 DEF clientVars
<1>6. CASE TaskDrain(t) /\ queue[tq[t]] = <<>>
  <2>1. /\ tpc[t] = "drain" /\ alive' = [alive EXCEPT ![tq[t]] = FALSE]
        /\ Step(t, "release") /\ UNCHANGED <<status, cbs, clientVars, history>>
    BY <1>6 DEF TaskDrain
  <2>2. RunsAlone(t)' /\ tpc'[t] = "release"
    BY <1>2, <2>1
  <2>3. \A i \in Gens : ~alive'[i]
    BY <1>1, <2>1 DEF Leaves, TypeOK
  <2> QED BY <2>1, <2>2, <2>3 DEF Leaves, clientVars
<1>7. CASE TaskExit(t)
  <2>1. /\ tpc[t] = "release" /\ tpc' = [tpc EXCEPT ![t] = "done"]
        /\ UNCHANGED <<status, alive, cbs, cpc, msg, held, history>>
    BY <1>7 DEF TaskExit, Step
  <2>2. NoneRuns'
    BY <1>1, <2>1 DEF NoneRuns, Running, Leaves, RunsAlone, TypeOK
  <2>3. Gone'
    BY <2>1, <2>2 DEF Gone, Leaves
  <2> QED BY <2>1, <2>3
<1>8. TaskSave(t) \/ TaskClear(t) \/ TaskDrain(t) \/ TaskExit(t)
  BY <1>1 DEF Task, TaskLoop, TaskReceive, ProcAdd, ProcRemove, ProcExit, ProcEvent,
              Walk, CallbackPost, CallbackReturn
<1> QED BY <1>3, <1>4, <1>5, <1>6, <1>7, <1>8

LEMMA StopTask ==
  ASSUME IInv, NEW a, Admins = {a}, Stop(a), NEW t \in Gens, Task(t)
  PROVE  Stop(a)' /\ history' = history
<1>1. Running(t) /\ ~Gone /\ ~NoneRuns
  BY StepRuns DEF Gone, NoneRuns
<1>2. /\ cpc[a] \in {"idle", "exit", "exitSend", "wait"}
      /\ status = "INITED"
  <2>1. cpc[a] \in ClientPCs
    BY DEF IInv, TypeOK, Clients
  <2> QED BY <1>1, <2>1 DEF Stop, ClientPCs
<1>3. CASE cpc[a] # "wait"
  <2>1. ServesOn(t)
    <3>1. PICK u \in Gens : ServesOn(u)
      BY <1>1, <1>2, <1>3 DEF Stop
    <3>2. u = t
      BY <1>1, <3>1 DEF ServesOn, Serves, RunsAlone
    <3> QED BY <3>1, <3>2
  <2>2. /\ UNCHANGED <<status, gq, alive, clientVars, history>> /\ ServesOn(t)'
    BY <1>2, <2>1, ServesStep DEF ServesOn
  <2>3. ~Gone'
    BY <2>2 DEF ServesOn, Serves, OneQueue, RunsAlone, Gone, NoneRuns
  <2> QED BY <1>2, <1>3, <2>2, <2>3 DEF Stop, clientVars
<1>4. CASE cpc[a] = "wait"
  <2>1. sem[a] # "given" /\ (Serves(t) \/ (Leaves(t) /\ Cleared))
    <3>1. PICK u \in Gens : Serves(u) \/ (Leaves(u) /\ Cleared)
      BY <1>1, <1>4 DEF Stop
    <3>2. u = t
      BY <1>1, <3>1 DEF Serves, Leaves, RunsAlone
    <3> QED BY <1>1, <1>4, <3>1, <3>2 DEF Stop
  <2>2. CASE Serves(t)
    <3>1. /\ UNCHANGED <<status, gq, alive, clientVars, history>>
          /\ Serves(t)' \/ (Leaves(t)' /\ Cleared')
      BY <1>2, <2>2, ServesStep
    <3>2. ~Gone'
      BY <3>1 DEF Serves, Leaves, RunsAlone, Gone, NoneRuns
    <3> QED BY <1>2, <1>4, <2>1, <3>1, <3>2 DEF Stop, clientVars
  <2>3. CASE Leaves(t) /\ Cleared
    <3>1. /\ UNCHANGED <<status, cpc, msg, held, cbs, history>>
          /\ (Leaves(t)' /\ sem' = sem) \/ Gone'
      BY <2>3, LeavesStep
    <3>2. Cleared'
      BY <2>3, <3>1 DEF Cleared, history
    <3> QED BY <1>2, <1>4, <2>1, <3>1, <3>2 DEF Stop
  <2> QED BY <2>1, <2>2, <2>3
<1> QED BY <1>3, <1>4

\* A task that was given up goes on serving, or leaves.
LEMMA LingersTask ==
  ASSUME IInv, NEW a, Admins = {a}, Lingers(a), NEW t \in Gens, Task(t)
  PROVE  (Lingers(a)' \/ Stop(a)') /\ history' = history
<1>1. Serves(t) \/ Leaves(t)
  <2>1. PICK u \in Gens : Serves(u) \/ Leaves(u)
    BY DEF Lingers
  <2>2. u = t
    BY <2>1, StepRuns DEF Serves, Leaves, RunsAlone
  <2> QED BY <2>1, <2>2
<1>2. /\ UNCHANGED <<status, cpc, held, history>>
      /\ Serves(t)' \/ Leaves(t)' \/ Gone'
  BY <1>1, ServesStep, LeavesStep DEF clientVars
<1>3. stranded'
  BY <1>2 DEF Lingers, history
<1>4. CASE Serves(t)' \/ Leaves(t)'
  BY <1>2, <1>3, <1>4 DEF Lingers
<1>5. CASE Gone'
  BY <1>2, <1>3, <1>5 DEF Lingers, Stop, Cleared
<1> QED BY <1>2, <1>4, <1>5
-------------------------------------------------------------------------------
(* The steps of the threads.                                               *)

\* Posters change no more than a queue, and there no EXIT message.
LEMMA StopPoster ==
  ASSUME IInv, NEW a, Admins = {a}, NEW c \in Posters, PostCall(c) \/ PostSend(c)
  PROVE  (Stop(a) => Stop(a)') /\ (Lingers(a) => Lingers(a)') /\ history' = history
<1> USE DEF IInv
<1>0. c \in Clients /\ c # a /\ a \in Clients
  BY ConstantsAssumption DEF Clients
<1>1. /\ UNCHANGED <<status, gq, alive, cbs, taskVars, sem, history>>
      /\ cpc'[a] = cpc[a] /\ held'[a] = held[a]
  BY <1>0 DEF PostCall, PostSend, Goto, TypeOK
<1>2. NoExits => NoExits'
  <2>1. CASE UNCHANGED queue
    BY <1>1, <2>1 DEF NoExits, ExitAt
  <2>2. CASE PostSend(c) /\ ~ UNCHANGED queue
    <3>1. msg[c] \in PostMsg
      BY <1>0, <2>2 DEF PostSend, HeldMsgOK
    <3>2. PICK q \in Storage(held[c]) : Enqueue(q, msg[c])
      BY <2>2 DEF PostSend
    <3> QED BY <1>1, <3>1, <3>2, PostKeepsExits
  <2> QED BY <2>1, <2>2 DEF PostCall
<1>3. \A t \in Gens : /\ Serves(t) => Serves(t)'
                      /\ TakesExit(t)' <=> TakesExit(t)
                      /\ Leaves(t) => Leaves(t)'
  BY <1>1 DEF Serves, TakesExit, Leaves, RunsAlone, Running, OneQueue, taskVars
<1>4. \A t \in Gens : ServesOn(t) => ServesOn(t)'
  BY <1>2, <1>3 DEF ServesOn
<1>5. /\ Gone' <=> Gone
      /\ (NoneRuns => NoneRuns') /\ (OneQueue => OneQueue')
      /\ Cleared => Cleared'
  BY <1>1 DEF Gone, NoneRuns, Running, OneQueue, Cleared, taskVars, history
<1>6. Stop(a) => Stop(a)'
  BY <1>1, <1>2, <1>3, <1>4, <1>5 DEF Stop
<1>7. Lingers(a) => Lingers(a)'
  BY <1>1, <1>3 DEF Lingers, history
<1> QED BY <1>1, <1>6, <1>7

\* A deinit that gives up: nothing runs, or the task lingers.
LEMMA GiveUpStep ==
  ASSUME IInv, NEW a, Admins = {a}, Stop(a), cpc[a] \in {"exit", "exitSend", "wait"}, GiveUp(a),
         UNCHANGED <<status, gq, alive, cbs, taskVars, overrun>>
  PROVE  Stop(a)' \/ Lingers(a)'
<1>0. a \in Clients
  BY DEF Clients
<1>1. cpc'[a] = "deinitEnd"
  BY <1>0 DEF GiveUp, Goto, IInv, TypeOK
<1>2. /\ \A t \in Gens : (Serves(t) => Serves(t)') /\ (Leaves(t) => Leaves(t)')
      /\ Gone => Gone'
      /\ Cleared => Cleared'
  BY DEF Serves, Leaves, RunsAlone, Running, OneQueue, Gone, NoneRuns, Cleared, taskVars, GiveUp
<1>3. CASE Gone
  BY <1>1, <1>2, <1>3 DEF Stop
<1>4. CASE ~Gone
  <2>1. PICK t \in Gens : Serves(t) \/ Leaves(t)
    BY <1>4 DEF Stop, ServesOn
  <2>2. stranded'
    BY <2>1 DEF Serves, Leaves, RunsAlone, GiveUp, TaskRuns
  <2> QED BY <1>1, <1>2, <2>1, <2>2 DEF Lingers
<1> QED BY <1>3, <1>4

LEMMA StopDeinit ==
  ASSUME IInv, NEW a, Admins = {a}, Stop(a), Deinit(a)
  PROVE  (Stop(a)' \/ Lingers(a)') /\ overrun' = overrun
<1> USE DEF IInv
<1>0. a \in Clients /\ a \in Admins
  BY DEF Clients
<1>1. /\ UNCHANGED <<gq, alive, cbs, taskVars, overrun>>
      /\ stranded => stranded'
      /\ \A t \in Gens : /\ Serves(t)' <=> Serves(t)
                         /\ TakesExit(t)' <=> TakesExit(t)
      /\ Gone' <=> Gone
  <2>1. UNCHANGED <<gq, alive, cbs, taskVars, overrun>> /\ (stranded => stranded')
    <3>1. UNCHANGED <<gq, alive, cbs, taskVars, overrun>>
      BY DEF Deinit, DeinitCall, ExitCall, ExitSend, DeinitJoin, DeinitJoinNull, DeinitEnd, history
    <3>2. UNCHANGED stranded \/ GiveUp(a)
      BY DEF Deinit, DeinitCall, ExitCall, ExitSend, DeinitJoin, DeinitJoinNull, DeinitEnd, history
    <3> QED BY <3>1, <3>2 DEF GiveUp, TypeOK
  <2> QED BY <2>1 DEF Serves, TakesExit, RunsAlone, Running, OneQueue, Gone, NoneRuns, taskVars
<1>2. /\ UNCHANGED queue => (NoExits => NoExits')
      /\ Cleared => Cleared'
  BY <1>1 DEF NoExits, ExitAt, Cleared
<1>3. CASE DeinitCall(a)
  <2>1. /\ cpc[a] = "idle" /\ cpc'[a] = "exit" /\ sem'[a] # "given"
        /\ status = "INITED" /\ UNCHANGED <<status, queue>>
    BY <1>0, <1>3 DEF DeinitCall, Goto, TypeOK
  <2> QED BY <1>1, <1>2, <2>1 DEF Stop, ServesOn
<1>4. CASE ExitCall(a)
  <2>1. /\ cpc[a] = "exit" /\ UNCHANGED <<status, queue, sem>>
    BY <1>4 DEF ExitCall
  <2>2. CASE GiveUp(a)
    BY <1>1, <2>1, <2>2, GiveUpStep
  <2>3. CASE ~GiveUp(a)
    <3>1. gq # 0 /\ cpc'[a] = "exitSend" /\ held'[a] = gq
      BY <1>0, <1>4, <2>3 DEF ExitCall, Goto, TypeOK
    <3> QED BY <1>1, <1>2, <2>1, <3>1 DEF Stop, ServesOn
  <2> QED BY <1>1, <2>2, <2>3
<1>5. CASE ExitSend(a)
  <2>1. /\ cpc[a] = "exitSend" /\ status = "INITED" /\ sem[a] # "given" /\ UNCHANGED <<status, sem>>
    BY <1>5 DEF ExitSend, Stop
  <2>2. CASE GiveUp(a)
    BY <1>1, <2>1, <2>2, GiveUpStep
  <2>3. CASE ~GiveUp(a)
    <3>1. cpc'[a] = "wait"
      BY <1>0, <1>5, <2>3 DEF ExitSend, Goto, TypeOK
    <3>2. Gone \/ \E t \in Gens : Serves(t)
      BY <2>1 DEF Stop, ServesOn
    <3> QED BY <1>1, <1>2, <2>1, <3>1, <3>2 DEF Stop
  <2> QED BY <1>1, <2>2, <2>3
<1>6. CASE DeinitJoin(a)
  <2>1. /\ cpc[a] = "wait" /\ cpc'[a] = "deinitEnd" /\ sem[a] = "given" /\ UNCHANGED status
    BY <1>0, <1>6 DEF DeinitJoin, Goto, TypeOK
  <2>2. Gone
    BY <2>1 DEF Stop
  <2> QED BY <1>1, <1>2, <2>1, <2>2 DEF Stop
<1>7. CASE DeinitJoinNull(a)
  <2>1. cpc[a] = "wait" /\ GiveUp(a) /\ UNCHANGED status
    BY <1>7 DEF DeinitJoinNull
  <2> QED BY <1>1, <2>1, GiveUpStep
<1>8. CASE DeinitEnd(a)
  <2>1. /\ cpc[a] = "deinitEnd" /\ cpc'[a] = "idle"
    BY <1>0, <1>8 DEF DeinitEnd, Goto, TypeOK
  <2>2. Gone
    BY <2>1 DEF Stop
  <2> QED BY <1>1, <1>2, <2>1, <2>2 DEF Stop
<1> QED BY <1>3, <1>4, <1>5, <1>6, <1>7, <1>8 DEF Deinit

\* wm_event_init, whose queue_create and task_create may fail.
LEMMA StopReinit ==
  ASSUME IInv, NEW a, Admins = {a}, Stop(a), ~overrun, Reinit(a)
  PROVE  Stop(a)' /\ ~overrun'
<1> USE DEF IInv
<1>0. a \in Clients /\ a \in Admins
  BY DEF Clients
<1>1. NoneRuns /\ UNCHANGED <<held, sem>>
  <2>1. cpc[a] \in {"idle", "initSet", "initQueue", "initTask", "initFail"} /\ UNCHANGED <<held, sem>>
    BY DEF Reinit, InitCall, InitSet, InitQueue, InitTask, InitFail
  <2>2. NoneRuns
    BY <2>1 DEF Stop, Gone, Reinit, InitCall, InitSet, InitQueue, InitTask, InitFail
  <2> QED BY <2>1, <2>2
<1>2. UNCHANGED <<alive, tpc>> => (Gone' <=> Gone)
  BY DEF Gone, NoneRuns, Running
<1>3. CASE InitCall(a)
  <2>1. /\ cpc[a] = "idle" /\ status = "NOT_INIT" /\ cpc'[a] = "initSet"
        /\ UNCHANGED <<alive, cbs, tpc, history>>
    BY <1>0, <1>3 DEF InitCall, Goto, TypeOK, taskVars
  <2>2. Gone /\ Cleared
    BY <2>1 DEF Stop
  <2> QED BY <1>1, <1>2, <2>1, <2>2 DEF Stop, Cleared, history
<1>4. CASE InitSet(a)
  <2>1. /\ cpc[a] = "initSet" /\ status' = "INITED" /\ cpc'[a] = "initQueue"
        /\ UNCHANGED <<alive, cbs, tpc, stranded>>
    BY <1>0, <1>4 DEF InitSet, Goto, TypeOK, taskVars
  <2>2. Gone /\ Cleared /\ ~overrun'
    BY <1>1, <1>4, <2>1 DEF Stop, InitSet, TaskRuns, NoneRuns
  <2> QED BY <1>1, <1>2, <2>1, <2>2 DEF Stop, Cleared
<1>5. CASE InitQueue(a)
  <2>1. /\ cpc[a] = "initQueue" /\ status = "INITED" /\ Gone /\ Cleared
        /\ UNCHANGED <<status, cbs, tpc, history>>
    BY <1>0, <1>5 DEF InitQueue, Stop, taskVars
  <2>2. CASE cpc'[a] = "idle" /\ UNCHANGED alive
    BY <1>1, <1>2, <2>1, <2>2 DEF Stop, Cleared, history
  <2>3. CASE /\ cpc'[a] = "initTask" /\ gq' = inits + 1 /\ inits < MaxInits
             /\ alive' = [alive EXCEPT ![inits + 1] = TRUE]
             /\ queue' = [queue EXCEPT ![inits + 1] = <<>>]
    <3>1. gq' \in Gens /\ gq' # 0
      BY <2>3, ConstantsAssumption DEF TypeOK, Gens
    <3>2. OneQueue'
      BY <2>1, <2>3, <3>1 DEF OneQueue, Gone, TypeOK
    <3>3. NoneRuns'
      BY <2>1 DEF Gone, NoneRuns, Running
    <3>4. queue'[gq'] = <<>> /\ Len(<<>>) = 0
      BY <2>3, <3>1, EmptySeq DEF TypeOK
    <3>5. NoExits'
      BY <3>2, <3>4 DEF OneQueue, NoExits, ExitAt
    <3>6. ~Gone'
      BY <3>1, <3>2 DEF OneQueue, Gone
    <3> QED BY <1>1, <2>1, <2>3, <3>2, <3>3, <3>5, <3>6 DEF Stop, history
  <2> QED BY <1>0, <1>5, <2>2, <2>3 DEF InitQueue, Goto, TypeOK
<1>6. CASE InitTask(a)
  <2>1. cpc[a] = "initTask" /\ status = "INITED" /\ OneQueue /\ NoExits /\ cbs' = <<>>
        /\ UNCHANGED <<status, gq, queue, overrun>>
    BY <1>0, <1>6 DEF InitTask, Stop
  <2>2. CASE UNCHANGED alive /\ cpc'[a] = "idle"
             /\ \E t \in Gens : tpc' = [tpc EXCEPT ![t] = "loop"]
    <3>1. PICK t \in Gens : tpc' = [tpc EXCEPT ![t] = "loop"]
      BY <2>2
    <3>2. tpc'[t] = "loop" /\ \A u \in Gens \ {t} : tpc'[u] = tpc[u]
      BY <3>1 DEF TypeOK
    <3>3. RunsAlone(t)' /\ OneQueue' /\ NoExits'
      BY <1>1, <2>1, <2>2, <3>2 DEF RunsAlone, Running, NoneRuns, OneQueue, NoExits, ExitAt
    <3>4. ServesOn(t)'
      BY <3>2, <3>3 DEF ServesOn, Serves, TakesExit
    <3> QED BY <1>1, <2>1, <2>2, <3>4 DEF Stop, Cleared
  <2>3. CASE /\ alive' = [i \in Gens |-> alive[i] /\ i # gq]
             /\ cpc'[a] = "initFail" /\ UNCHANGED tpc
    <3>1. Gone'
      BY <1>1, <2>1, <2>3 DEF Gone, NoneRuns, Running, OneQueue
    <3> QED BY <1>1, <2>1, <2>3, <3>1 DEF Stop, Cleared
  <2> QED BY <1>0, <1>6, <2>2, <2>3 DEF InitTask, Goto, TypeOK
<1>7. CASE InitFail(a)
  <2>1. cpc[a] = "initFail" /\ cpc'[a] = "idle" /\ UNCHANGED <<alive, cbs, tpc, history>>
    BY <1>0, <1>7 DEF InitFail, Goto, TypeOK, taskVars
  <2>2. Gone /\ Cleared
    BY <2>1 DEF Stop
  <2> QED BY <1>1, <1>2, <2>1, <2>2 DEF Stop, Cleared, history
<1> QED BY <1>3, <1>4, <1>5, <1>6, <1>7 DEF Reinit

\* While a task lingers, admin a can only finish its deinit and call init; as
\* soon as init touches shared state the component is overrun.
LEMMA LingersAdmin ==
  ASSUME IInv, NEW a, Admins = {a}, Lingers(a), ~overrun, Deinit(a) \/ Reinit(a)
  PROVE  stranded' /\ (Lingers(a)' \/ overrun')
<1>0. a \in Clients
  BY DEF Clients
<1>1. CASE DeinitEnd(a) \/ InitCall(a)
  <2>1. /\ cpc'[a] \in {"idle", "initSet"} /\ status' = "NOT_INIT"
        /\ UNCHANGED <<gq, alive, taskVars, history>>
    BY <1>0, <1>1 DEF DeinitEnd, InitCall, Lingers, Goto, IInv, TypeOK
  <2>2. \A t \in Gens : (Serves(t) => Serves(t)') /\ (Leaves(t) => Leaves(t)')
    BY <2>1 DEF Serves, Leaves, RunsAlone, Running, OneQueue, taskVars
  <2> QED BY <2>1, <2>2 DEF Lingers, history
<1>2. CASE InitSet(a)
  <2>1. TaskRuns
    BY DEF Lingers, Serves, Leaves, RunsAlone, TaskRuns
  <2> QED BY <1>2, <2>1 DEF InitSet, Lingers
<1>3. ~(DeinitCall(a) \/ ExitCall(a) \/ ExitSend(a) \/ DeinitJoin(a) \/ DeinitJoinNull(a)
        \/ InitQueue(a) \/ InitTask(a) \/ InitFail(a))
  BY DEF Lingers, DeinitCall, ExitCall, ExitSend, DeinitJoin, DeinitJoinNull, InitQueue, InitTask,
         InitFail
<1> QED BY <1>1, <1>2, <1>3 DEF Deinit, Reinit
-------------------------------------------------------------------------------
(* One task, quiet when down, a stable list.                               *)

LEMMA InitStop ==
  ASSUME NEW a, Admins = {a}, Init
  PROVE  StopInv(a)
<1>1. a \in Clients /\ a \in Admins
  BY DEF Clients
<1>2. NoExits
  BY EmptySeq DEF Init, NoExits, ExitAt
<1>3. RunsAlone(1) /\ OneQueue
  <2>1. RunsAlone(1)
    BY FirstGen DEF Init, RunsAlone, Running
  <2>2. \A i \in Gens : alive[i] <=> i = 1
    BY Zenon DEF Init
  <2> QED BY <2>1, <2>2, FirstGen DEF Init, OneQueue
<1>4. ServesOn(1)
  BY <1>2, <1>3, FirstGen DEF Init, ServesOn, Serves, TakesExit
<1>5. Cleared
  BY DEF Init, Cleared
<1>6. cpc[a] = "idle" /\ status = "INITED" /\ ~overrun
  BY <1>1 DEF Init
<1> QED BY <1>4, <1>5, <1>6, FirstGen DEF Stop, StopInv

\* Once overrun, for good: nothing clears stranded then.
LEMMA OverrunStays ==
  ASSUME overrun, stranded, [Next]_vars
  PROVE  overrun' /\ stranded'
<1>1. ASSUME NEW c \in Posters, PostCall(c) \/ PostSend(c) PROVE overrun' /\ stranded'
  BY <1>1 DEF PostCall, PostSend, history
<1>2. ASSUME NEW b \in Admins, Deinit(b) PROVE overrun' /\ stranded'
  BY <1>2 DEF Deinit, DeinitCall, ExitCall, ExitSend, DeinitJoin, DeinitJoinNull, DeinitEnd, GiveUp, history
<1>3. ASSUME NEW b \in Admins, Reinit(b) PROVE overrun' /\ stranded'
  BY <1>3 DEF Reinit, InitCall, InitSet, InitQueue, InitTask, InitFail, history
<1>4. ASSUME NEW t \in Gens, Task(t) PROVE overrun' /\ stranded'
  BY <1>4 DEF Task, TaskLoop, TaskReceive, ProcAdd, ProcRemove, ProcExit, ProcEvent, Walk,
              CallbackPost, CallbackReturn, TaskSave, TaskClear, TaskDrain, TaskExit, history
<1>5. CASE UNCHANGED vars
  BY <1>5 DEF vars
<1> QED BY <1>1, <1>2, <1>3, <1>4, <1>5 DEF Next

LEMMA StopStep ==
  ASSUME NEW a, Admins = {a}, IInv, StopInv(a), [Next]_vars
  PROVE  StopInv(a)'
<1>1. CASE overrun
  BY <1>1, OverrunStays DEF StopInv
<1>2. CASE ~overrun
  <2>0. Stop(a) \/ Lingers(a)
    BY <1>2 DEF StopInv
  <2>1. ASSUME NEW c \in Posters, PostCall(c) \/ PostSend(c) PROVE StopInv(a)'
    BY <1>2, <2>0, <2>1, StopPoster DEF StopInv, history
  <2>2. ASSUME NEW b \in Admins, Deinit(b) \/ Reinit(b) PROVE StopInv(a)'
    <3>1. CASE Stop(a)
      <4>1. (Stop(a)' \/ Lingers(a)') /\ ~overrun'
        BY <1>2, <2>2, <3>1, StopDeinit, StopReinit
      <4> QED BY <4>1 DEF StopInv
    <3>2. CASE Lingers(a)
      BY <1>2, <2>2, <3>2, LingersAdmin DEF StopInv
    <3> QED BY <2>0, <3>1, <3>2
  <2>3. ASSUME NEW t \in Gens, Task(t) PROVE StopInv(a)'
    BY <1>2, <2>0, <2>3, StopTask, LingersTask DEF StopInv, history
  <2>4. CASE UNCHANGED vars
    <3>1. UNCHANGED <<status, gq, alive, queue, cbs, tpc, cur, tq, cpc, held, sem, stranded, overrun>>
      BY <2>4 DEF vars
    <3>2. /\ (Gone' <=> Gone) /\ (NoneRuns' <=> NoneRuns) /\ (OneQueue' <=> OneQueue)
          /\ (NoExits' <=> NoExits) /\ (Cleared' <=> Cleared)
      BY <3>1 DEF Gone, NoneRuns, Running, OneQueue, NoExits, ExitAt, Cleared
    <3>3. \A t \in Gens : /\ Serves(t)' <=> Serves(t)
                          /\ ServesOn(t)' <=> ServesOn(t)
                          /\ Leaves(t)' <=> Leaves(t)
      BY <3>1, <3>2 DEF Serves, ServesOn, TakesExit, Leaves, RunsAlone, Running, OneQueue
    <3>4. (Stop(a)' <=> Stop(a)) /\ (Lingers(a)' <=> Lingers(a))
      BY <3>1, <3>2, <3>3 DEF Stop, Lingers
    <3> QED BY <3>1, <3>4 DEF StopInv
  <2> QED BY <2>1, <2>2, <2>3, <2>4 DEF Next
<1> QED BY <1>1, <1>2

LEMMA StopIsSafe ==
  ASSUME NEW a, Admins = {a}, IInv, StopInv(a)
  PROVE  OneTask /\ DownIsQuiet
<1>1. cpc[a] \in ClientPCs
  BY DEF IInv, TypeOK, Clients
<1>2. overrun \/ NoneRuns \/ \E t \in Gens : RunsAlone(t)
  BY <1>1 DEF StopInv, Stop, Lingers, ClientPCs, ServesOn, Serves, Leaves, Gone
<1>3. OneTask
  BY <1>2 DEF OneTask, NoneRuns, RunsAlone
<1>4. Down /\ ~stranded => Gone /\ cbs = <<>>
  <2>1. Down => /\ status = "NOT_INIT"
                /\ cpc[a] \notin {"initSet", "initQueue", "initTask", "initFail"}
    BY DEF Down, Initialising
  <2>2. ~stranded => Stop(a)
    BY DEF StopInv, Lingers
  <2> QED BY <1>1, <2>1, <2>2 DEF Stop, ClientPCs, Cleared
<1>5. DownIsQuiet
  BY <1>4 DEF DownIsQuiet, Gone, NoneRuns
<1> QED BY <1>3, <1>5

\* Only the walking task itself could change the list, and it does not.
LEMMA WalkKeepsList ==
  ASSUME NEW a, Admins = {a}, IInv, StopInv(a), [Next]_vars, ~overrun,
         NEW t \in Gens, tpc[t] \in {"walk", "callback"}
  PROVE  cbs' = cbs
<1>1. Running(t)
  BY DEF Running
<1>2. ASSUME NEW c \in Posters, PostCall(c) \/ PostSend(c) PROVE cbs' = cbs
  BY <1>2 DEF PostCall, PostSend
<1>3. ASSUME NEW b \in Admins, Deinit(b) \/ Reinit(b) PROVE cbs' = cbs
  <2>1. cpc[a] # "initTask"
    BY <1>1 DEF StopInv, Stop, Lingers, NoneRuns
  <2>2. b = a /\ ~InitTask(b)
    BY <2>1 DEF InitTask
  <2> QED BY <1>3, <2>2 DEF Deinit, DeinitCall, ExitCall, ExitSend, DeinitJoin, DeinitJoinNull, DeinitEnd,
                           Reinit, InitCall, InitSet, InitQueue, InitFail
<1>4. ASSUME NEW u \in Gens, Task(u) PROVE cbs' = cbs
  <2>1. u = t
    BY <1>1, <1>4, StepRuns, StopIsSafe DEF OneTask
  <2>2. ~(ProcAdd(u) \/ ProcRemove(u) \/ ProcExit(u))
    BY <2>1 DEF ProcAdd, ProcRemove, ProcExit
  <2> QED BY <1>4, <2>2 DEF Task, TaskLoop, TaskReceive, ProcEvent, Walk, CallbackPost,
                           CallbackReturn, TaskSave, TaskClear, TaskDrain, TaskExit
<1>5. CASE UNCHANGED vars
  BY <1>5 DEF vars
<1> QED BY <1>2, <1>3, <1>4, <1>5 DEF Next

LEMMA StopAlways ==
  ASSUME NEW a, Admins = {a}
  PROVE  Spec => [](IInv /\ StopInv(a))
<1>1. Init => IInv /\ StopInv(a)
  BY InitIInv, InitStop
<1>2. IInv /\ StopInv(a) /\ [Next]_vars => IInv' /\ StopInv(a)'
  BY IInvStep, StopStep
<1> QED BY <1>1, <1>2, PTL DEF Spec

\* Whatever the posting threads do, whatever cannot be allocated and however
\* full the queue is when deinit sends EXIT: as long as wm_event_init is not
\* called beside a task that a deinit gave up on, at most one event task runs.
THEOREM ListHasOneOwner ==
  ASSUME NEW a, Admins = {a}
  PROVE  Spec => []OneTask
<1>1. IInv /\ StopInv(a) => OneTask
  BY StopIsSafe
<1> QED BY <1>1, StopAlways, PTL

\* A deinit that did not give up on the task leaves no task, no registration
\* and no queue behind; and a wm_event_init that finds the task of an earlier,
\* given-up deinit gone makes that good.
THEOREM DeinitLeavesNothing ==
  ASSUME NEW a, Admins = {a}
  PROVE  Spec => []DownIsQuiet
<1>1. IInv /\ StopInv(a) => DownIsQuiet
  BY StopIsSafe
<1> QED BY <1>1, StopAlways, PTL

\* Nobody - no other task, no wm_event_init - changes the callback list while a
\* task walks it, not even while that task has been given up.
THEOREM ListStableUnderWalk ==
  ASSUME NEW a, Admins = {a}
  PROVE  Spec => WalkIsStable
<1>1. IInv /\ StopInv(a) /\ [Next]_vars =>
        [~overrun /\ (\E t \in Gens : tpc[t] \in {"walk", "callback"}) => cbs' = cbs]_vars
  BY WalkKeepsList
<1> QED BY <1>1, StopAlways, PTL DEF Spec, WalkIsStable
===============================================================================
