---------------------------- MODULE WmEventProofs -----------------------------
(***************************************************************************)
(* Proofs about the event loop, for any number of threads, registrations   *)
(* and events, any queue capacity and any number of restarts.              *)
(***************************************************************************)
EXTENDS WmEvent, ListLemmas, SequenceTheorems, TLAPS

-------------------------------------------------------------------------------
(* The inductive invariant: types, the messages clients are about to send, *)
(* and the absence of duplicates, which MSG_REMOVE needs to keep the type  *)
(* of the list (the first match is the only one).                          *)

HeldMsgOK ==
  \A c \in Clients :
    /\ cpc[c] = "send" => msg[c] \in PostMsg
    /\ cpc[c] = "exitSend" => msg[c] \in ExitMsg

IInv == TypeOK /\ HeldMsgOK /\ CallbacksDistinct

LEMMA InitIInv == Init => IInv
<1> SUFFICES ASSUME Init PROVE IInv
  OBVIOUS
<1> USE ConstantsAssumption DEF Init, Gens
<1>1. \A S : <<>> \in Seq(S) /\ Len(<<>>) = 0
  BY EmptySeq
<1>2. TypeOK
  <2>1. alive \in [Gens -> BOOLEAN] /\ stranded \in BOOLEAN /\ overrun \in BOOLEAN
    BY Zenon
  <2> QED BY <1>1, <2>1 DEF TypeOK, TaskPCs, ClientPCs
<1>3. HeldMsgOK
  BY DEF HeldMsgOK
<1>4. CallbacksDistinct
  BY DEF CallbacksDistinct, IsInjective
<1> QED BY <1>2, <1>3, <1>4 DEF IInv

\* The operation of a message tells which fields it has.
LEMMA MsgKinds ==
  ASSUME NEW m \in Msg \cup {NoMsg}
  PROVE  /\ m.op \in {"ADD", "REMOVE"} => m \in PostMsg /\ m.entry \in Entries
         /\ m.op = "EVENT" => m \in PostMsg /\ m.event \in Events
         /\ m.op = "EXIT" => m.sem \in SUBSET Admins
<1>1. CASE m \in [op : {"ADD", "REMOVE"}, entry : Entries]
  BY <1>1 DEF PostMsg
<1>2. CASE m \in [op : {"EVENT"}, event : Events]
  BY <1>2 DEF PostMsg
<1>3. CASE m \in [op : {"EXIT"}, sem : SUBSET Admins]
  BY <1>3
<1>4. CASE m = NoMsg
  BY <1>4 DEF NoMsg
<1> QED BY <1>1, <1>2, <1>3, <1>4 DEF Msg, PostMsg, ExitMsg

\* Putting a message into a queue that accepts it.
LEMMA EnqueueType ==
  ASSUME TypeOK, NEW q, Accepts(q), NEW m \in Msg, Enqueue(q, m)
  PROVE  queue' \in [Gens -> Seq(Msg)] /\ \A i \in Gens : Len(queue'[i]) <= Capacity
<1>1. CASE q \notin Gens
  BY <1>1 DEF TypeOK, Enqueue
<1>2. CASE q \in Gens
  <2>1. /\ Append(queue[q], m) \in Seq(Msg)
        /\ Len(Append(queue[q], m)) = Len(queue[q]) + 1
    BY <1>2, AppendProperties DEF TypeOK
  <2>2. Len(queue[q]) \in Nat /\ Len(queue[q]) < Capacity
    BY <1>2, LenProperties DEF TypeOK, Accepts
  <2>3. Len(queue[q]) + 1 <= Capacity
    BY <2>2, ConstantsAssumption
  <2> QED BY <1>2, <2>1, <2>3 DEF TypeOK, Enqueue
<1> QED BY <1>1, <1>2

\* Taking the head off a queue.
LEMMA DequeueType ==
  ASSUME TypeOK, NEW q \in Gens, queue[q] # <<>>,
         queue' = [queue EXCEPT ![q] = Tail(@)]
  PROVE  /\ queue' \in [Gens -> Seq(Msg)]
         /\ \A i \in Gens : Len(queue'[i]) <= Capacity
         /\ Head(queue[q]) \in Msg
<1>1. /\ Head(queue[q]) \in Msg
      /\ Tail(queue[q]) \in Seq(Msg)
      /\ Len(Tail(queue[q])) = Len(queue[q]) - 1
  BY HeadTailProperties DEF TypeOK
<1>2. Len(queue[q]) \in Nat /\ Len(queue[q]) <= Capacity
  BY LenProperties DEF TypeOK
<1>3. Len(queue[q]) - 1 <= Capacity
  BY <1>2, ConstantsAssumption
<1> QED BY <1>1, <1>3 DEF TypeOK

LEMMA PosterStep ==
  ASSUME IInv, NEW c \in Posters, PostCall(c) \/ PostSend(c)
  PROVE  IInv'
<1> USE DEF IInv, history
<1>0. c \in Clients
  BY DEF Clients
<1>1. CASE PostCall(c)
  <2>1. TypeOK'
    BY <1>0, <1>1 DEF PostCall, TypeOK, Goto, ClientPCs, taskVars, Msg
  <2>2. HeldMsgOK'
    BY <1>0, <1>1 DEF PostCall, HeldMsgOK, TypeOK, Goto, taskVars
  <2>3. CallbacksDistinct'
    BY <1>1 DEF PostCall, CallbacksDistinct
  <2> QED BY <2>1, <2>2, <2>3
<1>2. CASE PostSend(c)
  <2>0. msg[c] \in Msg
    BY <1>0, <1>2 DEF PostSend, HeldMsgOK, Msg
  <2>1. queue' \in [Gens -> Seq(Msg)] /\ \A i \in Gens : Len(queue'[i]) <= Capacity
    <3>1. PICK q : IF Accepts(q) THEN Enqueue(q, msg[c]) ELSE UNCHANGED queue
      BY <1>2 DEF PostSend
    <3>2. CASE Accepts(q)
      BY <2>0, <3>1, <3>2, EnqueueType
    <3>3. CASE ~Accepts(q)
      BY <3>1, <3>3 DEF TypeOK
    <3> QED BY <3>2, <3>3
  <2>2. TypeOK'
    BY <1>0, <1>2, <2>1 DEF PostSend, TypeOK, Goto, ClientPCs, taskVars
  <2>3. HeldMsgOK'
    BY <1>0, <1>2 DEF PostSend, HeldMsgOK, TypeOK, Goto
  <2>4. CallbacksDistinct'
    BY <1>2 DEF PostSend, CallbacksDistinct
  <2> QED BY <2>2, <2>3, <2>4
<1> QED BY <1>1, <1>2

LEMMA DeinitStep ==
  ASSUME IInv, NEW a \in Admins, Deinit(a)
  PROVE  IInv'
<1> USE DEF IInv, history
<1>0. a \in Clients
  BY DEF Clients
<1>1. CASE DeinitCall(a)
  BY <1>0, <1>1 DEF DeinitCall, TypeOK, HeldMsgOK, CallbacksDistinct, Goto, ClientPCs, taskVars, Msg, ExitMsg
<1>2. CASE ExitCall(a)
  <2>1. CASE GiveUp(a) /\ UNCHANGED <<msg, held>>
    <3>1. stranded' \in BOOLEAN
      BY <2>1 DEF GiveUp, TaskRuns, TypeOK
    <3> QED BY <1>0, <1>2, <2>1, <3>1 DEF ExitCall, GiveUp, TypeOK, HeldMsgOK, CallbacksDistinct,
                                          Goto, ClientPCs, taskVars
  <2>2. CASE ~(GiveUp(a) /\ UNCHANGED <<msg, held>>)
    <3>1. PICK m \in ExitMsg : /\ msg' = [msg EXCEPT ![a] = m]
                               /\ held' = [held EXCEPT ![a] = gq] /\ gq # 0
                               /\ Goto(a, "exitSend") /\ UNCHANGED stranded
      <4>1. [op |-> "EXIT", sem |-> IF sem[a] = "null" THEN {} ELSE {a}] \in ExitMsg
        BY DEF ExitMsg
      <4> QED BY <1>2, <2>2, <4>1 DEF ExitCall
    <3>2. msg' \in [Clients -> Msg \cup {NoMsg}] /\ msg'[a] \in ExitMsg
      BY <1>0, <3>1 DEF TypeOK, Msg
    <3>3. TypeOK'
      BY <1>0, <1>2, <3>1, <3>2 DEF ExitCall, TypeOK, Goto, ClientPCs, taskVars
    <3>4. HeldMsgOK'
      BY <1>0, <1>2, <3>1, <3>2 DEF ExitCall, HeldMsgOK, TypeOK, Goto
    <3> QED BY <1>2, <3>3, <3>4 DEF ExitCall, CallbacksDistinct
  <2> QED BY <2>1, <2>2
<1>3. CASE ExitSend(a)
  <2>0. msg[a] \in Msg
    BY <1>0, <1>3 DEF ExitSend, HeldMsgOK, Msg
  <2>1. queue' \in [Gens -> Seq(Msg)] /\ \A i \in Gens : Len(queue'[i]) <= Capacity
    <3>1. PICK q : IF Accepts(q) THEN Enqueue(q, msg[a]) ELSE UNCHANGED queue
      BY <1>3 DEF ExitSend
    <3>2. CASE Accepts(q)
      BY <2>0, <3>1, <3>2, EnqueueType
    <3>3. CASE ~Accepts(q)
      BY <3>1, <3>3 DEF TypeOK
    <3> QED BY <3>2, <3>3
  <2>5. PICK l \in {"wait", "deinitEnd"} : Goto(a, l) /\ stranded' \in BOOLEAN
    BY <1>3 DEF ExitSend, GiveUp, TaskRuns, TypeOK
  <2>2. TypeOK'
    BY <1>0, <1>3, <2>1, <2>5 DEF ExitSend, TypeOK, Goto, ClientPCs, taskVars
  <2>3. HeldMsgOK'
    BY <1>0, <1>3, <2>5 DEF ExitSend, HeldMsgOK, TypeOK, Goto
  <2>4. CallbacksDistinct'
    BY <1>3 DEF ExitSend, CallbacksDistinct
  <2> QED BY <2>2, <2>3, <2>4
<1>4. CASE DeinitJoin(a)
  BY <1>0, <1>4 DEF DeinitJoin, TypeOK, HeldMsgOK, CallbacksDistinct, Goto, ClientPCs, taskVars, Msg, ExitMsg
<1>5. CASE DeinitEnd(a)
  BY <1>0, <1>5 DEF DeinitEnd, TypeOK, HeldMsgOK, CallbacksDistinct, Goto, ClientPCs, taskVars, Msg, ExitMsg
<1>6. CASE DeinitJoinNull(a)
  <2>1. stranded' \in BOOLEAN
    BY <1>6 DEF DeinitJoinNull, GiveUp, TaskRuns, TypeOK
  <2> QED BY <1>0, <1>6, <2>1 DEF DeinitJoinNull, GiveUp, TypeOK, HeldMsgOK, CallbacksDistinct, Goto,
                                 ClientPCs, taskVars
<1> QED BY <1>1, <1>2, <1>3, <1>4, <1>5, <1>6 DEF Deinit

LEMMA EmptyList == <<>> \in Seq(Entries) /\ IsInjective(<<>>)
BY EmptySeq DEF IsInjective

LEMMA ReinitStep ==
  ASSUME IInv, NEW a \in Admins, Reinit(a)
  PROVE  IInv'
<1> USE DEF IInv, history
<1>0. a \in Clients /\ MaxInits \in Nat
  BY ConstantsAssumption DEF Clients
<1>1. CASE InitCall(a)
  BY <1>0, <1>1 DEF InitCall, TypeOK, HeldMsgOK, CallbacksDistinct, Goto, ClientPCs, taskVars, Msg, ExitMsg, Gens
<1>2. CASE InitSet(a)
  <2>1. overrun' \in BOOLEAN
    BY <1>2 DEF InitSet, TaskRuns, TypeOK
  <2> QED BY <1>0, <1>2, <2>1 DEF InitSet, TypeOK, HeldMsgOK, CallbacksDistinct, Goto, ClientPCs,
                                 taskVars, Msg, ExitMsg, Gens
<1>3. CASE InitQueue(a)
  <2>1. /\ inits' \in Gens
        /\ gq' \in Gens \cup {0}
        /\ alive' \in [Gens -> BOOLEAN]
        /\ queue' \in [Gens -> Seq(Msg)]
        /\ \A i \in Gens : Len(queue'[i]) <= Capacity
    <3>1. CASE /\ inits < MaxInits
               /\ inits' = inits + 1
               /\ gq' = inits'
               /\ alive' = [alive EXCEPT ![inits'] = TRUE]
               /\ queue' = [queue EXCEPT ![inits'] = <<>>]
      <4>1. inits + 1 \in Gens
        BY <1>0, <3>1 DEF TypeOK, Gens
      <4>2. <<>> \in Seq(Msg) /\ Len(<<>>) = 0 /\ 0 <= Capacity
        BY EmptySeq, ConstantsAssumption
      <4> QED BY <4>1, <4>2, <3>1 DEF TypeOK
    <3>2. CASE UNCHANGED <<inits, gq, alive, queue>>
      BY <3>2 DEF TypeOK
    <3> QED BY <1>3, <3>1, <3>2 DEF InitQueue
  <2>2. cpc' \in [Clients -> ClientPCs]
    <3>1. PICK l \in ClientPCs : cpc' = [cpc EXCEPT ![a] = l]
      BY <1>3 DEF InitQueue, Goto, ClientPCs
    <3> QED BY <1>0, <3>1 DEF TypeOK
  <2>3. TypeOK'
    BY <1>3, <2>1, <2>2 DEF InitQueue, TypeOK, taskVars
  <2>4. HeldMsgOK'
    BY <1>0, <1>3 DEF InitQueue, HeldMsgOK, TypeOK, Goto
  <2> QED BY <1>3, <2>3, <2>4 DEF InitQueue, CallbacksDistinct
<1>5. CASE InitFail(a)
  BY <1>0, <1>5 DEF InitFail, TypeOK, HeldMsgOK, CallbacksDistinct, Goto, ClientPCs, taskVars, Msg, ExitMsg, Gens
<1>4. CASE InitTask(a)
  <2>1. tpc' \in [Gens -> TaskPCs] /\ alive' \in [Gens -> BOOLEAN]
    <3>1. CASE /\ UNCHANGED alive
               /\ \E t \in Gens : tpc' = [tpc EXCEPT ![t] = "loop"]
      BY <3>1 DEF TypeOK, TaskPCs
    <3>2. CASE /\ UNCHANGED tpc
               /\ alive' = [i \in Gens |-> alive[i] /\ i # gq]
      BY <3>2 DEF TypeOK
    <3> QED BY <1>4, <3>1, <3>2 DEF InitTask
  <2>2. cpc' \in [Clients -> ClientPCs]
    <3>1. PICK l \in ClientPCs : cpc' = [cpc EXCEPT ![a] = l]
      BY <1>4 DEF InitTask, Goto, ClientPCs
    <3> QED BY <1>0, <3>1 DEF TypeOK
  <2>3. TypeOK'
    BY <1>4, <2>1, <2>2, EmptyList DEF InitTask, TypeOK
  <2>4. HeldMsgOK'
    BY <1>0, <1>4 DEF InitTask, HeldMsgOK, TypeOK, Goto
  <2> QED BY <1>4, <2>3, <2>4, EmptyList DEF InitTask, CallbacksDistinct
<1> QED BY <1>1, <1>2, <1>3, <1>4, <1>5 DEF Reinit

LEMMA TaskStep ==
  ASSUME IInv, NEW t \in Gens, Task(t)
  PROVE  IInv'
<1> USE DEF IInv, history
<1>1. CASE TaskLoop(t)
  BY <1>1, SMTT(30) DEF TaskLoop, TypeOK, HeldMsgOK, CallbacksDistinct, Step, Done, TaskPCs, clientVars, Gens
<1>2. CASE ProcEvent(t)
  BY <1>2 DEF ProcEvent, TypeOK, HeldMsgOK, CallbacksDistinct, Step, Done, TaskPCs, clientVars, Gens
<1>3. CASE Walk(t)
  <2>1. /\ tpc' \in [Gens -> TaskPCs]
        /\ cur' \in [Gens -> Msg \cup {NoMsg}]
        /\ pos' \in [Gens -> Nat \ {0}]
    <3>1. CASE pos[t] > Len(cbs)
      BY <1>3, <3>1 DEF Walk, TypeOK, Step, Done, TaskPCs
    <3>2. CASE ~(pos[t] > Len(cbs)) /\ Matches(cbs[pos[t]], cur[t].event)
      BY <1>3, <3>2 DEF Walk, TypeOK, Step, TaskPCs
    <3>3. CASE ~(pos[t] > Len(cbs)) /\ ~Matches(cbs[pos[t]], cur[t].event)
      <4>1. pos[t] \in Nat \ {0} /\ pos[t] + 1 \in Nat \ {0}
        BY DEF TypeOK
      <4>2. pos' = [pos EXCEPT ![t] = pos[t] + 1] /\ UNCHANGED <<tpc, cur>>
        BY <1>3, <3>3 DEF Walk
      <4> QED BY <4>1, <4>2 DEF TypeOK
    <3> QED BY <3>1, <3>2, <3>3
  <2> QED BY <1>3, <2>1 DEF Walk, TypeOK, HeldMsgOK, CallbacksDistinct, clientVars
<1>4. CASE CallbackReturn(t)
  BY <1>4 DEF CallbackReturn, TypeOK, HeldMsgOK, CallbacksDistinct, Step, Done, TaskPCs, clientVars, Gens
<1>5. CASE TaskSave(t)
  BY <1>5 DEF TaskSave, TypeOK, HeldMsgOK, CallbacksDistinct, Step, Done, TaskPCs, clientVars, Gens
<1>6. CASE TaskClear(t)
  BY <1>6 DEF TaskClear, TypeOK, HeldMsgOK, CallbacksDistinct, Step, Done, TaskPCs, clientVars, Gens
<1>7. CASE TaskExit(t)
  BY <1>7 DEF TaskExit, TypeOK, HeldMsgOK, CallbacksDistinct, Step, Done, TaskPCs, clientVars, Gens
<1>8. CASE TaskReceive(t)
  <2>1. /\ queue' \in [Gens -> Seq(Msg)]
        /\ \A j \in Gens : Len(queue'[j]) <= Capacity
        /\ Head(queue[tq[t]]) \in Msg
    BY <1>8, DequeueType DEF TaskReceive, TypeOK
  <2> QED BY <1>8, <2>1 DEF TaskReceive, TypeOK, HeldMsgOK, CallbacksDistinct, Step, TaskPCs, clientVars
<1>9. CASE ProcAdd(t)
  <2>1. cur[t].entry \in Entries
    BY <1>9, MsgKinds DEF ProcAdd, TypeOK
  <2>2. cbs' \in Seq(Entries) /\ IsInjective(cbs')
    <3>1. CASE cbs' = cbs
      BY <3>1 DEF TypeOK, CallbacksDistinct
    <3>2. CASE cbs' = Append(cbs, cur[t].entry) /\ cur[t].entry \notin ToSet(cbs)
      BY <2>1, <3>2, AppendNew DEF TypeOK, CallbacksDistinct
    <3> QED BY <1>9, <3>1, <3>2 DEF ProcAdd
  <2> QED BY <1>9, <2>2 DEF ProcAdd, TypeOK, HeldMsgOK, CallbacksDistinct, Done, Step, TaskPCs, clientVars
<1>10. CASE ProcRemove(t)
  <2>1. cbs' \in Seq(Entries) /\ IsInjective(cbs')
    BY <1>10, RemoveOnly DEF ProcRemove, TypeOK, CallbacksDistinct
  <2> QED BY <1>10, <2>1 DEF ProcRemove, TypeOK, HeldMsgOK, CallbacksDistinct, Done, Step, TaskPCs, clientVars
<1>11. CASE ProcExit(t)
  <2>1. cur[t].sem \in SUBSET Admins
    BY <1>11, MsgKinds DEF ProcExit, TypeOK
  <2> QED BY <1>11, <2>1, EmptyList DEF ProcExit, TypeOK, HeldMsgOK, CallbacksDistinct, Step, TaskPCs, clientVars
<1>12. CASE CallbackPost(t)
  <2>1. queue' \in [Gens -> Seq(Msg)] /\ \A j \in Gens : Len(queue'[j]) <= Capacity
    BY <1>12, EnqueueType DEF CallbackPost, Msg
  <2> QED BY <1>12, <2>1 DEF CallbackPost, TypeOK, HeldMsgOK, CallbacksDistinct, taskVars, clientVars
<1>13. CASE TaskDrain(t)
  <2>1. queue' \in [Gens -> Seq(Msg)] /\ \A j \in Gens : Len(queue'[j]) <= Capacity
    BY <1>13, DequeueType DEF TaskDrain, TypeOK
  <2> QED BY <1>13, <2>1 DEF TaskDrain, TypeOK, HeldMsgOK, CallbacksDistinct, Step, TaskPCs, clientVars
<1> QED
  BY <1>1, <1>2, <1>3, <1>4, <1>5, <1>6, <1>7, <1>8, <1>9, <1>10, <1>11, <1>12, <1>13 DEF Task

LEMMA IInvStep ==
  ASSUME IInv, [Next]_vars
  PROVE  IInv'
<1>1. ASSUME NEW c \in Posters, PostCall(c) \/ PostSend(c) PROVE IInv'
  BY <1>1, PosterStep
<1>2. ASSUME NEW a \in Admins, Deinit(a) \/ Reinit(a) PROVE IInv'
  BY <1>2, DeinitStep, ReinitStep
<1>3. ASSUME NEW t \in Gens, Task(t) PROVE IInv'
  BY <1>3, TaskStep
<1>4. CASE UNCHANGED vars
  BY <1>4 DEF IInv, TypeOK, HeldMsgOK, CallbacksDistinct, vars
<1> QED BY <1>1, <1>2, <1>3, <1>4 DEF Next

\* Spec => []IInv: in every behaviour of the event component, for any threads,
\* capacity and restarts, variables keep their types and no registration is in
\* the callback list twice.
THEOREM TypesAndDistinctness == Spec => [](TypeOK /\ CallbacksDistinct)
<1>1. IInv => TypeOK /\ CallbacksDistinct
  BY DEF IInv
<1> QED BY <1>1, InitIInv, IInvStep, PTL DEF Spec
-------------------------------------------------------------------------------
(* The event loop implements the event bus when, as in the SDK itself,     *)
(* nobody stops it.  RunInv says where the one task can be and what it     *)
(* holds there.                                                            *)

RunInv ==
  /\ status = "INITED" /\ gq = 1 /\ alive[1]
  /\ \A t \in Gens \ {1} : tpc[t] = "none"
  /\ queue[1] \in Seq(PostMsg)
  /\ \A c \in Clients : cpc[c] = "idle" \/ (cpc[c] = "send" /\ held[c] = 1)
  /\ \/ tpc[1] = "loop" /\ cur[1] = NoMsg
     \/ tpc[1] = "recv" /\ cur[1] = NoMsg /\ tq[1] = 1
     \/ tpc[1] = "proc" /\ cur[1] \in PostMsg
     \/ tpc[1] = "walk" /\ cur[1] \in PostMsg /\ cur[1].op = "EVENT"
     \/ /\ tpc[1] = "callback" /\ cur[1] \in PostMsg /\ cur[1].op = "EVENT"
        /\ pos[1] <= Len(cbs)

LEMMA FirstGen == 1 \in Gens
BY ConstantsAssumption DEF Gens

LEMMA InitRunInv == Init => RunInv
<1> SUFFICES ASSUME Init PROVE RunInv
  OBVIOUS
<1>1. alive[1]
  BY FirstGen, Zenon DEF Init
<1>2. queue[1] \in Seq(PostMsg)
  BY FirstGen, EmptySeq DEF Init
<1> QED BY <1>1, <1>2, FirstGen DEF Init, RunInv

\* The queue of the running task accepts a post.
LEMMA PostType ==
  ASSUME IInv, RunInv, NEW m \in PostMsg, Enqueue(1, m)
  PROVE  queue'[1] \in Seq(PostMsg) /\ queue'[1] = Append(queue[1], m)
<1>1. queue'[1] = Append(queue[1], m)
  BY FirstGen DEF Enqueue, IInv, TypeOK
<1> QED BY <1>1, AppendProperties DEF RunInv

LEMMA RunPoster ==
  ASSUME IInv, RunInv, NEW c \in Posters, PostCall(c) \/ PostSend(c)
  PROVE  RunInv'
<1>0. c \in Clients
  BY DEF Clients
<1>1. CASE PostCall(c)
  BY <1>0, <1>1 DEF RunInv, PostCall, Goto, taskVars, IInv, TypeOK
<1>2. CASE PostSend(c)
  <2>1. held[c] = 1 /\ msg[c] \in PostMsg
    BY <1>0, <1>2 DEF PostSend, RunInv, IInv, HeldMsgOK
  <2>2. IF Accepts(1) THEN Enqueue(1, msg[c]) ELSE UNCHANGED queue
    BY <1>2, <2>1 DEF PostSend, Storage, RunInv
  <2>3. queue'[1] \in Seq(PostMsg)
    BY <2>1, <2>2, PostType DEF RunInv
  <2> QED BY <1>0, <1>2, <2>3 DEF RunInv, PostSend, Goto, taskVars, IInv, TypeOK
<1> QED BY <1>1, <1>2

LEMMA RunTask ==
  ASSUME IInv, RunInv, NEW t \in Gens, Task(t)
  PROVE  t = 1 /\ RunInv'
<1>0. t = 1
  <2>1. tpc[t] # "none"
    BY DEF Task, TaskLoop, TaskReceive, ProcAdd, ProcRemove, ProcExit, ProcEvent,
           Walk, CallbackPost, CallbackReturn, TaskSave, TaskClear, TaskDrain, TaskExit
  <2> QED BY <2>1 DEF RunInv
<1> USE <1>0, FirstGen DEF RunInv, IInv, TypeOK, Step, Done, clientVars
<1>1. CASE TaskLoop(t)
  BY <1>1 DEF TaskLoop
<1>2. CASE TaskReceive(t)
  <2>1. Head(queue[1]) \in PostMsg /\ Tail(queue[1]) \in Seq(PostMsg)
    BY <1>2, HeadTailProperties DEF TaskReceive
  <2> QED BY <1>2, <2>1 DEF TaskReceive
<1>3. CASE ProcAdd(t) \/ ProcRemove(t)
  BY <1>3 DEF ProcAdd, ProcRemove
<1>4. CASE ProcExit(t)
  BY <1>4, MsgKinds DEF ProcExit, PostMsg
<1>5. CASE ProcEvent(t)
  BY <1>5 DEF ProcEvent
<1>6. CASE Walk(t)
  <2>1. Len(cbs) \in Nat /\ pos[1] \in Nat
    BY LenProperties
  <2> QED BY <1>6, <2>1 DEF Walk
<1>7. CASE CallbackPost(t)
  <2>1. PICK m \in PostMsg : Enqueue(1, m)
    BY <1>7 DEF CallbackPost, Storage
  <2>2. queue'[1] \in Seq(PostMsg)
    BY <2>1, PostType
  <2> QED BY <1>7, <2>2 DEF CallbackPost, taskVars
<1>8. CASE CallbackReturn(t)
  BY <1>8 DEF CallbackReturn
<1>9. ~(TaskSave(t) \/ TaskClear(t) \/ TaskDrain(t) \/ TaskExit(t))
  BY DEF TaskSave, TaskClear, TaskDrain, TaskExit
<1> QED BY <1>1, <1>2, <1>3, <1>4, <1>5, <1>6, <1>7, <1>8, <1>9 DEF Task

\* The registrations from position k of the list on that match event x.
DueFrom(k, x) == {e \in Entries : Matches(e, x) /\ \E j \in k..Len(cbs) : cbs[j] = e}

LEMMA MatchesIsBusMatches ==
  ASSUME NEW e, NEW x
  PROVE  Matches(e, x) <=> Bus!Matches(e, x)
BY DEF Matches, Bus!Matches

LEMMA DueFromFirst ==
  ASSUME TypeOK, NEW x
  PROVE  DueFrom(1, x) = {e \in ToSet(cbs) : Bus!Matches(e, x)}
<1>1. cbs \in Seq(Entries)
  BY DEF TypeOK
<1>2. Len(cbs) \in Nat /\ DOMAIN cbs = 1..Len(cbs) /\ \A j \in 1..Len(cbs) : cbs[j] \in Entries
  BY <1>1, LenProperties, ElementOfSeq
<1> QED BY <1>2, MatchesIsBusMatches DEF DueFrom, ToSet

LEMMA DueFromNext ==
  ASSUME TypeOK, CallbacksDistinct, NEW x, NEW k \in 1..Len(cbs)
  PROVE  IF Matches(cbs[k], x)
         THEN cbs[k] \in DueFrom(k, x) /\ DueFrom(k + 1, x) = DueFrom(k, x) \ {cbs[k]}
         ELSE DueFrom(k + 1, x) = DueFrom(k, x)
<1>1. Len(cbs) \in Nat /\ DOMAIN cbs = 1..Len(cbs) /\ cbs[k] \in Entries
  BY LenProperties, ElementOfSeq DEF TypeOK
<1>2. \A j : j \in k..Len(cbs) <=> j = k \/ j \in (k + 1)..Len(cbs)
  BY <1>1
<1>3. \A j \in (k + 1)..Len(cbs) : cbs[j] # cbs[k]
  BY <1>1 DEF CallbacksDistinct, IsInjective
<1> QED BY <1>1, <1>2, <1>3 DEF DueFrom

LEMMA DueFromPastEnd ==
  ASSUME NEW x, NEW k \in Nat, Len(cbs) \in Nat, k > Len(cbs)
  PROVE  DueFrom(k, x) = {}
BY DEF DueFrom

LEMMA DueNowValue ==
  ASSUME RunInv
  PROVE  /\ tpc[1] \in {"loop", "recv"} => DueNow = {}
         /\ tpc[1] = "proc" =>
              DueNow = IF cur[1].op = "EVENT" THEN DueFrom(1, cur[1].event) ELSE {}
         /\ tpc[1] = "walk" => DueNow = DueFrom(pos[1], cur[1].event)
         /\ tpc[1] = "callback" => DueNow = DueFrom(pos[1] + 1, cur[1].event)
BY DEF RunInv, DueNow, Serving, NextCall, DueFrom

\* DueNow depends only on the task's position and the list.
LEMMA DueNowSame ==
  ASSUME cbs' = cbs, tpc'[1] = tpc[1], cur'[1] = cur[1], pos'[1] = pos[1]
  PROVE  DueNow' = DueNow
BY DEF DueNow, Serving, NextCall, Matches

LEMMA BusInit == Init => Bus!Init
<1> SUFFICES ASSUME Init PROVE Bus!Init
  OBVIOUS
<1>1. ToSet(cbs) = {}
  BY DEF Init, ToSet
<1>2. DueNow = {}
  BY FirstGen DEF Init, DueNow, Serving
<1> QED BY <1>1, <1>2, FirstGen DEF Init, Bus!Init, NoMsg, Bus!NoMsg

LEMMA BusPoster ==
  ASSUME IInv, RunInv, NEW c \in Posters, PostCall(c) \/ PostSend(c)
  PROVE  [Bus!Next]_(Bus!busVars)
<1>0. c \in Clients
  BY DEF Clients
<1>1. UNCHANGED <<cbs, tpc, cur, pos>>
  BY DEF PostCall, PostSend, taskVars
<1>2. DueNow' = DueNow /\ ToSet(cbs)' = ToSet(cbs)
  BY <1>1, DueNowSame DEF ToSet
<1>3. CASE UNCHANGED queue
  BY <1>1, <1>2, <1>3 DEF Bus!busVars
<1>4. CASE PostSend(c) /\ ~ UNCHANGED queue
  <2>1. held[c] = 1 /\ msg[c] \in PostMsg
    BY <1>0, <1>4 DEF PostSend, RunInv, IInv, HeldMsgOK
  <2>2. Accepts(1) /\ Enqueue(1, msg[c])
    BY <1>4, <2>1 DEF PostSend, Storage, RunInv
  <2>3. queue'[1] = Append(queue[1], msg[c])
    BY <2>1, <2>2, PostType
  <2>4. Bus!Post(msg[c])
    BY <1>1, <1>2, <2>2, <2>3 DEF Bus!Post, Accepts
  <2> QED BY <2>1, <2>4 DEF Bus!Next, Bus!BusMsg, PostMsg
<1> QED BY <1>3, <1>4 DEF PostCall

LEMMA BusTask ==
  ASSUME IInv, RunInv, Task(1), RunInv'
  PROVE  [Bus!Next]_(Bus!busVars)
<1> USE FirstGen
<1>0. IInv /\ TypeOK /\ CallbacksDistinct
  BY DEF IInv
<1>1. CASE TaskLoop(1)
  <2>1. UNCHANGED <<cbs, queue, cur>> /\ tpc[1] = "loop" /\ tpc'[1] = "recv"
    BY <1>0, <1>1 DEF TaskLoop, RunInv, Step, TypeOK
  <2>2. DueNow = {} /\ DueNow' = {}
    BY <2>1 DEF DueNow, Serving
  <2> QED BY <2>1, <2>2 DEF Bus!busVars, ToSet
<1>2. CASE TaskReceive(1)
  <2>1. /\ cur[1] = NoMsg /\ queue[1] # <<>> /\ tpc[1] = "recv" /\ tpc'[1] = "proc"
        /\ cur'[1] = Head(queue[1]) /\ queue'[1] = Tail(queue[1]) /\ cbs' = cbs
    BY <1>0, <1>2 DEF TaskReceive, RunInv, Step, TypeOK
  <2>2. DueNow' = IF cur'[1].op = "EVENT"
                  THEN {e \in ToSet(cbs) : Bus!Matches(e, cur'[1].event)} ELSE {}
    <3>1. DueNow' = IF cur'[1].op = "EVENT"
                    THEN {e \in Entries : /\ Matches(e, cur'[1].event)
                                          /\ \E j \in 1..Len(cbs) : cbs[j] = e}
                    ELSE {}
      BY <2>1 DEF DueNow, Serving, NextCall, Matches
    <3> QED BY <1>0, <3>1, DueFromFirst DEF DueFrom
  <2>3. ToSet(cbs') = ToSet(cbs)
    BY <2>1
  <2>4. Bus!Take
    BY <2>1, <2>2, <2>3 DEF Bus!Take, Bus!NoMsg, NoMsg
  <2> QED BY <2>4 DEF Bus!Next
<1>3. CASE ProcAdd(1)
  <2>1. /\ tpc[1] = "proc" /\ tpc'[1] = "loop" /\ cur'[1] = NoMsg
        /\ cur[1].op = "ADD" /\ queue' = queue
    BY <1>0, <1>3 DEF ProcAdd, Done, Step, TypeOK
  <2>2. cur[1].entry \in Entries
    BY <1>0, <2>1, MsgKinds DEF TypeOK
  <2>3. DueNow = {} /\ DueNow' = {}
    BY <2>1 DEF DueNow, Serving
  <2>4. \/ ToSet(cbs') = ToSet(cbs) \cup {cur[1].entry}
        \/ MallocFails /\ ToSet(cbs') = ToSet(cbs)
    <3>1. CASE cur[1].entry \in ToSet(cbs)
      BY <1>3, <3>1 DEF ProcAdd
    <3>2. CASE cur[1].entry \notin ToSet(cbs) /\ cbs' = Append(cbs, cur[1].entry)
      BY <1>0, <2>2, <3>2, AppendNew DEF TypeOK, CallbacksDistinct
    <3>3. CASE MallocFails /\ cbs' = cbs
      BY <3>3
    <3> QED BY <1>3, <3>1, <3>2, <3>3 DEF ProcAdd
  <2>5. Bus!Register
    BY <2>1, <2>3, <2>4 DEF Bus!Register, Bus!NoMsg, NoMsg
  <2> QED BY <2>5 DEF Bus!Next
<1>4. CASE ProcRemove(1)
  <2>1. /\ tpc[1] = "proc" /\ tpc'[1] = "loop" /\ cur'[1] = NoMsg
        /\ cur[1].op = "REMOVE" /\ queue' = queue
        /\ cbs' = RemoveFirst(cbs, cur[1].entry)
    BY <1>0, <1>4 DEF ProcRemove, Done, Step, TypeOK
  <2>2. DueNow = {} /\ DueNow' = {}
    BY <2>1 DEF DueNow, Serving
  <2>3. ToSet(cbs') = ToSet(cbs) \ {cur[1].entry}
    BY <1>0, <2>1, RemoveOnly DEF TypeOK, CallbacksDistinct
  <2>4. Bus!Unregister
    BY <2>1, <2>2, <2>3 DEF Bus!Unregister, Bus!NoMsg, NoMsg
  <2> QED BY <2>4 DEF Bus!Next
<1>5. CASE ProcEvent(1)
  <2>1. /\ tpc[1] = "proc" /\ tpc'[1] = "walk" /\ pos'[1] = 1
        /\ cur[1].op = "EVENT" /\ UNCHANGED <<queue, cbs, cur>>
    BY <1>0, <1>5 DEF ProcEvent, Step, TypeOK
  <2>2. DueNow' = DueNow
    BY <2>1 DEF DueNow, Serving, NextCall, Matches
  <2> QED BY <2>1, <2>2 DEF Bus!busVars, ToSet
<1>6. CASE Walk(1)
  <2>1. tpc[1] = "walk" /\ cur[1].op = "EVENT" /\ UNCHANGED <<queue, cbs>>
    BY <1>6 DEF Walk, RunInv
  <2>2. Len(cbs) \in Nat /\ pos[1] \in Nat \ {0}
    BY <1>0, LenProperties DEF TypeOK
  <2>3. DueNow = DueFrom(pos[1], cur[1].event)
    BY <2>1, DueNowValue
  <2>4. CASE pos[1] > Len(cbs)
    <3>1. tpc'[1] = "loop" /\ cur'[1] = NoMsg
      BY <1>0, <1>6, <2>4 DEF Walk, Done, Step, TypeOK
    <3>2. DueNow = {}
      BY <2>2, <2>3, <2>4, DueFromPastEnd
    <3>3. DueNow' = {}
      BY <3>1 DEF DueNow, Serving
    <3>4. Bus!Finish
      BY <2>1, <3>1, <3>2, <3>3 DEF Bus!Finish, Bus!NoMsg, NoMsg, ToSet
    <3> QED BY <3>4 DEF Bus!Next
  <2>5. CASE pos[1] <= Len(cbs) /\ Matches(cbs[pos[1]], cur[1].event)
    <3>1. tpc'[1] = "callback" /\ UNCHANGED <<cur, pos>>
      BY <1>0, <1>6, <2>2, <2>5 DEF Walk, Step, TypeOK
    <3>2. pos[1] \in 1..Len(cbs) /\ cbs[pos[1]] \in Entries
      BY <1>0, <2>2, <2>5, ElementOfSeq DEF TypeOK
    <3>3. /\ cbs[pos[1]] \in DueNow
          /\ DueFrom(pos[1] + 1, cur[1].event) = DueNow \ {cbs[pos[1]]}
      BY <1>0, <2>3, <2>5, <3>2, DueFromNext
    <3>4. DueNow' = DueFrom(pos[1] + 1, cur[1].event)
      BY <2>1, <3>1 DEF DueNow, Serving, NextCall, Matches, DueFrom
    <3>5. Bus!Call(cbs[pos[1]])
      BY <2>1, <3>1, <3>3, <3>4 DEF Bus!Call, ToSet
    <3> QED BY <3>2, <3>5 DEF Bus!Next
  <2>6. CASE pos[1] <= Len(cbs) /\ ~Matches(cbs[pos[1]], cur[1].event)
    <3>1. UNCHANGED <<tpc, cur>> /\ pos'[1] = pos[1] + 1
      BY <1>0, <1>6, <2>2, <2>6 DEF Walk, TypeOK
    <3>2. pos[1] \in 1..Len(cbs)
      BY <2>2, <2>6
    <3>3. DueFrom(pos[1] + 1, cur[1].event) = DueNow
      BY <1>0, <2>3, <2>6, <3>2, DueFromNext
    <3>4. DueNow' = DueFrom(pos[1] + 1, cur[1].event)
      BY <2>1, <3>1 DEF DueNow, Serving, NextCall, Matches, DueFrom
    <3> QED BY <2>1, <3>1, <3>3, <3>4 DEF Bus!busVars, ToSet
  <2> QED BY <2>2, <2>4, <2>5, <2>6
<1>7. CASE CallbackPost(1)
  <2>1. UNCHANGED <<cbs, tpc, cur, pos>>
    BY <1>7 DEF CallbackPost, taskVars
  <2>2. PICK m \in PostMsg : Accepts(1) /\ Enqueue(1, m)
    BY <1>7 DEF CallbackPost, Storage, RunInv
  <2>3. queue'[1] = Append(queue[1], m)
    BY <2>2, PostType
  <2>4. Bus!Post(m)
    BY <2>1, <2>2, <2>3, DueNowSame DEF Bus!Post, Accepts, ToSet
  <2> QED BY <2>4 DEF Bus!Next, Bus!BusMsg, PostMsg
<1>8. CASE CallbackReturn(1)
  <2>1. /\ tpc[1] = "callback" /\ tpc'[1] = "walk" /\ pos'[1] = pos[1] + 1
        /\ UNCHANGED <<queue, cbs, cur>>
    BY <1>0, <1>8 DEF CallbackReturn, Step, TypeOK
  <2>2. DueNow' = DueNow
    BY <2>1 DEF DueNow, Serving, NextCall, Matches
  <2> QED BY <2>1, <2>2 DEF Bus!busVars, ToSet
<1>9. ~(ProcExit(1) \/ TaskSave(1) \/ TaskClear(1) \/ TaskDrain(1) \/ TaskExit(1))
  BY DEF ProcExit, TaskSave, TaskClear, TaskDrain, TaskExit, RunInv, PostMsg
<1> QED BY <1>1, <1>2, <1>3, <1>4, <1>5, <1>6, <1>7, <1>8, <1>9 DEF Task

\* The component as the SDK runs it - initialised at boot, never stopped -
\* implements the event bus: messages are served once and in the order they
\* were accepted, and an event is delivered exactly once to each registration
\* that matches it when it is taken up, whatever the callbacks post.
THEOREM EventLoopImplementsBus ==
  ASSUME Admins = {}
  PROVE  Spec => ImplementsBus
<1> USE DEF ImplementsBus
<1>1. Init => IInv /\ RunInv /\ Bus!Init
  BY InitIInv, InitRunInv, BusInit
<1>2. IInv /\ RunInv /\ [Next]_vars => IInv' /\ RunInv' /\ [Bus!Next]_(Bus!busVars)
  <2> SUFFICES ASSUME IInv, RunInv, [Next]_vars
               PROVE  IInv' /\ RunInv' /\ [Bus!Next]_(Bus!busVars)
    OBVIOUS
  <2>1. ASSUME NEW c \in Posters, PostCall(c) \/ PostSend(c)
        PROVE  IInv' /\ RunInv' /\ [Bus!Next]_(Bus!busVars)
    BY <2>1, PosterStep, RunPoster, BusPoster
  <2>2. ASSUME NEW t \in Gens, Task(t)
        PROVE  IInv' /\ RunInv' /\ [Bus!Next]_(Bus!busVars)
    BY <2>2, TaskStep, RunTask, BusTask
  <2>3. CASE UNCHANGED vars
    <3>1. DueNow' = DueNow
      BY <2>3, DueNowSame DEF vars
    <3> QED BY <2>3, <3>1 DEF vars, IInv, TypeOK, HeldMsgOK, CallbacksDistinct, RunInv,
                             Bus!busVars, ToSet
  <2> QED BY <2>1, <2>2, <2>3 DEF Next
<1> QED BY <1>1, <1>2, PTL DEF Spec, Bus!Spec
===============================================================================
